--------------------------- MODULE ScrapersProofs ----------------------------
(***************************************************************************)
(* Proofs about the walk over a board: for any pages, links and jobs, and  *)
(* whatever cannot be read, Telfed opens no page twice, no error but the   *)
(* deadline loses what was collected, and a walk that ends well returns    *)
(* what it has listed.                                                     *)
(*                                                                         *)
(* The last needs to know where a listed job is at each place of the walk: *)
(* among all those of earlier pages, among those found on this one, or     *)
(* still to be looked at (Accounted).  Once its deadline has passed a walk *)
(* has only so many steps before it (ACutWalkIsFinite).                    *)
(*                                                                         *)
(* And about the pages of a company's site: whatever the order of tasks,   *)
(* collector and closing goroutine, no page that was read is left out.     *)
(* There, too, it has to be said where a job is that its task has given    *)
(* away (Delivered), and what a task that ended without one proves about   *)
(* the context and the group (Excused).                                    *)
(*                                                                         *)
(* And about nested groups on the shared pool: what a source returns is    *)
(* complete and final.  The argument follows every link to a job from the  *)
(* loop that submits it, through queue and worker, to the items            *)
(* (EveryLinkIsSomewhere), for a group that has not been cut short.  And   *)
(* that nested groups may wait for each other is made exact: only a pool   *)
(* whose workers all hold waiting sources stands still (FullOfSources),    *)
(* so that a spare worker, or a queue for every task, is enough.           *)
(*                                                                         *)
(* And about sending an application: for any calls, any number of names    *)
(* for the field of the CV and whatever the remote side does, Sending      *)
(* implements Submission.  What the verdict promises holds because the     *)
(* place a call is at says what has been handed over and acknowledged      *)
(* (Reached): a post is made only once the GET's status was 200, so a      *)
(* result with the status 429 was returned before the first post, and      *)
(* ReadAnswer never goes back.                                             *)
(***************************************************************************)
EXTENDS PageWalk, JobPages, TaskGroups, Sending, FiniteSetTheorems, TLAPS

Expected == listed \ (Known \union Unfit \union missed)

(* The fields that the updates keep.                                       *)
Shape ==
  /\ DOMAIN walk = {"pc", "page", "next", "todo", "found", "all"}
  /\ DOMAIN result = {"jobs", "failed"}
  /\ DOMAIN opened = Pages
  /\ \A p \in Pages : opened[p] \in Nat
  /\ result.failed \in BOOLEAN

OnlyAtTheEnd == result.failed => walk.pc = "done"

Accounted ==
  /\ walk.pc \in {"loop", "fetch", "pause", "anchors", "submitAnchors", "waitAnchors"} =>
       Expected \subseteq walk.all
  /\ walk.pc = "append" => Expected \subseteq walk.all \union walk.found
  /\ walk.pc \in {"items", "itemPause"} =>
       Expected \subseteq walk.all \union walk.found \union walk.todo
  /\ walk.pc \in {"submitDetails", "details"} =>
       Expected \subseteq walk.found \union walk.todo

WalkInv ==
  /\ Shape
  /\ OnlyAtTheEnd
  /\ Accounted
  /\ OpensNoPageTwice
  /\ ErrorsLoseNothing
  /\ ListedJobsAreReturned

LEMMA InitWalkInv == WalkInit => WalkInv
  BY DEF WalkInit, WalkInv, Shape, OnlyAtTheEnd, Accounted, Expected,
         OpensNoPageTwice, ErrorsLoseNothing, ListedJobsAreReturned

LEMMA WalkInvStep == WalkInv /\ [WalkNext]_walkVars => WalkInv'
<1> SUFFICES ASSUME WalkInv, [WalkNext]_walkVars PROVE WalkInv'
  OBVIOUS
<1> USE DEF WalkInv, Shape, OnlyAtTheEnd, Accounted, Expected,
            OpensNoPageTwice, ErrorsLoseNothing, ListedJobsAreReturned,
            At, Return, ReturnError, Finds, TaskRuns
<1>1. CASE Open
  BY <1>1 DEF Open
<1>2. CASE EndOfPages
  BY <1>2 DEF EndOfPages, LeaveLoop
<1>3. CASE GoOn
  BY <1>3 DEF GoOn
<1>4. CASE PauseIsCut
  BY <1>4 DEF PauseIsCut
<1>5. CASE FetchPage
  BY <1>5 DEF FetchPage
<1>6. CASE FetchLimited
  BY <1>6 DEF FetchLimited
<1>7. CASE FetchFails
  BY <1>7 DEF FetchFails, LeaveLoop
<1>8. CASE NextItem
  BY <1>8 DEF NextItem
<1>9. CASE EndOfItems
  BY <1>9 DEF EndOfItems
<1>10. CASE FetchHTML
  BY <1>10 DEF FetchHTML
<1>11. CASE FetchHTMLFails
  BY <1>11 DEF FetchHTMLFails
<1>12. CASE FetchAnchors \/ SubmitAnchors \/ SubmitDetails
  BY <1>12 DEF FetchAnchors, SubmitAnchors, SubmitDetails
<1>13. CASE NoAnchors
  BY <1>13 DEF NoAnchors, LeaveLoop
<1>14. CASE FetchAnchorsFails
  BY <1>14 DEF FetchAnchorsFails
<1>15. CASE AppendPage
  BY <1>15 DEF AppendPage
<1>16. CASE DetailsEnd
  BY <1>16 DEF DetailsEnd
<1>17. ASSUME NEW i \in Items, SkipItem(i) PROVE WalkInv'
  BY <1>17 DEF SkipItem
<1>18. ASSUME NEW i \in Items, KeepItem(i) PROVE WalkInv'
  BY <1>18 DEF KeepItem
<1>19. ASSUME NEW i \in Items, LeaveOut(i) PROVE WalkInv'
  BY <1>19 DEF LeaveOut
<1>20. ASSUME NEW i \in Items, ReadDetails(i) PROVE WalkInv'
  BY <1>20 DEF ReadDetails
<1>21. ASSUME NEW i \in Items, ReadDetailsFails(i) PROVE WalkInv'
  BY <1>21 DEF ReadDetailsFails
<1>22. CASE WaitForAnchors
  BY <1>22 DEF WaitForAnchors
<1>23. CASE Deadline
  BY <1>23 DEF Deadline
<1>24. CASE UNCHANGED walkVars
  BY <1>24 DEF walkVars
<1> QED
  BY <1>1, <1>2, <1>3, <1>4, <1>5, <1>6, <1>7, <1>8, <1>9, <1>10, <1>11,
     <1>12, <1>13, <1>14, <1>15, <1>16, <1>17, <1>18, <1>19, <1>20, <1>21,
     <1>22, <1>23, <1>24 DEF WalkNext, OwnStep, PoolStep

LEMMA AlwaysWalkInv == WalkSpec => []WalkInv
  BY InitWalkInv, WalkInvStep, PTL DEF WalkSpec

(* The seen pages keep Telfed from circles (telfed.go:64).                 *)
THEOREM NoCircles == WalkSpec => []OpensNoPageTwice
<1>1. WalkInv => OpensNoPageTwice
  BY DEF WalkInv
<1> QED
  BY <1>1, AlwaysWalkInv, PTL

(* A page that cannot be read costs only the pages behind it (telfed.go:83,*)
(* secret_telaviv.go:114).                                                 *)
THEOREM BestEffort == WalkSpec => []ErrorsLoseNothing
<1>1. WalkInv => ErrorsLoseNothing
  BY DEF WalkInv
<1> QED
  BY <1>1, AlwaysWalkInv, PTL

(* What a page lists is returned, unless there is a reason to leave it out.*)
THEOREM NothingIsForgotten == WalkSpec => []ListedJobsAreReturned
<1>1. WalkInv => ListedJobsAreReturned
  BY DEF WalkInv
<1> QED
  BY <1>1, AlwaysWalkInv, PTL

(* The places of a walk belong to one of the two boards, and a result is   *)
(* set with the last step.                                                 *)
WalkTypeInv ==
  /\ WalkTypeOK
  /\ board \in {"sta", "telfed"} /\ site \in [Pages -> SUBSET Pages]
  /\ walk.pc \in {"items", "itemPause"} => board = "sta"
  /\ walk.pc \in {"anchors", "submitAnchors", "waitAnchors", "append", "submitDetails", "details"} =>
       board = "telfed"
  /\ walk.pc \in {"fetch", "items", "itemPause", "anchors", "submitAnchors", "waitAnchors", "append"} =>
       walk.page \in Pages
  /\ walk.pc # "done" => result = [jobs |-> {}, failed |-> FALSE]

LEMMA InitWalkTypes == WalkInit => WalkTypeInv
<1> SUFFICES ASSUME WalkInit PROVE WalkTypeInv
  OBVIOUS
<1>1. /\ walk \in [pc : {"loop"}, page : Pages \union {NoPage}, next : Pages \union {NoPage},
                  todo : SUBSET Items, found : SUBSET Items, all : SUBSET Items]
      /\ walk.pc = "loop"
  BY DEF WalkInit
<1>2. result = [jobs |-> {}, failed |-> FALSE] /\ cut = FALSE /\ listed = {} /\ missed = {}
  BY DEF WalkInit
<1>3. opened \in [Pages -> 0 .. 2] /\ site \in [Pages -> SUBSET Pages]
  BY PageWalkAssumption DEF PageWalkAssumption, WalkInit
<1>4. board \in {"sta", "telfed"}
  BY DEF WalkInit
<1>5. WalkTypeOK
  BY <1>1, <1>2, <1>3 DEF WalkTypeOK
<1> QED
  BY <1>1, <1>2, <1>3, <1>4, <1>5 DEF WalkTypeInv

LEMMA FollowingIsAPage ==
  ASSUME WalkTypeInv, walk.page \in Pages
  PROVE  Next1(walk.page) \subseteq Pages \union {NoPage}
  BY DEF WalkTypeInv, Next1

LEMMA ReturningKeepsTypes ==
  ASSUME WalkTypeInv, walk.pc # "done",
         ReturnError \/ Return(walk.all) \/ Return(walk.found),
         UNCHANGED <<board, site, cut, opened, listed, missed>>
  PROVE  WalkTypeInv'
<1>1. walk' = [walk EXCEPT !.pc = "done"]
  BY DEF Return, ReturnError
<1>2. /\ result' \in [jobs : SUBSET Items, failed : BOOLEAN]
      /\ result'.failed => result'.jobs = {}
  <2>0. /\ result = [jobs |-> {}, failed |-> FALSE]
        /\ walk.all \subseteq Items /\ walk.found \subseteq Items
    BY DEF WalkTypeInv, WalkTypeOK
  <2>1. CASE ReturnError
    <3>1. result' = [result EXCEPT !.failed = TRUE]
      BY <2>1 DEF ReturnError
    <3>2. result' = [jobs |-> {}, failed |-> TRUE]
      BY <2>0, <3>1
    <3> QED
      BY <3>2
  <2>2. CASE Return(walk.all)
    <3>1. result' = [jobs |-> walk.all, failed |-> FALSE]
      BY <2>0, <2>2 DEF Return
    <3> QED
      BY <2>0, <3>1
  <2>3. CASE Return(walk.found)
    <3>1. result' = [jobs |-> walk.found, failed |-> FALSE]
      BY <2>0, <2>3 DEF Return
    <3> QED
      BY <2>0, <3>1
  <2> QED
    BY <2>1, <2>2, <2>3
<1> QED
  BY <1>1, <1>2 DEF WalkTypeInv, WalkTypeOK

LEMMA LeavingKeepsTypes ==
  ASSUME WalkTypeInv, walk.pc # "done", LeaveLoop,
         UNCHANGED <<board, site, cut, opened, listed, missed>>
  PROVE  WalkTypeInv'
<1>1. CASE Return(walk.all)
  BY <1>1, ReturningKeepsTypes
<1>2. CASE /\ board = "telfed"
           /\ walk' = [walk EXCEPT !.pc = "submitDetails", !.todo = walk.all, !.found = {}]
           /\ UNCHANGED result
  BY <1>2 DEF WalkTypeInv, WalkTypeOK
<1> QED
  BY <1>1, <1>2 DEF LeaveLoop

LEMMA WalkTypesStep == WalkTypeInv /\ [WalkNext]_walkVars => WalkTypeInv'
<1> SUFFICES ASSUME WalkTypeInv, [WalkNext]_walkVars PROVE WalkTypeInv'
  OBVIOUS
<1> USE PageWalkAssumption
    DEF PageWalkAssumption, WalkTypeInv, WalkTypeOK, At, Finds, TaskRuns
<1>1. CASE Open
  <2>1. opened' \in [Pages -> 0 .. 2]
    BY <1>1 DEF Open
  <2> QED
    BY <1>1, <2>1 DEF Open
<1>2. CASE EndOfPages
  BY <1>2, LeavingKeepsTypes DEF EndOfPages
<1>3. CASE GoOn
  BY <1>3 DEF GoOn
<1>4. CASE PauseIsCut
  BY <1>4, ReturningKeepsTypes DEF PauseIsCut
<1>5. CASE FetchPage
  BY <1>5 DEF FetchPage
<1>6. CASE FetchLimited
  BY <1>6, ReturningKeepsTypes DEF FetchLimited
<1>7. CASE FetchFails
  BY <1>7, LeavingKeepsTypes DEF FetchFails
<1>8. CASE NextItem
  BY <1>8 DEF NextItem
<1>9. CASE EndOfItems
  <2>1. PICK p \in Next1(walk.page) :
          walk' = [walk EXCEPT !.pc = "pause", !.next = p, !.all = @ \union walk.found]
    BY <1>9 DEF EndOfItems
  <2>2. p \in Pages \union {NoPage}
    BY <1>9, FollowingIsAPage DEF EndOfItems
  <2> QED
    BY <1>9, <2>1, <2>2 DEF EndOfItems
<1>10. CASE FetchHTML
  <2>1. PICK js \in {{}, ListOf[walk.page]}, p \in Next1(walk.page) \union {NoPage} :
          /\ walk' = [walk EXCEPT !.found = js, !.next = p,
                        !.pc = IF js = {} THEN "anchors" ELSE "append"]
          /\ Finds(js)
    BY <1>10 DEF FetchHTML
  <2>2. p \in Pages \union {NoPage} /\ js \subseteq Items
    BY <1>10, FollowingIsAPage DEF FetchHTML
  <2> QED
    BY <1>10, <2>1, <2>2 DEF FetchHTML
<1>11. CASE FetchHTMLFails
  BY <1>11 DEF FetchHTMLFails
<1>12. CASE FetchAnchors \/ SubmitAnchors \/ SubmitDetails
  BY <1>12 DEF FetchAnchors, SubmitAnchors, SubmitDetails
<1>13. CASE NoAnchors
  BY <1>13, LeavingKeepsTypes DEF NoAnchors
<1>14. CASE FetchAnchorsFails
  BY <1>14, ReturningKeepsTypes DEF FetchAnchorsFails
<1>15. CASE AppendPage
  <2>1. PICK p \in IF walk.next # NoPage THEN {walk.next}
                     ELSE (site[walk.page] \ {walk.page}) \union {NoPage} :
          walk' = [walk EXCEPT !.pc = "pause", !.next = p, !.all = @ \union walk.found]
    BY <1>15 DEF AppendPage
  <2>2. p \in Pages \union {NoPage}
    BY <1>15 DEF AppendPage
  <2> QED
    BY <1>15, <2>1, <2>2 DEF AppendPage
<1>16. CASE DetailsEnd
  BY <1>16, ReturningKeepsTypes DEF DetailsEnd
<1>17. ASSUME NEW i \in Items, SkipItem(i) PROVE WalkTypeInv'
  BY <1>17 DEF SkipItem
<1>18. ASSUME NEW i \in Items, KeepItem(i) PROVE WalkTypeInv'
  BY <1>18 DEF KeepItem
<1>19. ASSUME NEW i \in Items, LeaveOut(i) PROVE WalkTypeInv'
  BY <1>19 DEF LeaveOut
<1>20. ASSUME NEW i \in Items, ReadDetails(i) PROVE WalkTypeInv'
  BY <1>20 DEF ReadDetails
<1>21. ASSUME NEW i \in Items, ReadDetailsFails(i) PROVE WalkTypeInv'
  BY <1>21 DEF ReadDetailsFails
<1>22. CASE WaitForAnchors
  <2>1. PICK js \in SUBSET ListOf[walk.page], p \in Next1(walk.page) \union {NoPage} :
          /\ walk' = [walk EXCEPT !.found = js, !.pc = "append",
                        !.next = IF @ = NoPage THEN p ELSE @]
          /\ Finds(js)
    BY <1>22 DEF WaitForAnchors
  <2>2. p \in Pages \union {NoPage} /\ js \subseteq Items
    BY <1>22, FollowingIsAPage DEF WaitForAnchors
  <2> QED
    BY <1>22, <2>1, <2>2 DEF WaitForAnchors
<1>23. CASE Deadline
  BY <1>23 DEF Deadline
<1>24. CASE UNCHANGED walkVars
  BY <1>24 DEF walkVars
<1> QED
  BY <1>1, <1>2, <1>3, <1>4, <1>5, <1>6, <1>7, <1>8, <1>9, <1>10, <1>11,
     <1>12, <1>13, <1>14, <1>15, <1>16, <1>17, <1>18, <1>19, <1>20, <1>21,
     <1>22, <1>23, <1>24 DEF WalkNext, OwnStep, PoolStep

LEMMA AlwaysWalkTypes == WalkSpec => []WalkTypeInv
  BY InitWalkTypes, WalkTypesStep, PTL DEF WalkSpec

(* The locals of a walk keep their types, and FindJobs gives no listing    *)
(* beside an error.                                                        *)
THEOREM WalkTypesAreKept == WalkSpec => []WalkTypeOK
<1>1. WalkTypeInv => WalkTypeOK
  BY DEF WalkTypeInv
<1> QED
  BY <1>1, AlwaysWalkTypes, PTL

(* What a walk has collected is finite since every page's list is.         *)
WalkIsFinite ==
  IsFiniteSet(walk.todo) /\ IsFiniteSet(walk.found) /\ IsFiniteSet(walk.all)

WalkIsFiniteInv == WalkTypeInv /\ WalkIsFinite

(* What the steps of a walk do to its place and to what it has collected.  *)
GoesTo(from, to, todo, found, all) ==
  /\ walk.pc \in from /\ walk'.pc = to
  /\ walk'.todo = todo /\ walk'.found = found /\ walk'.all = all

InDetails(todo, found) ==
  /\ walk.pc \in {"submitDetails", "details"} /\ walk'.pc = walk.pc
  /\ walk'.todo = todo /\ walk'.found = found /\ walk'.all = walk.all

WalkMoves ==
  \/ walk' = walk
  \/ walk.pc # "done" /\ GoesTo({walk.pc}, "done", walk.todo, walk.found, walk.all)
  \/ GoesTo({"loop"}, "fetch", walk.todo, {}, walk.all)
  \/ GoesTo({"loop", "fetch", "anchors"}, "submitDetails", walk.all, {}, walk.all)
  \/ \E to \in {<<"anchors", "submitAnchors">>, <<"submitAnchors", "waitAnchors">>,
              <<"submitDetails", "details">>} :
       GoesTo({to[1]}, to[2], walk.todo, walk.found, walk.all)
  \/ GoesTo({"fetch"}, "anchors", walk.todo, walk.found, walk.all)
  \/ \E js \in SUBSET ListOf[walk.page] : GoesTo({"waitAnchors"}, "append", walk.todo, js, walk.all)
  \/ GoesTo({"items", "append"}, "pause", walk.todo, walk.found, walk.all \union walk.found)
  \/ \E i \in walk.todo :
       \/ GoesTo({"items"}, "itemPause", walk.todo \ {i}, walk.found \union {i}, walk.all)
       \/ InDetails(walk.todo \ {i}, walk.found)
       \/ InDetails(walk.todo \ {i}, walk.found \union {i})
  \/ /\ ~cut
     /\ \/ GoesTo({"pause"}, "loop", walk.todo, walk.found, walk.all)
        \/ GoesTo({"itemPause"}, "items", walk.todo, walk.found, walk.all)
        \/ GoesTo({"fetch"}, "items", ListOf[walk.page], walk.found, walk.all)
        \/ \E js \in SUBSET ListOf[walk.page], to \in {"anchors", "append"} :
             GoesTo({"fetch"}, to, walk.todo, js, walk.all)
        \/ \E i \in walk.todo : GoesTo({"items"}, "items", walk.todo \ {i}, walk.found, walk.all)

LEMMA AWalkMoves == WalkTypeInv /\ [WalkNext]_walkVars => WalkMoves
<1> SUFFICES ASSUME WalkTypeInv, [WalkNext]_walkVars PROVE WalkMoves
  OBVIOUS
<1>0. walk \in [pc : {"loop", "fetch", "pause", "items", "itemPause",
                     "anchors", "submitAnchors", "waitAnchors", "append",
                     "submitDetails", "details", "done"},
                page : Pages \union {NoPage}, next : Pages \union {NoPage},
                todo : SUBSET Items, found : SUBSET Items, all : SUBSET Items]
  BY DEF WalkTypeInv, WalkTypeOK
<1>1. ASSUME walk.pc # "done", walk' = [walk EXCEPT !.pc = "done"] PROVE WalkMoves
  <2>1. GoesTo({walk.pc}, "done", walk.todo, walk.found, walk.all)
    BY <1>0, <1>1 DEF GoesTo
  <2> QED
    BY <1>1, <2>1 DEF WalkMoves
<1>2. ASSUME walk.pc \in {"loop", "fetch", "anchors"}, LeaveLoop PROVE WalkMoves
  <2>1. CASE walk' = [walk EXCEPT !.pc = "submitDetails", !.todo = walk.all, !.found = {}]
    <3>1. GoesTo({"loop", "fetch", "anchors"}, "submitDetails", walk.all, {}, walk.all)
      BY <1>0, <1>2, <2>1 DEF GoesTo
    <3> QED
      BY <3>1 DEF WalkMoves
  <2> QED
    BY <1>1, <1>2, <2>1 DEF LeaveLoop, Return
<1>3. CASE Open
  <2>1. GoesTo({"loop"}, "fetch", walk.todo, {}, walk.all)
    BY <1>0, <1>3 DEF Open, GoesTo
  <2> QED
    BY <2>1 DEF WalkMoves
<1>4. CASE EndOfPages \/ FetchFails \/ NoAnchors
  BY <1>2, <1>4 DEF EndOfPages, FetchFails, NoAnchors, At
<1>5. CASE PauseIsCut \/ FetchLimited \/ FetchAnchorsFails \/ DetailsEnd
  BY <1>1, <1>5 DEF PauseIsCut, FetchLimited, FetchAnchorsFails, DetailsEnd, At, Return, ReturnError
<1>6. CASE GoOn
  <2>1. ~cut /\ GoesTo({"pause"}, "loop", walk.todo, walk.found, walk.all)
    BY <1>0, <1>6 DEF GoOn, GoesTo
  <2> QED
    BY <2>1 DEF WalkMoves
<1>7. CASE FetchPage
  <2>1. ~cut /\ GoesTo({"fetch"}, "items", ListOf[walk.page], walk.found, walk.all)
    BY <1>0, <1>7 DEF FetchPage, At, GoesTo
  <2> QED
    BY <2>1 DEF WalkMoves
<1>8. CASE NextItem
  <2>1. ~cut /\ GoesTo({"itemPause"}, "items", walk.todo, walk.found, walk.all)
    BY <1>0, <1>8 DEF NextItem, GoesTo
  <2> QED
    BY <2>1 DEF WalkMoves
<1>9. CASE EndOfItems \/ AppendPage
  <2>1. GoesTo({"items", "append"}, "pause", walk.todo, walk.found, walk.all \union walk.found)
    BY <1>0, <1>9 DEF EndOfItems, AppendPage, At, GoesTo
  <2> QED
    BY <2>1 DEF WalkMoves
<1>10. CASE FetchHTML
  <2>1. PICK js \in {{}, ListOf[walk.page]}, p \in Next1(walk.page) \union {NoPage} :
          walk' = [walk EXCEPT !.found = js, !.next = p,
                     !.pc = IF js = {} THEN "anchors" ELSE "append"]
    BY <1>10 DEF FetchHTML
  <2>2. PICK to \in {"anchors", "append"} :
          walk' = [walk EXCEPT !.found = js, !.next = p, !.pc = to]
    BY <2>1
  <2>3. ~cut /\ GoesTo({"fetch"}, to, walk.todo, js, walk.all)
    BY <1>0, <1>10, <2>2 DEF FetchHTML, At, GoesTo
  <2> QED
    BY <2>3 DEF WalkMoves
<1>11. CASE FetchHTMLFails
  <2>1. GoesTo({"fetch"}, "anchors", walk.todo, walk.found, walk.all)
    BY <1>0, <1>11 DEF FetchHTMLFails, At, GoesTo
  <2> QED
    BY <2>1 DEF WalkMoves
<1>12. CASE FetchAnchors \/ SubmitAnchors \/ SubmitDetails
  <2>1. PICK to \in {<<"anchors", "submitAnchors">>, <<"submitAnchors", "waitAnchors">>,
                    <<"submitDetails", "details">>} :
          GoesTo({to[1]}, to[2], walk.todo, walk.found, walk.all)
    <3>1. CASE FetchAnchors
      BY <1>0, <3>1 DEF FetchAnchors, At, GoesTo
    <3>2. CASE SubmitAnchors
      BY <1>0, <3>2 DEF SubmitAnchors, At, GoesTo
    <3>3. CASE SubmitDetails
      BY <1>0, <3>3 DEF SubmitDetails, At, GoesTo
    <3> QED
      BY <1>12, <3>1, <3>2, <3>3
  <2> QED
    BY <2>1 DEF WalkMoves
<1>13. ASSUME NEW i \in Items, SkipItem(i) PROVE WalkMoves
  <2>1. ~cut /\ i \in walk.todo /\ GoesTo({"items"}, "items", walk.todo \ {i}, walk.found, walk.all)
    BY <1>0, <1>13 DEF SkipItem, At, GoesTo
  <2> QED
    BY <2>1 DEF WalkMoves
<1>14. ASSUME NEW i \in Items, KeepItem(i) PROVE WalkMoves
  <2>1. /\ i \in walk.todo
        /\ GoesTo({"items"}, "itemPause", walk.todo \ {i}, walk.found \union {i}, walk.all)
    BY <1>0, <1>14 DEF KeepItem, At, GoesTo
  <2> QED
    BY <2>1 DEF WalkMoves
<1>15. ASSUME NEW i \in Items, LeaveOut(i) \/ ReadDetailsFails(i) PROVE WalkMoves
  <2>1. i \in walk.todo /\ InDetails(walk.todo \ {i}, walk.found)
    BY <1>0, <1>15 DEF LeaveOut, ReadDetailsFails, TaskRuns, InDetails
  <2> QED
    BY <2>1 DEF WalkMoves
<1>16. ASSUME NEW i \in Items, ReadDetails(i) PROVE WalkMoves
  <2>1. i \in walk.todo /\ InDetails(walk.todo \ {i}, walk.found \union {i})
    BY <1>0, <1>16 DEF ReadDetails, TaskRuns, InDetails
  <2> QED
    BY <2>1 DEF WalkMoves
<1>17. CASE WaitForAnchors
  <2>1. PICK js \in SUBSET ListOf[walk.page], p \in Next1(walk.page) \union {NoPage} :
          walk' = [walk EXCEPT !.found = js, !.pc = "append",
                     !.next = IF @ = NoPage THEN p ELSE @]
    BY <1>17 DEF WaitForAnchors
  <2>2. GoesTo({"waitAnchors"}, "append", walk.todo, js, walk.all)
    BY <1>0, <1>17, <2>1 DEF WaitForAnchors, At, GoesTo
  <2> QED
    BY <2>2 DEF WalkMoves
<1>18. CASE Deadline \/ UNCHANGED walkVars
  BY <1>18 DEF Deadline, walkVars, WalkMoves
<1> QED
  BY <1>3, <1>4, <1>5, <1>6, <1>7, <1>8, <1>9, <1>10, <1>11, <1>12, <1>13, <1>14,
     <1>15, <1>16, <1>17, <1>18 DEF WalkNext, OwnStep, PoolStep

LEMMA WalkIsFiniteStep == WalkIsFiniteInv /\ [WalkNext]_walkVars => WalkIsFiniteInv'
<1> SUFFICES ASSUME WalkIsFiniteInv, [WalkNext]_walkVars PROVE WalkIsFiniteInv'
  OBVIOUS
<1>0. WalkTypeInv' /\ WalkTypeInv /\ WalkIsFinite /\ WalkMoves
  BY WalkTypesStep, AWalkMoves DEF WalkIsFiniteInv
<1>1. ASSUME walk.page \in Pages
      PROVE  IsFiniteSet(ListOf[walk.page]) /\ \A js \in SUBSET ListOf[walk.page] : IsFiniteSet(js)
  BY <1>1, PageWalkAssumption, FS_Subset DEF PageWalkAssumption
<1>2. /\ IsFiniteSet({}) /\ IsFiniteSet(walk.all \union walk.found)
      /\ \A i : IsFiniteSet(walk.todo \ {i}) /\ IsFiniteSet(walk.found \union {i})
  BY <1>0, FS_EmptySet, FS_Union, FS_AddElement, FS_RemoveElement DEF WalkIsFinite
<1>3. walk.pc \in {"fetch", "waitAnchors"} => walk.page \in Pages
  BY <1>0 DEF WalkTypeInv
<1>4. WalkIsFinite'
  BY <1>0, <1>1, <1>2, <1>3 DEF WalkIsFinite, WalkMoves, GoesTo, InDetails
<1> QED
  BY <1>0, <1>4 DEF WalkIsFiniteInv

(* What a walk has before it at most once its deadline has passed: the     *)
(* rest of the page it is at, and a task for every job it has collected.   *)
CutLeft ==
  CASE walk.pc = "loop"    -> Cardinality(walk.all) + 8
    [] walk.pc = "fetch"   -> Cardinality(walk.all) + 7
    [] walk.pc = "anchors" -> Cardinality(walk.all) + 6
    [] walk.pc = "submitAnchors" -> 5
    [] walk.pc = "waitAnchors"   -> 4
    [] walk.pc = "append"  -> 3
    [] walk.pc = "items"   -> 3
    [] walk.pc = "pause"     -> 2
    [] walk.pc = "itemPause" -> 2
    [] walk.pc = "submitDetails" -> Cardinality(walk.todo) + 2
    [] walk.pc = "details" -> Cardinality(walk.todo) + 1
    [] OTHER -> 0

ComesToAnEnd == cut => CutLeft \in Nat /\ (walk' = walk \/ CutLeft' < CutLeft)

(* Once the deadline has passed, every step of a walk and of its tasks     *)
(* lowers a natural, so that there are boundedly many of them, also on a   *)
(* site that links in circles or without end: a walk past its deadline may *)
(* hang (in Submit), but it never goes on and on.                          *)
THEOREM ACutWalkIsFinite == WalkSpec => [][ComesToAnEnd]_walkVars
<1>1. WalkInit => WalkIsFiniteInv
  <2>1. WalkInit => walk.todo = {} /\ walk.found = {} /\ walk.all = {}
    BY DEF WalkInit
  <2> QED
    BY <2>1, InitWalkTypes, FS_EmptySet DEF WalkIsFiniteInv, WalkIsFinite
<1>2. ASSUME WalkIsFiniteInv, [WalkNext]_walkVars, cut
      PROVE  CutLeft \in Nat /\ (walk' = walk \/ CutLeft' < CutLeft)
  <2>0. WalkTypeInv /\ WalkIsFinite
    BY <1>2 DEF WalkIsFiniteInv
  <2>1. Cardinality(walk.all) \in Nat /\ Cardinality(walk.todo) \in Nat
    BY <2>0, FS_CardinalityType DEF WalkIsFinite
  <2>2. \A i \in walk.todo : Cardinality(walk.todo \ {i}) = Cardinality(walk.todo) - 1
    BY <2>0, FS_RemoveElement DEF WalkIsFinite
  <2>3. CutLeft \in Nat
    BY <2>1 DEF CutLeft
  <2>4. WalkMoves
    BY <1>2, <2>0, AWalkMoves
  <2>5. CASE walk.pc # "done" /\ GoesTo({walk.pc}, "done", walk.todo, walk.found, walk.all)
    <3>1. walk.pc \in {"loop", "fetch", "pause", "items", "itemPause", "anchors",
                      "submitAnchors", "waitAnchors", "append", "submitDetails", "details"}
      BY <2>0, <2>5 DEF WalkTypeInv, WalkTypeOK
    <3>2. CutLeft > 0
      BY <2>1, <3>1 DEF CutLeft
    <3>3. CutLeft' = 0
      BY <2>5 DEF CutLeft, GoesTo
    <3> QED
      BY <2>3, <3>2, <3>3
  <2>6. CASE GoesTo({"loop"}, "fetch", walk.todo, {}, walk.all)
    BY <2>1, <2>3, <2>6 DEF CutLeft, GoesTo
  <2>7. CASE GoesTo({"loop", "fetch", "anchors"}, "submitDetails", walk.all, {}, walk.all)
    BY <2>1, <2>3, <2>7 DEF CutLeft, GoesTo
  <2>13. ASSUME NEW to \in {<<"anchors", "submitAnchors">>, <<"submitAnchors", "waitAnchors">>,
                            <<"submitDetails", "details">>},
                GoesTo({to[1]}, to[2], walk.todo, walk.found, walk.all)
         PROVE  CutLeft' < CutLeft
    BY <2>1, <2>13 DEF CutLeft, GoesTo
  <2>8. CASE GoesTo({"fetch"}, "anchors", walk.todo, walk.found, walk.all)
    BY <2>1, <2>3, <2>8 DEF CutLeft, GoesTo
  <2>9. ASSUME NEW js, GoesTo({"waitAnchors"}, "append", walk.todo, js, walk.all)
        PROVE  CutLeft' < CutLeft
    BY <2>1, <2>9 DEF CutLeft, GoesTo
  <2>10. CASE GoesTo({"items", "append"}, "pause", walk.todo, walk.found, walk.all \union walk.found)
    BY <2>1, <2>3, <2>10 DEF CutLeft, GoesTo
  <2>11. ASSUME NEW i, GoesTo({"items"}, "itemPause", walk.todo \ {i}, walk.found \union {i}, walk.all)
         PROVE  CutLeft' < CutLeft
    BY <2>1, <2>11 DEF CutLeft, GoesTo
  <2>12. ASSUME NEW i \in walk.todo, NEW found,
                InDetails(walk.todo \ {i}, found)
         PROVE  CutLeft' < CutLeft
    BY <2>1, <2>2, <2>12 DEF CutLeft, InDetails
  <2> QED
    BY <1>2, <2>3, <2>4, <2>5, <2>6, <2>7, <2>8, <2>9, <2>10, <2>11, <2>12, <2>13 DEF WalkMoves
<1>3. WalkIsFiniteInv /\ [WalkNext]_walkVars => ComesToAnEnd
  BY <1>2 DEF ComesToAnEnd
<1> QED
  BY <1>1, <1>3, WalkIsFiniteStep, PTL DEF WalkSpec

-----------------------------------------------------------------------------
(* The pages of a company's site.                                          *)

Delivered ==
  \A l \in Links : page[l] \in {"pausing", "over"} => l \in results \union collected

Excused ==
  /\ groupDone => scraper = "akeyless"
  /\ \A l \in Links : /\ page[l] = "lost" => late
                      /\ page[l] = "skipped" => late \/ groupDone

(* Outside a deadline the channel is closed, and GetJobs returns, when no  *)
(* task is left.                                                           *)
EndsInOrder ==
  /\ reader \in {"root", "submit", "panicked"} => closing = "open"
  /\ reader = "root" => \A l \in Links : page[l] = "none"
  /\ reader = "panicked" => late
  /\ ~ByChannel => results = {} /\ closing = "open"
  /\ (closing # "open" \/ reader = "done") /\ ~late /\ ~groupDone =>
       \A l \in Links : page[l] \in Through

PagesInv ==
  /\ PagesTypeOK
  /\ Delivered
  /\ Excused
  /\ EndsInOrder
  /\ ReadPagesAreReturned

LEMMA InitPagesInv == PagesInit => PagesInv
  BY JobPagesAssumption
     DEF PagesInit, PagesInv, PagesTypeOK, Delivered, Excused, EndsInOrder,
         ReadPagesAreReturned, Wanted, Through, ByChannel

LEMMA PagesInvStep == PagesInv /\ [PagesNext]_pagesVars => PagesInv'
<1> SUFFICES ASSUME PagesInv, [PagesNext]_pagesVars PROVE PagesInv'
  OBVIOUS
<1> USE DEF PagesInv, PagesTypeOK, Delivered, Excused, EndsInOrder,
            ReadPagesAreReturned, Wanted, Through, ByChannel, PageGoes
<1>1. CASE ReadRoot
  BY <1>1 DEF ReadRoot
<1>2. CASE ReadRootFails
  BY <1>2 DEF ReadRootFails
<1>3. CASE SubmitPagePanics
  BY <1>3 DEF SubmitPagePanics
<1>4. CASE SubmittedPages
  BY <1>4 DEF SubmittedPages
<1>5. ASSUME NEW l \in Links, SubmitPage(l) PROVE PagesInv'
  BY <1>5 DEF SubmitPage, Pooled
<1>6. ASSUME NEW l \in Links, TakePage(l) PROVE PagesInv'
  BY <1>6 DEF TakePage
<1>7. ASSUME NEW l \in Links, ReadPage(l) PROVE PagesInv'
  BY <1>7 DEF ReadPage
<1>8. ASSUME NEW l \in Links, ReadPageFails(l) PROVE PagesInv'
  BY <1>8 DEF ReadPageFails
<1>9. ASSUME NEW l \in Links, Deliver(l) PROVE PagesInv'
  BY <1>9 DEF Deliver, AfterDelivery
<1>10. ASSUME NEW l \in Links, PauseEnds(l) PROVE PagesInv'
  BY <1>10 DEF PauseEnds
<1>11. ASSUME NEW l \in Links, Receive(l) PROVE PagesInv'
  BY <1>11 DEF Receive
<1>12. CASE CloseResults
  BY <1>12 DEF CloseResults, WaitReturns, Pooled
<1>13. CASE CloseDone
  BY <1>13 DEF CloseDone
<1>14. CASE ReturnJobs
  BY <1>14 DEF ReturnJobs, Collected, WaitReturns, Pooled
<1>15. CASE ContextEnds
  BY <1>15 DEF ContextEnds
<1>16. CASE UNCHANGED pagesVars
  BY <1>16 DEF pagesVars
<1> QED
  BY <1>1, <1>2, <1>3, <1>4, <1>5, <1>6, <1>7, <1>8, <1>9, <1>10, <1>11,
     <1>12, <1>13, <1>14, <1>15, <1>16 DEF PagesNext

(* No page that could be read is left out of what GetJobs returns in time, *)
(* but for the two gaps the property names: for any links and any number   *)
(* of tasks, in all four scrapers.                                         *)
THEOREM NoPageIsLeftOut == PagesSpec => []ReadPagesAreReturned
<1>1. PagesInv => ReadPagesAreReturned
  BY DEF PagesInv
<1> QED
  BY <1>1, InitPagesInv, PagesInvStep, PTL DEF PagesSpec

-----------------------------------------------------------------------------
(* Nested groups.                                                          *)

InQueue(t) == \E k \in DOMAIN queue : queue[k] = t

Tasks == Sources \X (0 .. Anchors)

GroupShape ==
  /\ DOMAIN pc = Sources /\ DOMAIN over = Sources
  /\ DOMAIN next = Sources /\ \A s \in Sources : next[s] \in Nat \ {0}
  /\ DOMAIN items = Sources /\ \A s \in Sources : items[s] \subseteq JobLinks[s]
  /\ DOMAIN returned = Sources
  /\ queue \in Seq(Tasks) /\ running \subseteq Tasks

(* The task of a source is in the queue once, and only before it begins.   *)
SourcesQueueOnce ==
  /\ \A k \in DOMAIN queue : queue[k][2] = 0 => pc[queue[k][1]] = "queued"
  /\ \A k, l \in DOMAIN queue : queue[k] = queue[l] /\ queue[k][2] = 0 => k = l
  /\ \A s \in Sources : pc[s] \in {"unsent", "queued", "browse"} => next[s] = 1

OnlyStrictErrors == \A s \in Sources : over[s] = "error" => s \in Strict

EveryLinkIsSomewhere ==
  \A s \in Sources : \A i \in JobLinks[s] :
    pc[s] \in {"submit", "wait", "read", "done"} /\ over[s] = "no" =>
      \/ i \in items[s] \/ <<s, i>> \in running \/ InQueue(<<s, i>>)
      \/ pc[s] = "submit" /\ next[s] <= i

ReadIsFinal ==
  \A s \in Sources :
    pc[s] \in {"read", "done"} /\ over[s] = "no" =>
      \A i \in 1 .. Anchors : <<s, i>> \notin running /\ ~InQueue(<<s, i>>)

GroupsInv ==
  /\ GroupShape
  /\ SourcesQueueOnce
  /\ OnlyStrictErrors
  /\ EveryLinkIsSomewhere
  /\ ReadIsFinal
  /\ ReturnsEveryJobLink

LEMMA InAppended ==
  ASSUME NEW E, NEW q \in Seq(E), NEW e \in E, NEW k
  PROVE  /\ Append(q, e) \in Seq(E)
         /\ k \in DOMAIN Append(q, e) <=> k \in DOMAIN q \/ k = Len(q) + 1
         /\ k \in DOMAIN q => Append(q, e)[k] = q[k]
         /\ Append(q, e)[Len(q) + 1] = e
  OBVIOUS

LEMMA InTail ==
  ASSUME NEW E, NEW q \in Seq(E), q # <<>>
  PROVE  /\ Tail(q) \in Seq(E) /\ Head(q) = q[1] /\ 1 \in DOMAIN q
         /\ \A k \in DOMAIN Tail(q) : k + 1 \in DOMAIN q /\ Tail(q)[k] = q[k + 1] /\ k \in Nat
         /\ \A k \in DOMAIN q : k \in Nat /\ (k # 1 => k - 1 \in DOMAIN Tail(q))
  OBVIOUS

(* What the two operations on the queue mean for the tasks in it.          *)
LEMMA Enqueued ==
  ASSUME GroupShape, NEW t \in Tasks, queue' = Append(queue, t)
  PROVE  /\ queue' \in Seq(Tasks)
         /\ \A u : InQueue(u)' <=> InQueue(u) \/ u = t
         /\ \A k \in DOMAIN queue' : \/ k \in DOMAIN queue /\ queue'[k] = queue[k]
                                     \/ k = Len(queue) + 1 /\ queue'[k] = t
<1>1. queue \in Seq(Tasks)
  BY DEF GroupShape
<1>2. /\ queue' \in Seq(Tasks)
      /\ \A k : k \in DOMAIN queue' <=> k \in DOMAIN queue \/ k = Len(queue) + 1
      /\ \A k \in DOMAIN queue : queue'[k] = queue[k]
      /\ queue'[Len(queue) + 1] = t
  BY <1>1, InAppended
<1> QED
  BY <1>2 DEF InQueue

LEMMA Dequeued ==
  ASSUME GroupShape, queue # <<>>, queue' = Tail(queue)
  PROVE  /\ queue' \in Seq(Tasks) /\ Head(queue) \in Tasks /\ InQueue(Head(queue))
         /\ \A u : InQueue(u)' => InQueue(u)
         /\ \A u : InQueue(u) => u = Head(queue) \/ InQueue(u)'
         /\ Head(queue) = queue[1] /\ 1 \in DOMAIN queue
         /\ \A k \in DOMAIN queue' : k + 1 \in DOMAIN queue /\ queue'[k] = queue[k + 1] /\ k \in Nat
<1>1. queue \in Seq(Tasks)
  BY DEF GroupShape
<1>2. /\ queue' \in Seq(Tasks) /\ Head(queue) = queue[1] /\ 1 \in DOMAIN queue
      /\ \A k \in DOMAIN queue' : k + 1 \in DOMAIN queue /\ queue'[k] = queue[k + 1] /\ k \in Nat
      /\ \A k \in DOMAIN queue : k \in Nat /\ (k # 1 => k - 1 \in DOMAIN queue')
  BY <1>1, InTail
<1>3. Head(queue) \in Tasks
  BY <1>1, <1>2
<1>4. ASSUME NEW u, InQueue(u), u # Head(queue) PROVE InQueue(u)'
  <2>1. PICK k \in DOMAIN queue : queue[k] = u
    BY <1>4 DEF InQueue
  <2>2. k - 1 \in DOMAIN queue' /\ k \in Nat
    BY <1>2, <1>4, <2>1
  <2>3. queue'[k - 1] = queue[(k - 1) + 1]
    BY <1>2, <2>2
  <2> QED
    BY <2>1, <2>2, <2>3 DEF InQueue
<1> QED
  BY <1>2, <1>3, <1>4 DEF InQueue

LEMMA InitGroupsInv == GroupsInit => GroupsInv
  BY TaskGroupsAssumption
     DEF GroupsInit, GroupsInv, GroupShape, SourcesQueueOnce, OnlyStrictErrors,
         EveryLinkIsSomewhere, ReadIsFinal, ReturnsEveryJobLink, InQueue, Tasks

LEMMA TakeKeepsGroupsInv == GroupsInv /\ Take => GroupsInv'
<1> SUFFICES ASSUME GroupsInv, Take PROVE GroupsInv'
  OBVIOUS
<1> DEFINE t == Head(queue)
<1>1. /\ queue # <<>> /\ queue' = Tail(queue)
      /\ running' = IF Skipped(t) THEN running ELSE running \union {t}
      /\ pc' = IF t[2] = 0 THEN [pc EXCEPT ![t[1]] = "browse"] ELSE pc
      /\ UNCHANGED <<next, over, items, returned>>
  BY DEF Take
<1>2. /\ queue' \in Seq(Tasks) /\ t \in Tasks /\ InQueue(t)
      /\ \A u : InQueue(u)' => InQueue(u)
      /\ \A u : InQueue(u) => u = t \/ InQueue(u)'
      /\ t = queue[1] /\ 1 \in DOMAIN queue
      /\ \A k \in DOMAIN queue' : k + 1 \in DOMAIN queue /\ queue'[k] = queue[k + 1] /\ k \in Nat
  BY <1>1, Dequeued DEF GroupsInv
<1> HIDE DEF t
<1>3. t[1] \in Sources /\ t[2] \in 0 .. Anchors /\ t = <<t[1], t[2]>>
  BY <1>2 DEF Tasks
<1>4. t[2] = 0 => pc[t[1]] = "queued" /\ next[t[1]] = 1
  BY <1>2, <1>3 DEF GroupsInv, SourcesQueueOnce
<1>5. GroupShape'
  BY <1>1, <1>2, <1>3 DEF GroupsInv, GroupShape
<1>6. SourcesQueueOnce'
  <2>1. ASSUME NEW k \in DOMAIN queue', queue'[k][2] = 0
        PROVE pc'[queue'[k][1]] = "queued"
    <3>1. queue[k + 1][2] = 0 /\ pc[queue[k + 1][1]] = "queued"
      BY <1>2, <2>1 DEF GroupsInv, SourcesQueueOnce
    <3>2. queue[k + 1] = <<queue[k + 1][1], queue[k + 1][2]>>
      <4>1. queue[k + 1] \in Tasks
        BY <1>2 DEF GroupsInv, GroupShape
      <4> QED
        BY <4>1 DEF Tasks
    <3>3. t[2] = 0 => queue[k + 1][1] # t[1]
      <4> SUFFICES ASSUME t[2] = 0, queue[k + 1][1] = t[1] PROVE FALSE
        OBVIOUS
      <4>1. queue[k + 1] = queue[1]
        BY <1>2, <1>3, <3>1, <3>2
      <4>2. k + 1 = 1
        BY <1>2, <4>1 DEF GroupsInv, SourcesQueueOnce
      <4>3. k \in DOMAIN queue' /\ k # 0
        BY <1>2
      <4> QED
        BY <1>2, <4>2, <4>3
    <3> QED
      BY <1>1, <1>2, <3>1, <3>2, <3>3 DEF GroupsInv, GroupShape, Tasks
  <2>2. ASSUME NEW k \in DOMAIN queue', NEW l \in DOMAIN queue',
               queue'[k] = queue'[l], queue'[k][2] = 0
        PROVE k = l
    <3>1. queue[k + 1] = queue[l + 1] /\ queue[k + 1][2] = 0
      BY <1>2, <2>2
    <3>2. k + 1 = l + 1
      BY <1>2, <3>1 DEF GroupsInv, SourcesQueueOnce
    <3> QED
      BY <1>2, <3>2
  <2>3. ASSUME NEW s \in Sources, pc'[s] \in {"unsent", "queued", "browse"}
        PROVE next'[s] = 1
    BY <1>1, <1>3, <1>4, <2>3 DEF GroupsInv, GroupShape, SourcesQueueOnce
  <2> QED
    BY <2>1, <2>2, <2>3 DEF SourcesQueueOnce
<1>7. OnlyStrictErrors'
  BY <1>1 DEF GroupsInv, OnlyStrictErrors
<1>8. EveryLinkIsSomewhere'
  <2> SUFFICES ASSUME NEW s \in Sources, NEW i \in JobLinks[s],
                      pc'[s] \in {"submit", "wait", "read", "done"}, over[s] = "no"
               PROVE \/ i \in items[s] \/ <<s, i>> \in running' \/ InQueue(<<s, i>>)'
                     \/ pc'[s] = "submit" /\ next[s] <= i
    BY <1>1 DEF EveryLinkIsSomewhere
  <2>1. pc'[s] = pc[s]
    BY <1>1, <1>3 DEF GroupsInv, GroupShape
  <2>2. <<s, i>> = t => <<s, i>> \in running'
    BY <1>1 DEF Skipped
  <2> QED
    BY <1>1, <1>2, <2>1, <2>2 DEF GroupsInv, EveryLinkIsSomewhere
<1>9. ReadIsFinal'
  BY <1>1, <1>2, <1>3 DEF GroupsInv, GroupShape, ReadIsFinal
<1>10. ReturnsEveryJobLink'
  BY <1>1, <1>3 DEF GroupsInv, GroupShape, ReturnsEveryJobLink
<1> QED
  BY <1>5, <1>6, <1>7, <1>8, <1>9, <1>10 DEF GroupsInv

LEMMA SendKeepsGroupsInv ==
  ASSUME GroupsInv, NEW s \in Sources, Send(s)
  PROVE  GroupsInv'
<1>1. /\ pc[s] = "unsent" /\ pc' = [pc EXCEPT ![s] = "queued"]
      /\ queue' = Append(queue, <<s, 0>>) /\ <<s, 0>> \in Tasks
      /\ UNCHANGED <<next, over, items, returned, running>>
  BY TaskGroupsAssumption DEF Send, Submit, Tasks
<1>2. /\ queue' \in Seq(Tasks)
      /\ \A u : InQueue(u)' <=> InQueue(u) \/ u = <<s, 0>>
      /\ \A k \in DOMAIN queue' : \/ k \in DOMAIN queue /\ queue'[k] = queue[k]
                                  \/ k = Len(queue) + 1 /\ queue'[k] = <<s, 0>>
  BY <1>1, Enqueued DEF GroupsInv
<1>3. \A k \in DOMAIN queue : queue[k] # <<s, 0>>
  BY <1>1 DEF GroupsInv, SourcesQueueOnce
<1>4. GroupShape'
  BY <1>1, <1>2 DEF GroupsInv, GroupShape
<1>5. SourcesQueueOnce'
  BY <1>1, <1>2, <1>3 DEF GroupsInv, GroupShape, SourcesQueueOnce, Tasks
<1> QED
  BY <1>1, <1>2, <1>4, <1>5, TaskGroupsAssumption
     DEF GroupsInv, GroupShape, OnlyStrictErrors, EveryLinkIsSomewhere, ReadIsFinal,
         ReturnsEveryJobLink

LEMMA SubmitKeepsGroupsInv ==
  ASSUME GroupsInv, NEW s \in Sources, SubmitAnchor(s)
  PROVE  GroupsInv'
<1>1. /\ pc[s] = "submit" /\ next[s] <= Anchors /\ next[s] \in Nat \ {0}
      /\ queue' = Append(queue, <<s, next[s]>>)
      /\ next' = [next EXCEPT ![s] = @ + 1]
      /\ UNCHANGED <<pc, over, items, returned, running>>
  BY DEF SubmitAnchor, Submit, GroupsInv, GroupShape
<1>2. <<s, next[s]>> \in Tasks /\ next[s] # 0
  BY <1>1, TaskGroupsAssumption DEF Tasks
<1>3. /\ queue' \in Seq(Tasks)
      /\ \A u : InQueue(u)' <=> InQueue(u) \/ u = <<s, next[s]>>
      /\ \A k \in DOMAIN queue' : \/ k \in DOMAIN queue /\ queue'[k] = queue[k]
                                  \/ k = Len(queue) + 1 /\ queue'[k] = <<s, next[s]>>
  BY <1>1, <1>2, Enqueued DEF GroupsInv
<1>4. GroupShape'
  BY <1>1, <1>3 DEF GroupsInv, GroupShape
<1>5. SourcesQueueOnce'
  BY <1>1, <1>2, <1>3 DEF GroupsInv, GroupShape, SourcesQueueOnce
<1>6. EveryLinkIsSomewhere'
  <2> SUFFICES ASSUME NEW r \in Sources, NEW i \in JobLinks[r],
                      pc[r] \in {"submit", "wait", "read", "done"}, over[r] = "no"
               PROVE \/ i \in items[r] \/ <<r, i>> \in running \/ InQueue(<<r, i>>)'
                     \/ pc[r] = "submit" /\ next'[r] <= i
    BY <1>1 DEF EveryLinkIsSomewhere
  <2>1. i \in Nat
    BY TaskGroupsAssumption
  <2>2. r # s => next'[r] = next[r]
    BY <1>1 DEF GroupsInv, GroupShape
  <2>3. r = s /\ next[r] <= i => i = next[s] \/ next'[r] <= i
    BY <1>1, <2>1 DEF GroupsInv, GroupShape
  <2> QED
    BY <1>3, <2>2, <2>3 DEF GroupsInv, EveryLinkIsSomewhere
<1>7. ReadIsFinal'
  BY <1>1, <1>3 DEF GroupsInv, ReadIsFinal
<1> QED
  BY <1>1, <1>4, <1>5, <1>6, <1>7
     DEF GroupsInv, OnlyStrictErrors, ReturnsEveryJobLink

(* The steps that leave the queue alone.                                   *)
LEMMA SourceKeepsGroupsInv ==
  ASSUME GroupsInv, NEW s \in Sources,
         Browse(s) \/ BrowseFails(s) \/ SubmittedAll(s) \/ Wait(s) \/ ReturnItems(s)
           \/ GroupDeadline(s)
  PROVE  GroupsInv'
<1> USE DEF GroupsInv, GroupShape, SourcesQueueOnce, OnlyStrictErrors, EveryLinkIsSomewhere,
            ReadIsFinal, ReturnsEveryJobLink, InQueue
<1>0. (\A r \in Sources : JobLinks[r] \subseteq 1 .. Anchors) /\ Anchors \in Nat
  BY TaskGroupsAssumption
<1>1. CASE Browse(s)
  BY <1>0, <1>1 DEF Browse
<1>2. CASE BrowseFails(s)
  BY <1>0, <1>2 DEF BrowseFails
<1>3. CASE SubmittedAll(s)
  BY <1>0, <1>3 DEF SubmittedAll
<1>4. CASE Wait(s)
  <2>1. over[s] = "no" =>
          \A i \in 1 .. Anchors : <<s, i>> \notin running /\ ~InQueue(<<s, i>>)
    BY <1>4 DEF Wait, Unfinished, GroupOf
  <2> QED
    BY <1>0, <1>4, <2>1 DEF Wait
<1>5. CASE ReturnItems(s)
  <2>1. over[s] = "no" => items[s] = JobLinks[s]
    <3>1. pc[s] = "read"
      BY <1>5 DEF ReturnItems
    <3>2. ASSUME over[s] = "no", NEW i \in JobLinks[s] PROVE i \in items[s]
      <4>1. <<s, i>> \notin running /\ ~InQueue(<<s, i>>)
        <5>1. i \in 1 .. Anchors
          BY <1>0
        <5> QED
          BY <3>1, <3>2, <5>1
      <4> QED
        BY <3>1, <3>2, <4>1
    <3> QED
      BY <3>2
  <2> QED
    BY <1>0, <1>5, <2>1 DEF ReturnItems
<1>6. CASE GroupDeadline(s)
  BY <1>0, <1>6 DEF GroupDeadline, GroupEnds
<1> QED
  BY <1>1, <1>2, <1>3, <1>4, <1>5, <1>6

LEMMA CollectKeepsGroupsInv ==
  ASSUME GroupsInv, NEW s \in Sources, NEW i \in 1 .. Anchors, Collect(s, i)
  PROVE  GroupsInv'
<1>0. (\A r \in Sources : JobLinks[r] \subseteq 1 .. Anchors) /\ Anchors \in Nat
  BY TaskGroupsAssumption
<1>1. /\ running' = running \ {<<s, i>>} /\ <<s, i>> \in running
      /\ UNCHANGED <<pc, next, returned, queue>>
  BY DEF Collect
<1>2. i \in JobLinks[s] => items' = [items EXCEPT ![s] = @ \union {i}] /\ over' = over
  BY DEF Collect
<1>3. i \notin JobLinks[s] =>
        /\ items' = items
        /\ over' = over \/ (s \in Strict /\ GroupEnds(s, "error"))
  BY DEF Collect
<1>4. /\ DOMAIN items' = Sources /\ \A r \in Sources : items'[r] \subseteq JobLinks[r]
      /\ \A r \in Sources : items[r] \subseteq items'[r]
      /\ i \in JobLinks[s] => i \in items'[s]
  BY <1>2, <1>3 DEF GroupsInv, GroupShape
<1>5. /\ DOMAIN over' = Sources
      /\ \A r \in Sources : over'[r] # over[r] => r = s /\ s \in Strict /\ over'[r] = "error"
  BY <1>2, <1>3 DEF GroupsInv, GroupShape, GroupEnds
<1>6. over[s] = "no" => pc[s] \notin {"read", "done"}
  BY <1>1 DEF GroupsInv, ReadIsFinal
<1>7. GroupShape'
  BY <1>1, <1>4, <1>5 DEF GroupsInv, GroupShape
<1>8. SourcesQueueOnce'
  BY <1>1 DEF GroupsInv, SourcesQueueOnce
<1>9. OnlyStrictErrors'
  BY <1>5 DEF GroupsInv, OnlyStrictErrors
<1>10. EveryLinkIsSomewhere'
  <2> SUFFICES ASSUME NEW r \in Sources, NEW k \in JobLinks[r], over'[r] = "no",
                      pc[r] \in {"submit", "wait", "read", "done"}
               PROVE  \/ k \in items'[r] \/ <<r, k>> \in running' \/ InQueue(<<r, k>>)
                      \/ pc[r] = "submit" /\ next[r] <= k
    BY <1>1 DEF EveryLinkIsSomewhere, InQueue
  <2>1. over[r] = "no"
    BY <1>5
  <2>2. \/ k \in items[r] \/ <<r, k>> \in running \/ InQueue(<<r, k>>)
        \/ pc[r] = "submit" /\ next[r] <= k
    BY <2>1 DEF GroupsInv, EveryLinkIsSomewhere
  <2>3. <<r, k>> = <<s, i>> => k \in items'[r]
    BY <1>4
  <2> QED
    BY <1>1, <1>4, <2>2, <2>3
<1>11. ReadIsFinal'
  BY <1>1, <1>5 DEF GroupsInv, ReadIsFinal, InQueue
<1>12. ReturnsEveryJobLink'
  <2> SUFFICES ASSUME NEW r \in Sources, pc[r] = "done", over'[r] \in {"no", "error"},
                      r \in Strict => over'[r] = "no"
               PROVE  returned[r] = JobLinks[r]
    BY <1>1 DEF ReturnsEveryJobLink
  <2>1. over'[r] = over[r]
    BY <1>5
  <2> QED
    BY <2>1 DEF GroupsInv, ReturnsEveryJobLink
<1> QED
  BY <1>7, <1>8, <1>9, <1>10, <1>11, <1>12 DEF GroupsInv

LEMMA GroupsInvStep == GroupsInv /\ [GroupsNext]_groupsVars => GroupsInv'
<1>1. GroupsInv /\ UNCHANGED groupsVars => GroupsInv'
  BY DEF groupsVars, GroupsInv, GroupShape, SourcesQueueOnce, OnlyStrictErrors,
         EveryLinkIsSomewhere, ReadIsFinal, ReturnsEveryJobLink, InQueue
<1> QED
  BY <1>1, TakeKeepsGroupsInv, SendKeepsGroupsInv, SubmitKeepsGroupsInv,
     SourceKeepsGroupsInv, CollectKeepsGroupsInv DEF GroupsNext, Source

LEMMA AlwaysGroupsInv == GroupsSpec => []GroupsInv
  BY InitGroupsInv, GroupsInvStep, PTL DEF GroupsSpec

(* A source that returns in time returns every link to a job, in whatever  *)
(* order the pool runs the tasks: for any sources, anchors, workers and    *)
(* queue (generic.go:110, telfed.go:858).                                  *)
THEOREM GroupsAreComplete == GroupsSpec => []ReturnsEveryJobLink
<1>1. GroupsInv => ReturnsEveryJobLink
  BY DEF GroupsInv
<1> QED
  BY <1>1, AlwaysGroupsInv, PTL

(* What a source reads without the mutex was the final value, unless its   *)
(* group was cut short (generic.go:148).                                   *)
THEOREM ReadsAreFinal == GroupsSpec => ReadsAFinishedGroup
<1>1. ASSUME GroupsInv, [GroupsNext]_groupsVars, NEW s \in Sources,
             pc[s] \in {"read", "done"}, over[s] = "no"
      PROVE items'[s] = items[s]
  <2>1. ASSUME NEW r \in Sources, NEW i \in 1 .. Anchors, Collect(r, i)
        PROVE items'[s] = items[s]
    <3>1. r # s
      BY <1>1, <2>1 DEF GroupsInv, ReadIsFinal, Collect
    <3> QED
      BY <1>1, <2>1, <3>1 DEF Collect, GroupsInv, GroupShape
  <2>2. ASSUME NEW r \in Sources, Source(r) \/ GroupDeadline(r)
        PROVE items'[s] = items[s]
    BY <2>2 DEF Source, Send, Browse, BrowseFails, SubmitAnchor, SubmittedAll, Wait,
                ReturnItems, GroupDeadline
  <2>3. Take \/ UNCHANGED groupsVars => items'[s] = items[s]
    BY DEF Take, groupsVars
  <2> QED
    BY <1>1, <2>1, <2>2, <2>3 DEF GroupsNext
<1>2. GroupsInv /\ [GroupsNext]_groupsVars =>
        [\A s \in Sources : pc[s] \in {"read", "done"} /\ over[s] = "no"
                              => items'[s] = items[s]]_groupsVars
  BY <1>1
<1> QED
  BY <1>2, AlwaysGroupsInv, PTL DEF GroupsSpec, ReadsAFinishedGroup

(* The same groups seen from the workers: when does nobody move?  A        *)
(* source's task is on a worker from its first step to its last, and in    *)
(* the queue before that.                                                  *)
SourcesHoldWorkers ==
  \A s \in Sources :
    /\ pc[s] \in {"unsent", "queued", "done"} \union OnWorker
    /\ <<s, 0>> \in running <=> pc[s] \in OnWorker
    /\ pc[s] = "queued" => InQueue(<<s, 0>>)

LEMMA TakeKeepsHolders ==
  ASSUME GroupsInv, SourcesHoldWorkers, Take
  PROVE  SourcesHoldWorkers'
<1> DEFINE t == Head(queue)
<1>1. /\ queue # <<>> /\ queue' = Tail(queue)
      /\ running' = IF Skipped(t) THEN running ELSE running \union {t}
      /\ pc' = IF t[2] = 0 THEN [pc EXCEPT ![t[1]] = "browse"] ELSE pc
  BY DEF Take
<1>2. /\ t \in Tasks
      /\ \A u : InQueue(u) => u = t \/ InQueue(u)'
  BY <1>1, Dequeued DEF GroupsInv
<1>3. DOMAIN pc = Sources
  BY DEF GroupsInv, GroupShape
<1> HIDE DEF t
<1>4. PICK r \in Sources, i \in 0 .. Anchors : t = <<r, i>>
  BY <1>2 DEF Tasks
<1>5. CASE i = 0
  <2>1. running' = running \union {<<r, 0>>} /\ pc' = [pc EXCEPT ![r] = "browse"]
    BY <1>1, <1>4, <1>5 DEF Skipped
  <2> QED
    BY <1>2, <1>3, <1>4, <1>5, <2>1 DEF SourcesHoldWorkers, OnWorker
<1>6. CASE i # 0
  <2>1. pc' = pc /\ \A s \in Sources : <<s, 0>> \in running' <=> <<s, 0>> \in running
    BY <1>1, <1>4, <1>6
  <2> QED
    BY <1>2, <1>4, <1>6, <2>1 DEF SourcesHoldWorkers
<1> QED
  BY <1>5, <1>6

LEMMA HoldersStep ==
  GroupsInv /\ SourcesHoldWorkers /\ [GroupsNext]_groupsVars => SourcesHoldWorkers'
<1> SUFFICES ASSUME GroupsInv, SourcesHoldWorkers, [GroupsNext]_groupsVars
             PROVE  SourcesHoldWorkers'
  OBVIOUS
<1>1. DOMAIN pc = Sources
  BY DEF GroupsInv, GroupShape
<1>2. ASSUME NEW s \in Sources, Send(s) PROVE SourcesHoldWorkers'
  <2>1. <<s, 0>> \in Tasks /\ queue' = Append(queue, <<s, 0>>)
    BY <1>2, TaskGroupsAssumption DEF Send, Submit, Tasks, TaskGroupsAssumption
  <2>2. \A u : InQueue(u)' <=> InQueue(u) \/ u = <<s, 0>>
    BY <2>1, Enqueued DEF GroupsInv
  <2> QED
    BY <1>1, <1>2, <2>2 DEF Send, SourcesHoldWorkers, OnWorker
<1>3. ASSUME NEW s \in Sources, SubmitAnchor(s) PROVE SourcesHoldWorkers'
  <2>1. <<s, next[s]>> \in Tasks /\ queue' = Append(queue, <<s, next[s]>>)
    BY <1>3, TaskGroupsAssumption
       DEF SubmitAnchor, Submit, Tasks, TaskGroupsAssumption, GroupsInv, GroupShape
  <2>2. \A u : InQueue(u) => InQueue(u)'
    BY <2>1, Enqueued DEF GroupsInv
  <2> QED
    BY <1>3, <2>2 DEF SubmitAnchor, SourcesHoldWorkers
<1>4. ASSUME NEW s \in Sources,
             \/ Browse(s) \/ BrowseFails(s) \/ SubmittedAll(s) \/ Wait(s)
             \/ ReturnItems(s) \/ GroupDeadline(s)
      PROVE SourcesHoldWorkers'
  BY <1>1, <1>4 DEF Browse, BrowseFails, SubmittedAll, Wait, ReturnItems, GroupDeadline,
                    SourcesHoldWorkers, OnWorker, InQueue
<1>5. ASSUME NEW s \in Sources, NEW i \in 1 .. Anchors, Collect(s, i)
      PROVE SourcesHoldWorkers'
  BY <1>5 DEF Collect, SourcesHoldWorkers, InQueue
<1>6. CASE UNCHANGED groupsVars
  BY <1>6 DEF groupsVars, SourcesHoldWorkers, InQueue
<1> QED
  BY <1>2, <1>3, <1>4, <1>5, <1>6, TakeKeepsHolders DEF GroupsNext, Source

RunningIsFinite == IsFiniteSet(running)

LEMMA AlwaysFinite == GroupsSpec => []RunningIsFinite
<1>1. GroupsInit => RunningIsFinite
  BY FS_EmptySet DEF GroupsInit, RunningIsFinite
<1>2. RunningIsFinite /\ [GroupsNext]_groupsVars => RunningIsFinite'
  <2> SUFFICES ASSUME RunningIsFinite, [GroupsNext]_groupsVars
               PROVE  RunningIsFinite'
    OBVIOUS
  <2>1. \A t : IsFiniteSet(running \ {t}) /\ IsFiniteSet(running \union {t})
    BY FS_AddElement, FS_RemoveElement DEF RunningIsFinite
  <2> QED
    BY <2>1 DEF RunningIsFinite, GroupsNext, groupsVars, Take, Source, Send, Browse,
                BrowseFails, SubmitAnchor, SubmittedAll, Wait, ReturnItems, GroupDeadline,
                Collect
<1> QED
  BY <1>1, <1>2, PTL DEF GroupsSpec

LEMMA AlwaysHolders == GroupsSpec => []SourcesHoldWorkers
<1>1. GroupsInit => SourcesHoldWorkers
  BY DEF GroupsInit, SourcesHoldWorkers, OnWorker
<1> QED
  BY <1>1, HoldersStep, AlwaysGroupsInv, PTL DEF GroupsSpec

(* The guards of the steps of the pool and of a source, its deadline apart. *)
PoolCanGo ==
  \/ queue # <<>> /\ Cardinality(running) < Workers
  \/ \E t \in running : t[2] # 0

PoolHasRoom == Cardinality(running) + Len(queue) < Workers + Queue

SourceCanGo(s) ==
  \/ pc[s] = "unsent" /\ PoolHasRoom
  \/ pc[s] \in {"browse", "read"}
  \/ pc[s] = "submit" /\ (next[s] > Anchors \/ PoolHasRoom)
  \/ pc[s] = "wait" /\ (Unfinished(s) = {} \/ over[s] # "no")

StandsStill == ~PoolCanGo /\ \A s \in Sources : ~SourceCanGo(s)

(* Every worker holds a source that waits for its group or for room.       *)
FullOfSources ==
  /\ ~(Cardinality(running) < Workers)
  /\ \A t \in running :
       /\ t[2] = 0
       /\ \/ pc[t[1]] = "wait" /\ over[t[1]] = "no"
          \/ pc[t[1]] = "submit" /\ ~PoolHasRoom

(* Before every source is done, nobody but a deadline can move only if     *)
(* every worker holds a source waiting for tasks that are behind it, so    *)
(* once the deadlines are over only if all are in Submit before a full     *)
(* queue (generic.go:110, telfed.go:858).                                  *)
THEOREM OnlyAFullPoolStands ==
  GroupsSpec => [](StandsStill => (\A s \in Sources : pc[s] = "done") \/ FullOfSources)
<1>1. ASSUME GroupsInv, SourcesHoldWorkers, RunningIsFinite, StandsStill,
             NEW s \in Sources, pc[s] # "done", Cardinality(running) < Workers
      PROVE FALSE
  <2>1. queue = <<>>
    BY <1>1 DEF StandsStill, PoolCanGo
  <2>2. ~InQueue(<<s, 0>>)
    BY <2>1 DEF InQueue
  <2>3. Unfinished(s) = {}
    BY <1>1, <2>1 DEF StandsStill, PoolCanGo, Unfinished, GroupOf
  <2>4. PoolHasRoom
    <3>1. Cardinality(running) \in Nat
      BY <1>1, FS_CardinalityType DEF RunningIsFinite
    <3> QED
      BY <1>1, <2>1, <3>1, TaskGroupsAssumption DEF PoolHasRoom, TaskGroupsAssumption
  <2> QED
    BY <1>1, <2>2, <2>3, <2>4 DEF SourcesHoldWorkers, OnWorker, StandsStill, SourceCanGo
<1>2. ASSUME GroupsInv, SourcesHoldWorkers, StandsStill, NEW t \in running
      PROVE /\ t[2] = 0
            /\ \/ pc[t[1]] = "wait" /\ over[t[1]] = "no"
               \/ pc[t[1]] = "submit" /\ ~PoolHasRoom
  <2>1. t[2] = 0
    BY <1>2 DEF StandsStill, PoolCanGo
  <2>2. PICK s \in Sources : t = <<s, 0>>
    BY <1>2, <2>1 DEF GroupsInv, GroupShape, Tasks
  <2> QED
    BY <1>2, <2>1, <2>2 DEF SourcesHoldWorkers, OnWorker, StandsStill, SourceCanGo
<1>3. GroupsInv /\ SourcesHoldWorkers /\ RunningIsFinite =>
        (StandsStill => (\A s \in Sources : pc[s] = "done") \/ FullOfSources)
  BY <1>1, <1>2 DEF FullOfSources
<1> QED
  BY <1>3, AlwaysGroupsInv, AlwaysHolders, AlwaysFinite, PTL

(* One worker more than there are sources, and no source waits in vain: no *)
(* deadline is needed to get on (main.go:84).                              *)
COROLLARY ASpareWorkerIsEnough ==
  ASSUME IsFiniteSet(Sources), Cardinality(Sources) < Workers
  PROVE  GroupsSpec => [](StandsStill => \A s \in Sources : pc[s] = "done")
<1>1. ASSUME GroupsInv, SourcesHoldWorkers, FullOfSources PROVE FALSE
  <2> DEFINE source == [t \in running |-> t[1]]
  <2>1. \A t \in running : \E s \in Sources : t = <<s, 0>>
    BY <1>1 DEF GroupsInv, GroupShape, Tasks, FullOfSources
  <2>2. source \in Injection(running, Sources)
    BY <2>1 DEF Injection, IsInjective
  <2>3. IsFiniteSet(running) /\ Cardinality(running) <= Cardinality(Sources)
    BY <2>2, FS_Injection
  <2>4. Cardinality(running) \in Nat /\ Cardinality(Sources) \in Nat
    BY <2>3, FS_CardinalityType
  <2> QED
    BY <1>1, <2>3, <2>4, TaskGroupsAssumption DEF FullOfSources, TaskGroupsAssumption
<1>2. GroupsInv /\ SourcesHoldWorkers =>
        ((StandsStill => (\A s \in Sources : pc[s] = "done") \/ FullOfSources)
          => (StandsStill => \A s \in Sources : pc[s] = "done"))
  BY <1>1
<1> QED
  BY <1>2, OnlyAFullPoolStands, AlwaysGroupsInv, AlwaysHolders, PTL

(* The pool has every task once: in the queue, or on a worker, and only    *)
(* after it was submitted.                                                 *)
TasksAreOnce ==
  /\ \A k, l \in DOMAIN queue : queue[k] = queue[l] => k = l
  /\ \A t \in running : ~InQueue(t)
  /\ \A s \in Sources, i \in 1 .. Anchors :
       InQueue(<<s, i>>) \/ <<s, i>> \in running => i < next[s]

(* A task that is submitted anew is not in the pool.                       *)
LEMMA EnqueuedOnce ==
  ASSUME GroupsInv, TasksAreOnce, NEW t \in Tasks, queue' = Append(queue, t),
         ~InQueue(t), t \notin running, running' = running
  PROVE  /\ \A k, l \in DOMAIN queue' : queue'[k] = queue'[l] => k = l
         /\ \A u \in running' : ~InQueue(u)'
<1>1. /\ \A u : InQueue(u)' <=> InQueue(u) \/ u = t
      /\ \A k \in DOMAIN queue' : \/ k \in DOMAIN queue /\ queue'[k] = queue[k]
                                  \/ k = Len(queue) + 1 /\ queue'[k] = t
  BY Enqueued DEF GroupsInv
<1> QED
  BY <1>1 DEF TasksAreOnce, InQueue

LEMMA TakeKeepsOnce ==
  ASSUME GroupsInv, SourcesHoldWorkers, TasksAreOnce, Take
  PROVE  TasksAreOnce'
<1> PICK t : t = Head(queue)
  OBVIOUS
<1>1. /\ queue # <<>> /\ queue' = Tail(queue) /\ next' = next
      /\ running' = running \/ running' = running \union {t}
  BY DEF Take
<1>2. /\ t \in Tasks /\ InQueue(t) /\ t = queue[1] /\ 1 \in DOMAIN queue
      /\ \A u : InQueue(u)' => InQueue(u)
      /\ \A k \in DOMAIN queue' : k + 1 \in DOMAIN queue /\ queue'[k] = queue[k + 1] /\ k \in Nat
  BY <1>1, Dequeued DEF GroupsInv
<1>3. \A k \in DOMAIN queue' : k # 0
  BY <1>1, <1>2 DEF GroupsInv, GroupShape
<1>4. ~InQueue(t)'
  <2> SUFFICES ASSUME NEW k \in DOMAIN queue', queue'[k] = t PROVE FALSE
    BY DEF InQueue
  <2>1. k + 1 = 1
    BY <1>2 DEF TasksAreOnce
  <2> QED
    BY <1>2, <1>3, <2>1
<1>5. \A k, l \in DOMAIN queue' : queue'[k] = queue'[l] => k = l
  <2> SUFFICES ASSUME NEW k \in DOMAIN queue', NEW l \in DOMAIN queue', queue'[k] = queue'[l]
               PROVE  k = l
    OBVIOUS
  <2>1. k + 1 = l + 1 /\ k \in Nat /\ l \in Nat
    BY <1>2 DEF TasksAreOnce
  <2> QED
    BY <2>1
<1>6. \A u \in running' : ~InQueue(u)'
  <2>1. \A u \in running : ~InQueue(u)'
    BY <1>2 DEF TasksAreOnce
  <2> QED
    BY <1>1, <1>4, <2>1
<1>7. ASSUME NEW s \in Sources, NEW i \in 1 .. Anchors,
             InQueue(<<s, i>>)' \/ <<s, i>> \in running'
      PROVE  i < next'[s]
  <2>1. InQueue(<<s, i>>) \/ <<s, i>> \in running
    BY <1>1, <1>2, <1>7
  <2> QED
    BY <1>1, <2>1 DEF TasksAreOnce
<1> QED
  BY <1>5, <1>6, <1>7 DEF TasksAreOnce

LEMMA OnceStep ==
  GroupsInv /\ SourcesHoldWorkers /\ TasksAreOnce /\ [GroupsNext]_groupsVars => TasksAreOnce'
<1> SUFFICES ASSUME GroupsInv, SourcesHoldWorkers, TasksAreOnce, [GroupsNext]_groupsVars
             PROVE  TasksAreOnce'
  OBVIOUS
<1>1. ASSUME NEW s \in Sources, Send(s) PROVE TasksAreOnce'
  <2>1. /\ <<s, 0>> \in Tasks /\ queue' = Append(queue, <<s, 0>>)
        /\ running' = running /\ next' = next
    BY <1>1, TaskGroupsAssumption DEF Send, Submit, Tasks, TaskGroupsAssumption
  <2>2. ~InQueue(<<s, 0>>) /\ <<s, 0>> \notin running
    BY <1>1 DEF Send, InQueue, GroupsInv, SourcesQueueOnce, SourcesHoldWorkers, OnWorker
  <2>3. \A u : InQueue(u)' <=> InQueue(u) \/ u = <<s, 0>>
    BY <2>1, Enqueued DEF GroupsInv
  <2> QED
    BY <2>1, <2>2, <2>3, EnqueuedOnce DEF TasksAreOnce
<1>2. ASSUME NEW s \in Sources, SubmitAnchor(s) PROVE TasksAreOnce'
  <2> DEFINE i == next[s]
  <2>1. /\ i \in 1 .. Anchors /\ next' = [next EXCEPT ![s] = i + 1]
        /\ DOMAIN next = Sources /\ \A r \in Sources : next[r] \in Nat
        /\ queue' = Append(queue, <<s, i>>) /\ running' = running
    BY <1>2, TaskGroupsAssumption
       DEF SubmitAnchor, Submit, TaskGroupsAssumption, GroupsInv, GroupShape
  <2> HIDE DEF i
  <2>2. <<s, i>> \in Tasks
    BY <2>1, TaskGroupsAssumption DEF Tasks, TaskGroupsAssumption
  <2>3. ~InQueue(<<s, i>>) /\ <<s, i>> \notin running
    <3>1. ~(i < next[s])
      BY <2>1 DEF i
    <3> QED
      BY <2>1, <3>1 DEF TasksAreOnce
  <2>4. \A u : InQueue(u)' <=> InQueue(u) \/ u = <<s, i>>
    BY <2>1, <2>2, Enqueued DEF GroupsInv
  <2>5. \A r \in Sources : next[r] <= next'[r] /\ next'[r] \in Nat
    BY <2>1 DEF i
  <2>6. ASSUME NEW r \in Sources, NEW k \in 1 .. Anchors,
               InQueue(<<r, k>>)' \/ <<r, k>> \in running'
        PROVE  k < next'[r]
    <3>1. CASE r = s /\ k = i
      BY <2>1, <3>1
    <3>2. CASE InQueue(<<r, k>>) \/ <<r, k>> \in running
      <4>1. k < next[r]
        BY <3>2 DEF TasksAreOnce
      <4> QED
        BY <2>1, <2>5, <4>1
    <3> QED
      BY <2>1, <2>4, <2>6, <3>1, <3>2
  <2> QED
    BY <2>1, <2>2, <2>3, <2>6, EnqueuedOnce DEF TasksAreOnce
<1>3. ASSUME NEW s \in Sources,
             \/ Browse(s) \/ BrowseFails(s) \/ SubmittedAll(s) \/ Wait(s)
             \/ ReturnItems(s) \/ GroupDeadline(s)
      PROVE TasksAreOnce'
  BY <1>3 DEF Browse, BrowseFails, SubmittedAll, Wait, ReturnItems, GroupDeadline,
              TasksAreOnce, InQueue
<1>4. ASSUME NEW s \in Sources, NEW i \in 1 .. Anchors, Collect(s, i)
      PROVE TasksAreOnce'
  BY <1>4 DEF Collect, TasksAreOnce, InQueue
<1>5. CASE UNCHANGED groupsVars
  BY <1>5 DEF groupsVars, TasksAreOnce, InQueue
<1> QED
  BY <1>1, <1>2, <1>3, <1>4, <1>5, TakeKeepsOnce DEF GroupsNext, Source

LEMMA AlwaysOnce == GroupsSpec => []TasksAreOnce
<1>1. GroupsInit => TasksAreOnce
  BY DEF GroupsInit, TasksAreOnce, InQueue
<1> QED
  BY <1>1, OnceStep, AlwaysGroupsInv, AlwaysHolders, PTL DEF GroupsSpec

EnoughForAll == Cardinality(Sources) * (Anchors + 1) <= Workers + Queue

(* What the pool has not seen yet, it has room for.                        *)
LEMMA RoomForOneMore ==
  ASSUME IsFiniteSet(Sources), EnoughForAll, GroupsInv, RunningIsFinite, TasksAreOnce,
         NEW t \in Tasks, ~InQueue(t), t \notin running
  PROVE  PoolHasRoom
<1> DEFINE queued == {queue[k] : k \in DOMAIN queue}
           others == running \union queued
<1>1. queue \in Seq(Tasks) /\ running \subseteq Tasks /\ queued \subseteq Tasks
  BY DEF GroupsInv, GroupShape
<1>2. IsFiniteSet(Tasks) /\ Cardinality(Tasks) = Cardinality(Sources) * (Anchors + 1)
  <2>1. IsFiniteSet(0 .. Anchors) /\ Cardinality(0 .. Anchors) = Anchors + 1
    BY FS_Interval, TaskGroupsAssumption DEF TaskGroupsAssumption
  <2> QED
    BY <2>1, FS_Product DEF Tasks
<1>3. IsFiniteSet(queued) /\ Cardinality(queued) = Len(queue)
  <2>1. IsFiniteSet(1 .. Len(queue)) /\ Cardinality(1 .. Len(queue)) = Len(queue)
    <3>1. Len(queue) \in Nat
      BY <1>1
    <3>2. /\ IsFiniteSet(1 .. Len(queue))
          /\ Cardinality(1 .. Len(queue)) =
               IF 1 > Len(queue) THEN 0 ELSE Len(queue) - 1 + 1
      BY <3>1, FS_Interval
    <3> QED
      BY <3>1, <3>2
  <2>2. DOMAIN queue = 1 .. Len(queue)
    BY <1>1
  <2>3. ExistsBijection(1 .. Len(queue), queued)
    <3>1. [k \in 1 .. Len(queue) |-> queue[k]] \in Bijection(1 .. Len(queue), queued)
      BY <2>2 DEF Bijection, Injection, Surjection, IsInjective, TasksAreOnce
    <3> QED
      BY <3>1 DEF ExistsBijection
  <2> HIDE DEF queued
  <2> QED
    BY <2>1, <2>3, FS_Bijection
<1>4. running \intersect queued = {}
  BY DEF TasksAreOnce, InQueue
<1>5. others \subseteq Tasks /\ t \notin others
  BY <1>1 DEF InQueue
<1> HIDE DEF queued
<1>6. IsFiniteSet(others) /\ Cardinality(others) = Cardinality(running) + Len(queue)
  <2>1. IsFiniteSet(running) /\ IsFiniteSet(queued)
    BY <1>3 DEF RunningIsFinite
  <2>2. /\ IsFiniteSet(others)
        /\ Cardinality(others) =
             Cardinality(running) + Cardinality(queued) - Cardinality(running \intersect queued)
    BY ONLY <2>1, FS_Union
  <2>3. Cardinality(running \intersect queued) = 0
    BY <1>4, FS_EmptySet
  <2>4. Cardinality(running) \in Nat /\ Cardinality(queued) \in Nat
    BY <2>1, FS_CardinalityType
  <2> QED
    BY <1>3, <2>2, <2>3, <2>4
<1>7. others # Tasks
  BY <1>5
<1> HIDE DEF others
<1>8. Cardinality(others) < Cardinality(Tasks)
  <2>1. /\ Cardinality(others) <= Cardinality(Tasks)
        /\ Cardinality(Tasks) = Cardinality(others) => Tasks = others
    BY <1>2, <1>5, FS_Subset
  <2>2. Cardinality(others) \in Nat /\ Cardinality(Tasks) \in Nat
    BY <1>2, <1>6, FS_CardinalityType
  <2> QED
    BY <1>7, <2>1, <2>2
<1> QED
  BY <1>2, <1>6, <1>8, FS_CardinalityType, TaskGroupsAssumption
     DEF PoolHasRoom, EnoughForAll, TaskGroupsAssumption

(* And with a queue for every task nobody waits for room: before every     *)
(* source is done, one that waits for its group has its deadline ahead.    *)
COROLLARY ALongQueueIsEnough ==
  ASSUME IsFiniteSet(Sources), EnoughForAll
  PROVE  GroupsSpec => [](StandsStill => \/ \A s \in Sources : pc[s] = "done"
                                         \/ \E s \in Sources : pc[s] = "wait" /\ over[s] = "no")
<1> DEFINE AtRest == StandsStill => (\A s \in Sources : pc[s] = "done") \/ FullOfSources
           Moves == StandsStill => \/ \A s \in Sources : pc[s] = "done"
                                   \/ \E s \in Sources : pc[s] = "wait" /\ over[s] = "no"
<1>1. ASSUME GroupsInv, SourcesHoldWorkers, RunningIsFinite, TasksAreOnce,
             StandsStill, FullOfSources
      PROVE \E s \in Sources : pc[s] = "wait" /\ over[s] = "no"
  <2>1. running # {}
    BY <1>1, FS_EmptySet, TaskGroupsAssumption DEF FullOfSources, TaskGroupsAssumption
  <2>2. PICK s \in Sources : <<s, 0>> \in running
    <3>1. PICK t \in running : t[2] = 0
      BY <1>1, <2>1 DEF FullOfSources
    <3>2. t \in Sources \X (0 .. Anchors)
      BY <1>1, <3>1 DEF GroupsInv, GroupShape, Tasks
    <3>3. t = <<t[1], 0>> /\ t[1] \in Sources
      BY <3>1, <3>2
    <3> QED
      BY <3>1, <3>3
  <2>3. CASE pc[s] = "wait" /\ over[s] = "no"
    BY <2>3
  <2>4. CASE pc[s] = "submit" /\ ~PoolHasRoom
    <3> DEFINE t == <<s, next[s]>>
    <3>1. next[s] \in 1 .. Anchors
      BY <1>1, <2>4, TaskGroupsAssumption
         DEF StandsStill, SourceCanGo, GroupsInv, GroupShape, TaskGroupsAssumption
    <3>2. t \in Tasks
      BY <3>1, TaskGroupsAssumption DEF Tasks, TaskGroupsAssumption
    <3>3. ~InQueue(t) /\ t \notin running
      BY <1>1, <3>1 DEF TasksAreOnce
    <3> QED
      BY <1>1, <2>4, <3>2, <3>3, RoomForOneMore
  <2> QED
    BY <1>1, <2>2, <2>3, <2>4 DEF FullOfSources
<1>2. GroupsInv /\ SourcesHoldWorkers /\ RunningIsFinite /\ TasksAreOnce => (AtRest => Moves)
  BY <1>1
<1>3. GroupsSpec => []AtRest
  BY OnlyAFullPoolStands
<1> HIDE DEF AtRest, Moves
<1>4. GroupsSpec => []Moves
  BY <1>2, <1>3, AlwaysGroupsInv, AlwaysHolders, AlwaysFinite, AlwaysOnce, PTL
<1> QED
  BY <1>4 DEF Moves

-----------------------------------------------------------------------------
(* Sending.                                                                *)

(* What the place of a call c says of the copies h it has handed over and  *)
(* of their acknowledgement a.                                             *)
Reached(c, h, a) ==
  /\ c.pc \in {"start", "get", "page", "compose"} => h = 0 /\ ~a
  /\ c.pc = "post" => ~a
  /\ c.pc \in {"posted", "mailing"} => h > 0 /\ ~a
  /\ c.pc \in {"acked", "mailed"} => a
  /\ c.pc \in {"post", "posted", "acked"} => c.status = "200"
  /\ c.pc \in MailPcs \union {"start", "get"} => c.status = "none"
  /\ c.pc = "done" /\ c.ok => a
  /\ c.pc = "done" /\ c.status = "429" => h = 0
  /\ c.pc # "done" => ~c.ok

(* The copies handed over and the names left make up the names of the form.*)
WithinNames(c, h) ==
  /\ c.pc = "post" => c.left > 0 /\ h + c.left <= FileNames + 1
  /\ c.pc = "posted" => c.left > 0 /\ h + c.left <= FileNames + 2

CallInv(c, h, a) ==
  /\ c \in Calls /\ h \in 0 .. FileNames + 1 /\ a \in BOOLEAN
  /\ Reached(c, h, a) /\ WithinNames(c, h)

SendInv ==
  /\ SendTypeOK
  /\ \A s \in Sends : CallInv(call[s], handed[s], acked[s])

LEMMA InitSendInv == SendInit => SendInv
<1> SUFFICES ASSUME SendInit PROVE SendInv
  OBVIOUS
<1>1. FileNames \in Nat \ {0}
  BY SendingAssumption
<1>2. ASSUME NEW s \in Sends PROVE CallInv(call[s], handed[s], acked[s])
  <2>1. PICK via \in {"mail", "form", "none"} : call[s] = NewCall(via)
    BY DEF SendInit
  <2> QED
    BY <1>1, <2>1 DEF SendInit, NewCall, CallInv, Calls, WithinNames, Reached,
                      MailPcs, FormPcs, Codes
<1>3. call \in [Sends -> Calls]
  BY <1>2 DEF SendInit, CallInv
<1>4. handed \in [Sends -> 0 .. FileNames + 1]
  BY <1>1 DEF SendInit
<1>5. SendTypeOK
  BY <1>3, <1>4 DEF SendTypeOK, SendInit
<1> QED
  BY <1>2, <1>5 DEF SendInv

(* A step is one of one call, and keeps the invariant if that call does.   *)
LEMMA OneCallMoves ==
  ASSUME SendInv, NEW s \in Sends, NEW c, NEW h, NEW a,
         call' = [call EXCEPT ![s] = c], handed' = [handed EXCEPT ![s] = h],
         acked' = [acked EXCEPT ![s] = a],
         stopped' = stopped, CallInv(c, h, a)
  PROVE  SendInv'
  BY DEF SendInv, SendTypeOK, CallInv, Calls

(* A step of a call changes nothing but that call.                         *)
LEMMA Frame ==
  ASSUME SendTypeOK, NEW s \in Sends, FormStep(s) \/ MailStep(s)
  PROVE  /\ call' = [call EXCEPT ![s] = call'[s]]
         /\ handed' = [handed EXCEPT ![s] = handed'[s]]
         /\ acked' = [acked EXCEPT ![s] = acked'[s]]
         /\ stopped' = stopped
<1> USE DEF SendTypeOK
<1>1. call' = [call EXCEPT ![s] = call'[s]]
  BY DEF FormStep, MailStep, Begin, Refuse, GetFails, GetAnswered,
      PageIsNoForm, PageIsForm, PostFails, Post, PostRefused, PostAcknowledged,
      ReadAnswer, MailFails, MailHanded, MailLost, MailAcknowledged,
      MailReturns, NextName, Goes, Returns
<1>2. /\ handed' = [handed EXCEPT ![s] = handed'[s]]
      /\ acked' = [acked EXCEPT ![s] = acked'[s]]
      /\ stopped' = stopped
  BY DEF FormStep, MailStep, Begin, Refuse, GetFails, GetAnswered,
      PageIsNoForm, PageIsForm, PostFails, Post, PostRefused, PostAcknowledged,
      ReadAnswer, MailFails, MailHanded, MailLost, MailAcknowledged,
      MailReturns, history
<1> QED
  BY <1>1, <1>2

LEMMA SendInvStep == SendInv /\ [SendNext]_sendVars => SendInv'
<1> SUFFICES ASSUME SendInv, [SendNext]_sendVars PROVE SendInv'
  OBVIOUS
<1>0. FileNames \in Nat \ {0}
  BY SendingAssumption
<1>1. CASE Stop
  BY <1>1 DEF Stop, history, SendInv, SendTypeOK
<1>2. ASSUME NEW s \in Sends, FormStep(s) \/ MailStep(s) PROVE SendInv'
  <2> DEFINE Kept == CallInv(call'[s], handed'[s], acked'[s])
  <2> USE <1>0 DEF CallInv, Reached, WithinNames, Calls, FormPcs, MailPcs,
                   Codes, history, Goes, Returns
  <2>0. /\ CallInv(call[s], handed[s], acked[s])
        /\ DOMAIN call = Sends /\ DOMAIN handed = Sends /\ DOMAIN acked = Sends
    BY DEF SendInv, SendTypeOK
  <2>1. ASSUME Begin(s) PROVE Kept
    BY <2>0, <2>1 DEF Begin
  <2>2. ASSUME Refuse(s) PROVE Kept
    BY <2>0, <2>2 DEF Refuse
  <2>3. ASSUME GetFails(s) PROVE Kept
    BY <2>0, <2>3 DEF GetFails
  <2>4. ASSUME NEW code \in Codes, GetAnswered(s, code) PROVE Kept
    BY <2>0, <2>4 DEF GetAnswered
  <2>5. ASSUME PageIsNoForm(s) PROVE Kept
    BY <2>0, <2>5 DEF PageIsNoForm
  <2>6. ASSUME PageIsForm(s) PROVE Kept
    <3>1. PICK names \in {FileNames, FileNames + 1} :
            call' = [call EXCEPT ![s].pc = "post", ![s].left = names]
      BY <2>6 DEF PageIsForm
    <3>2. /\ call'[s] = [call[s] EXCEPT !.pc = "post", !.left = names]
          /\ call[s].pc = "page" /\ call[s].status = "200"
          /\ handed'[s] = 0 /\ acked'[s] = FALSE
      BY <2>0, <2>6, <3>1 DEF PageIsForm
    <3>3. names \in 1 .. FileNames + 1
      BY <3>1
    <3>4. call'[s] \in Calls
      <4>1. /\ call[s] \in Calls /\ names \in 0 .. FileNames + 1
            /\ "post" \in {"start", "done"} \union FormPcs \union MailPcs
        BY <2>0, <3>3
      <4> HIDE DEF FormPcs, MailPcs, Codes
      <4> QED
        BY <3>2, <4>1 DEF Calls
    <3>5. /\ call'[s].pc = "post" /\ call'[s].left = names
          /\ call'[s].status = "200" /\ ~call'[s].ok
      BY <2>0, <3>2
    <3>6. Reached(call'[s], handed'[s], acked'[s])
      BY <3>2, <3>5
    <3>7. WithinNames(call'[s], handed'[s])
      BY <3>2, <3>3, <3>5
    <3>8. handed'[s] \in 0 .. FileNames + 1 /\ acked'[s] \in BOOLEAN
      BY <2>0, <2>6 DEF PageIsForm
    <3> HIDE DEF Reached, WithinNames, Calls
    <3> QED
      BY <3>4, <3>6, <3>7, <3>8
  <2>7. ASSUME PostFails(s) PROVE Kept
    BY <2>0, <2>7 DEF PostFails, NextName
  <2>8. ASSUME Post(s) PROVE Kept
    BY <2>0, <2>8 DEF Post
  <2>9. ASSUME PostRefused(s) PROVE Kept
    BY <2>0, <2>9 DEF PostRefused, NextName
  <2>10. ASSUME PostAcknowledged(s) PROVE Kept
    BY <2>0, <2>10 DEF PostAcknowledged
  <2>11. ASSUME ReadAnswer(s) PROVE Kept
    <3>1. PICK ok \in BOOLEAN : Returns(s, ok)
      BY <2>11 DEF ReadAnswer
    <3> QED
      BY <2>0, <2>11, <3>1 DEF ReadAnswer
  <2>12. ASSUME MailFails(s) PROVE Kept
    BY <2>0, <2>12 DEF MailFails
  <2>13. ASSUME MailHanded(s) PROVE Kept
    BY <2>0, <2>13 DEF MailHanded
  <2>14. ASSUME MailLost(s) PROVE Kept
    BY <2>0, <2>14 DEF MailLost
  <2>15. ASSUME MailAcknowledged(s) PROVE Kept
    BY <2>0, <2>15 DEF MailAcknowledged
  <2>16. ASSUME MailReturns(s) PROVE Kept
    <3>1. PICK ok \in BOOLEAN : Returns(s, ok)
      BY <2>16 DEF MailReturns
    <3> QED
      BY <2>0, <2>16, <3>1 DEF MailReturns
  <2>17. Kept
    BY <1>2, <2>1, <2>2, <2>3, <2>4, <2>5, <2>6, <2>7, <2>8, <2>9, <2>10, <2>11, <2>12, <2>13, <2>14, <2>15, <2>16
       DEF FormStep, MailStep
  <2> HIDE DEF Kept
  <2> QED
    <3>1. CallInv(call'[s], handed'[s], acked'[s])
      BY <2>17 DEF Kept
    <3>2. SendTypeOK
      BY DEF SendInv
    <3> HIDE DEF CallInv
    <3> QED
      BY <1>2, <3>1, <3>2, Frame, OneCallMoves
<1>3. CASE UNCHANGED sendVars
  BY <1>3 DEF sendVars, SendInv, SendTypeOK
<1> QED
  BY <1>1, <1>2, <1>3 DEF SendNext

(* A call of ApplyJobs posts at most once per name of the field for the CV *)
(* (secret_telaviv.go:573), and every record keeps its shape.              *)
THEOREM TypeCorrect == SendSpec => []SendTypeOK
<1>1. SendInv => SendTypeOK
  BY DEF SendInv
<1> QED
  BY <1>1, InitSendInv, SendInvStep, PTL DEF SendSpec

-----------------------------------------------------------------------------
(* The refinement.                                                         *)

(* A step of one call leaves the verdicts of the others.                   *)
LEMMA VerdictMoves ==
  ASSUME NEW s \in Sends, NEW c, DOMAIN call = Sends,
         call' = [call EXCEPT ![s] = c]
  PROVE  [t \in Sends |-> Verdict(t)]'
           = [[t \in Sends |-> Verdict(t)] EXCEPT ![s] = Verdict(s)']
  BY DEF Verdict

LEMMA InitRefines == SendInit => S!Init
  BY DEF SendInit, NewCall, S!Init, Verdict

(* A step of a call that has not ended hands a copy over, learns that one  *)
(* is there, or does neither.                                              *)
LEMMA CallMoves ==
  ASSUME SendInv, NEW s \in Sends, FormStep(s) \/ MailStep(s)
  PROVE  /\ call[s].pc # "done"
         /\ \/ UNCHANGED <<handed, acked>>
            \/ /\ call'[s].pc # "done" /\ ~acked[s]
               /\ handed' = [handed EXCEPT ![s] = @ + 1] /\ acked' = acked
            \/ /\ call'[s].pc # "done" /\ handed[s] > 0
               /\ acked' = [acked EXCEPT ![s] = TRUE] /\ handed' = handed
<1> /\ DOMAIN call = Sends /\ call[s] \in Calls
    /\ Reached(call[s], handed[s], acked[s])
  BY DEF SendInv, CallInv, SendTypeOK
<1>1. CASE Post(s) \/ MailHanded(s)
  BY <1>1 DEF Post, MailHanded, Goes, Reached, Calls
<1>2. CASE PostAcknowledged(s) \/ MailAcknowledged(s)
  BY <1>2 DEF PostAcknowledged, MailAcknowledged, Goes, Reached, Calls
<1>3. CASE ~(Post(s) \/ MailHanded(s) \/ PostAcknowledged(s)
               \/ MailAcknowledged(s))
  BY <1>3 DEF FormStep, MailStep, Begin, Refuse, GetFails, GetAnswered,
       PageIsNoForm, PageIsForm, PostFails, PostRefused, ReadAnswer,
       MailFails, MailLost, MailReturns, history
<1> QED
  BY <1>1, <1>2, <1>3

LEMMA StepRefines == SendInv /\ [SendNext]_sendVars => [S!Next]_S!vars
<1> SUFFICES ASSUME SendInv, [SendNext]_sendVars PROVE S!Next \/ UNCHANGED S!vars
  BY DEF S!vars
<1> DEFINE V == [t \in Sends |-> Verdict(t)]
<1>1. CASE Stop
  BY <1>1 DEF Stop, history, S!vars, Verdict
<1>2. ASSUME NEW s \in Sends, FormStep(s) \/ MailStep(s)
      PROVE  S!Next \/ UNCHANGED S!vars
  <2>1. Verdict(s) = "open" /\ V[s] = "open"
    BY <1>2, CallMoves DEF Verdict
  <2>2. V' = [V EXCEPT ![s] = Verdict(s)']
    BY <1>2, Frame, VerdictMoves DEF SendInv, SendTypeOK
  (* An end is a conclusion, and what it says is true.                     *)
  <2>3. ASSUME UNCHANGED <<handed, acked>>, call'[s].pc = "done"
        PROVE  S!Next
    <3>1. Reached(call'[s], handed[s], acked[s])
      BY <1>2, <2>3, SendInvStep DEF SendInv, CallInv, SendNext
    <3>2. /\ Verdict(s)' \in S!Verdicts
          /\ Verdict(s)' = "accepted" => acked[s]
          /\ Verdict(s)' = "limited" => handed[s] = 0
      BY <2>3, <3>1 DEF Verdict, S!Verdicts, Reached
    <3>3. S!Conclude(s, Verdict(s)')
      BY <2>1, <2>2, <2>3, <3>2 DEF S!Conclude
    <3> QED
      BY <3>2, <3>3 DEF S!Next
  (* Any other step leaves the verdict open.                               *)
  <2>4. ASSUME call'[s].pc # "done" PROVE V' = V
    <3>1. Verdict(s)' = V[s]
      BY <2>1, <2>4 DEF Verdict
    <3>2. V = [V EXCEPT ![s] = V[s]]
      OBVIOUS
    <3> QED
      BY <2>2, <3>1, <3>2
  <2>5. ASSUME UNCHANGED <<handed, acked>>, call'[s].pc # "done"
        PROVE  UNCHANGED S!vars
    BY <2>4, <2>5 DEF S!vars
  <2>6. ASSUME call'[s].pc # "done", ~acked[s], acked' = acked,
               handed' = [handed EXCEPT ![s] = @ + 1]
        PROVE  S!Next
    <3> S!Hand(s)
      BY <2>1, <2>4, <2>6 DEF S!Hand
    <3> QED
      BY DEF S!Next
  <2>7. ASSUME call'[s].pc # "done", handed[s] > 0, handed' = handed,
               acked' = [acked EXCEPT ![s] = TRUE]
        PROVE  S!Next
    <3> S!Acknowledge(s)
      BY <2>1, <2>4, <2>7 DEF S!Acknowledge
    <3> QED
      BY DEF S!Next
  <2> QED
    BY <1>2, <2>3, <2>5, <2>6, <2>7, CallMoves
<1>3. CASE UNCHANGED sendVars
  BY <1>3 DEF sendVars, S!vars, Verdict
<1> QED
  BY <1>1, <1>2, <1>3 DEF SendNext

(* Sending implements Submission: a job is marked applied only if the      *)
(* remote side acknowledged it, queued for a retry only if nothing of it   *)
(* was sent, and posted no more once a post was acknowledged.              *)
THEOREM SendingImplementsSubmission == SendSpec => ImplementsSubmission
  BY InitSendInv, SendInvStep, InitRefines, StepRefines, PTL
     DEF SendSpec, ImplementsSubmission, S!Spec
=============================================================================
