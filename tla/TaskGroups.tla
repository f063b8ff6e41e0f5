----------------------------- MODULE TaskGroups -----------------------------
(***************************************************************************)
(* Groups of tasks within tasks.  The scan runs one task per source on the *)
(* worker pool; a source that reads a page of anchors submits one task per *)
(* anchor to the same pool, in a group bound to its context, waits for the *)
(* group and returns what the tasks have collected.                        *)
(*                                                                         *)
(* The pool and its groups are a library (pond): a worker runs one task at *)
(* a time; Submit blocks while every worker is busy and the queue is full; *)
(* a group's task is skipped once the group's context is done, which is    *)
(* when the caller's is or when one of its tasks has returned an error;    *)
(* Wait returns when the tasks are through or the context is done.         *)
(***************************************************************************)
EXTENDS Naturals, Sequences, FiniteSets

CONSTANTS
  Sources,   (* the sources of a scan that read anchors                    *)
  Anchors,   (* a page has the anchors 1 .. Anchors                        *)
  JobLinks,  (* those of each source's page that are links to jobs         *)
  Strict,    (* the generic sources: any other anchor is an error          *)
  Workers, Queue

ASSUME TaskGroupsAssumption ==
  /\ Anchors \in Nat
  /\ JobLinks \in [Sources -> SUBSET (1 .. Anchors)]
  /\ Strict \subseteq Sources
  /\ Workers \in Nat \ {0} /\ Queue \in Nat

VARIABLES
  pc,       (* per source: its task                                        *)
  next,     (* the anchor it submits next                                  *)
  over,     (* why its group's context is done, or "no"                    *)
  items,    (* what the group has collected                                *)
  returned, (* what the source has returned                                *)
  queue,    (* the tasks in the pool's queue, <<source, anchor>>; the task *)
  running   (* of a source itself is <<source, 0>>; and those on workers   *)

groupsVars == <<pc, next, over, items, returned, queue, running>>

GroupOf(s) == {s} \X (1 .. Anchors)

Unfinished(s) ==
  GroupOf(s) \intersect (running \union {queue[i] : i \in DOMAIN queue})

-----------------------------------------------------------------------------
(* The pool.                                                               *)

Submit(t) ==
  /\ Cardinality(running) + Len(queue) < Workers + Queue
  /\ queue' = Append(queue, t)

Skipped(t) == t[2] # 0 /\ over[t[1]] # "no"

(* A worker takes the next task.                                           *)
Take ==
  LET t == Head(queue) IN
  /\ queue # <<>> /\ Cardinality(running) < Workers
  /\ queue' = Tail(queue)
  /\ running' = IF Skipped(t) THEN running ELSE running \union {t}
  /\ pc' = IF t[2] = 0 THEN [pc EXCEPT ![t[1]] = "browse"] ELSE pc
  /\ UNCHANGED <<next, over, items, returned>>

(* An error, the first one, ends the context of the group.                 *)
GroupEnds(s, why) == over' = [over EXCEPT ![s] = IF @ = "no" THEN why ELSE @]

-----------------------------------------------------------------------------
(* A source.                                                               *)

(* The scan submits its sources.                                           *)
Send(s) ==
  /\ pc[s] = "unsent"
  /\ Submit(<<s, 0>>)
  /\ pc' = [pc EXCEPT ![s] = "queued"]
  /\ UNCHANGED <<next, over, items, returned, running>>

(* The browser has the anchors, or has none to give.                       *)
Browse(s) ==
  /\ pc[s] = "browse"
  /\ pc' = [pc EXCEPT ![s] = "submit"]
  /\ UNCHANGED <<next, over, items, returned, queue, running>>

BrowseFails(s) ==
  /\ pc[s] = "browse"
  /\ pc' = [pc EXCEPT ![s] = "done"]
  /\ running' = running \ {<<s, 0>>}
  /\ over' = [over EXCEPT ![s] = "failed"]
  /\ UNCHANGED <<next, items, returned, queue>>

(* The loop does not look at the context between two anchors.              *)
SubmitAnchor(s) ==
  /\ pc[s] = "submit" /\ next[s] <= Anchors
  /\ Submit(<<s, next[s]>>)
  /\ next' = [next EXCEPT ![s] = @ + 1]
  /\ UNCHANGED <<pc, over, items, returned, running>>

SubmittedAll(s) ==
  /\ pc[s] = "submit" /\ next[s] > Anchors
  /\ pc' = [pc EXCEPT ![s] = "wait"]
  /\ UNCHANGED <<next, over, items, returned, queue, running>>

(* Mutant of Collect: a link that is not a job is an error for all.        *)
CollectStrictly(s, i) ==
  /\ <<s, i>> \in running /\ i # 0
  /\ running' = running \ {<<s, i>>}
  /\ IF i \in JobLinks[s]
       THEN items' = [items EXCEPT ![s] = @ \union {i}] /\ UNCHANGED over
       ELSE GroupEnds(s, "error") /\ UNCHANGED items
  /\ UNCHANGED <<pc, next, returned, queue>>

(* The task of an anchor: a link to a job is appended under the mutex.     *)
Collect(s, i) ==
  /\ <<s, i>> \in running /\ i # 0
  /\ running' = running \ {<<s, i>>}
  /\ IF i \in JobLinks[s]
       THEN items' = [items EXCEPT ![s] = @ \union {i}] /\ UNCHANGED over
       ELSE /\ IF s \in Strict THEN GroupEnds(s, "error") ELSE UNCHANGED over
            /\ UNCHANGED items
  /\ UNCHANGED <<pc, next, returned, queue>>

(* Mutant of Wait: the group is not waited for.                            *)
WaitForNothing(s) ==
  /\ pc[s] = "wait"
  /\ pc' = [pc EXCEPT ![s] = "read"]
  /\ UNCHANGED <<next, over, items, returned, queue, running>>

Wait(s) ==
  /\ pc[s] = "wait"
  /\ Unfinished(s) = {} \/ over[s] # "no"
  /\ pc' = [pc EXCEPT ![s] = "read"]
  /\ UNCHANGED <<next, over, items, returned, queue, running>>

(* The collected items are read without the mutex.                         *)
ReturnItems(s) ==
  /\ pc[s] = "read"
  /\ pc' = [pc EXCEPT ![s] = "done"]
  /\ returned' = [returned EXCEPT ![s] = items[s]]
  /\ running' = running \ {<<s, 0>>}
  /\ UNCHANGED <<next, over, items, queue>>

(* Mutant of GroupDeadline: a group unbound to the caller's context.       *)
GroupDeadlineUnbound(s) ==
  /\ pc[s] \in {"submit", "wait"} /\ over[s] = "no"
  /\ UNCHANGED groupsVars

(* The caller's 300 s are over.                                            *)
GroupDeadline(s) ==
  /\ pc[s] \in {"submit", "wait"} /\ over[s] = "no"
  /\ GroupEnds(s, "deadline")
  /\ UNCHANGED <<pc, next, items, returned, queue, running>>

-----------------------------------------------------------------------------

Source(s) ==
  \/ Send(s)
  \/ Browse(s) \/ BrowseFails(s)
  \/ SubmitAnchor(s) \/ SubmittedAll(s)
  \/ Wait(s) \/ ReturnItems(s)

GroupsInit ==
  /\ pc = [s \in Sources |-> "unsent"]
  /\ next = [s \in Sources |-> 1]
  /\ over = [s \in Sources |-> "no"]
  /\ items = [s \in Sources |-> {}]
  /\ returned = [s \in Sources |-> {}]
  /\ queue = <<>> /\ running = {}

GroupsNext ==
  \/ Take
  \/ \E s \in Sources : Source(s) \/ GroupDeadline(s)
  \/ \E s \in Sources, i \in 1 .. Anchors : Collect(s, i)

GroupsSpec == GroupsInit /\ [][GroupsNext]_groupsVars

(* Workers run their tasks, the browser answers or times out, deadlines    *)
(* come.                                                                   *)
GroupsFairness ==
  /\ WF_groupsVars(Take)
  /\ \A s \in Sources : WF_groupsVars(Source(s)) /\ WF_groupsVars(GroupDeadline(s))
  /\ \A s \in Sources, i \in 1 .. Anchors : WF_groupsVars(Collect(s, i))

FairGroupsSpec == GroupsSpec /\ GroupsFairness

-----------------------------------------------------------------------------

OnWorker == {"browse", "submit", "wait", "read"}

GroupsTypeOK ==
  /\ pc \in [Sources -> {"unsent", "queued", "done"} \union OnWorker]
  /\ next \in [Sources -> 1 .. Anchors + 1]
  /\ over \in [Sources -> {"no", "error", "deadline", "failed"}]
  /\ DOMAIN items = Sources /\ DOMAIN returned = Sources
  /\ \A s \in Sources : items[s] \subseteq JobLinks[s] /\ returned[s] \subseteq JobLinks[s]
  /\ queue \in Seq(Sources \X (0 .. Anchors))
  /\ Cardinality(running) + Len(queue) <= Workers + Queue
  /\ running \subseteq Sources \X (0 .. Anchors)
  /\ Cardinality(running) <= Workers

(* A source that returns in time returns every link to a job on its page,  *)
(* in whatever order the pool has run its tasks; a generic source only     *)
(* while every anchor is one, as any other ends the group.                 *)
ReturnsEveryJobLink ==
  \A s \in Sources :
    pc[s] = "done" /\ over[s] \in {"no", "error"} /\ (s \in Strict => over[s] = "no")
      => returned[s] = JobLinks[s]

(* What was read without the mutex was the final value: unless the group   *)
(* was cut short, none of its tasks appends while or after the source      *)
(* reads.                                                                  *)
ReadsAFinishedGroup ==
  [][\A s \in Sources :
       pc[s] \in {"read", "done"} /\ over[s] = "no" => items'[s] = items[s]]_groupsVars

(* Every source gives its worker back, with its deadline at the latest, if *)
(* the queue can take every task: a full pool of sources that wait for     *)
(* tasks queued behind them is not stuck for ever.                         *)
SourcesEnd == <>(\A s \in Sources : pc[s] = "done")

(* "Create a per-call group bound to ctx (supports timeout/cancel)": once  *)
(* its deadline has passed, a source returns.                              *)
TimeoutIsSupported ==
  \A s \in Sources : (over[s] = "deadline") ~> (pc[s] = "done")
=============================================================================
