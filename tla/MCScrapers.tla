----------------------------- MODULE MCScrapers -----------------------------
(* The sources of jobs: a walk over the pages of a board and the             *)
(* applications to its jobs, the groups of tasks on the shared pool, and the *)
(* pages of a company's site.  A behaviour is about one of them, and the     *)
(* others are at rest: their state spaces add up and do not multiply.        *)
(*                                                                           *)
(* The walk: three pages that list jobs, of which one is known, one is unfit *)
(* and one is new; pages in a row, in a circle, and each linking to all.     *)
EXTENDS PageWalk, Sending, TaskGroups, JobPages, TLC

CONSTANTS p1, p2, p3, new, known, unfit

Row == (p1 :> {p2}) @@ (p2 :> {p3}) @@ (p3 :> {})
Circle == (p1 :> {p2}) @@ (p2 :> {p3}) @@ (p3 :> {p1})
Web == [p \in {p1, p2, p3} |-> {p1, p2, p3}]
SomeSites == {Row, Circle, Web}

OneEach == (p1 :> {new, known}) @@ (p2 :> {new, unfit}) @@ (p3 :> {unfit})

(* Two pages whose first anchor is no link to a job, and one of links only.  *)
FullPage == CHOOSE s \in Strict : TRUE
JobLinksOf == [s \in Sources |-> IF s = FullPage THEN 1 .. Anchors ELSE 2 .. Anchors]

VARIABLE part

NoWalk ==
  /\ board = "sta" /\ site = Row
  /\ walk = [pc |-> "done", page |-> NoPage, next |-> NoPage, todo |-> {},
             found |-> {}, all |-> {}]
  /\ result = [jobs |-> {}, failed |-> FALSE]
  /\ cut = FALSE
  /\ opened = [p \in Pages |-> 0]
  /\ listed = {} /\ missed = {}

NoSending == \A s \in Sends : call[s].via = "none"

(* Sources that had nothing to read.                                         *)
NoGroups ==
  /\ pc = [s \in Sources |-> "done"]
  /\ next = [s \in Sources |-> 1]
  /\ over = [s \in Sources |-> "failed"]
  /\ items = [s \in Sources |-> {}] /\ returned = [s \in Sources |-> {}]
  /\ queue = <<>> /\ running = {}

ScrapersInit ==
  /\ part \in {"walk", "sending", "groups", "pages"}
  /\ IF part = "walk" THEN WalkInit ELSE NoWalk
  /\ SendInit /\ (part # "sending" => NoSending)
  /\ IF part = "groups" THEN GroupsInit ELSE NoGroups
  /\ PagesInit /\ (part # "pages" => scraper = "ai21")

ScrapersNext ==
  \/ part = "walk" /\ WalkNext /\ UNCHANGED <<part, sendVars, groupsVars, pagesVars>>
  \/ part = "sending" /\ SendNext /\ UNCHANGED <<part, walkVars, groupsVars, pagesVars>>
  \/ part = "groups" /\ GroupsNext /\ UNCHANGED <<part, walkVars, sendVars, pagesVars>>
  \/ part = "pages" /\ PagesNext /\ UNCHANGED <<part, walkVars, sendVars, groupsVars>>

ScrapersSpec ==
  /\ ScrapersInit
  /\ [][ScrapersNext]_<<part, walkVars, sendVars, groupsVars, pagesVars>>
  /\ part = "walk" => WalkFairness
  /\ part = "groups" => GroupsFairness
=============================================================================
