----------------------------- MODULE MCScanner -----------------------------
(* A company's own page and a board that both list u1, the board under the *)
(* same company (j1, j2) or under another one (j3).  A task picks any set  *)
(* of the jobs as its listing, so one new job already makes two tasks      *)
(* meet; j1 may be there from an earlier session.                          *)
(*                                                                         *)
(* A behaviour of MCSpec is of the first session, in which both jobs are   *)
(* new and there is one scan, so that several tasks have jobs to count and *)
(* one may be cut off with a job announced; or of a later one, with j1 in  *)
(* the store and MaxScans scans.                                           *)
EXTENDS Scanner

CONSTANTS j1, j2, j3, acme, other, board, u1

TwoJobs == {j1, j2}
TheFirst == {j1}
None == {}
SharedJobs == {j1, j3}
OneCompany == {acme}
TwoCompanies == {acme, other}
MCCanons == {u1, NoUrl}
MCCompanyOf == [j \in Jobs |-> IF j = j3 THEN other ELSE acme]
MCCanonOf == [j \in Jobs |-> u1]
MCBoards == {board}

VARIABLE session

First == INSTANCE Scanner WITH Filed <- None

MCInit ==
  \/ session = "first" /\ First!Init
  \/ session = "later" /\ Init

MCNext == Next /\ (session = "first" => scans' <= 1) /\ UNCHANGED session

MCSpec == MCInit /\ [][MCNext]_<<vars, session>> /\ Fairness
=============================================================================
