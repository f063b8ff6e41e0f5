------------------------------- MODULE MCFeed --------------------------------
(* Two companies that have a feed, and three listings: j1 and j2 are two     *)
(* scrapes of one posting, j3 is another posting of the other company.  The  *)
(* behaviours begin either with the monitor, or with the store alone under   *)
(* any order of all its statements.                                          *)
EXTENDS FeedMonitor, TLC

CONSTANTS j1, j2, j3, acme, board, u1, u2

MCJobs == {j1, j2, j3}
MCFeeds == <<acme, board>>
MCCompanies == {acme, board}
MCCanons == {u1, u2}
MCCompanyOf == (j1 :> acme) @@ (j2 :> acme) @@ (j3 :> board)
MCCanonOf == (j1 :> u1) @@ (j2 :> u1) @@ (j3 :> u1)

VARIABLE part

FeedAndStoreInit == FeedInit /\ part \in {"monitor", "store"}

FeedAndStoreNext ==
  \/ part = "monitor" /\ FeedNext /\ UNCHANGED part
  \/ part = "store" /\ StoreNext /\ UNCHANGED <<part, monitorVars>>

FeedAndStoreSpec ==
  FeedAndStoreInit /\ [][FeedAndStoreNext]_<<part, feedVars>> /\ Fairness
=============================================================================
