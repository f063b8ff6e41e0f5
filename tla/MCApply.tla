------------------------------ MODULE MCApply ------------------------------
(* Listings of one aggregator's company, each with its own canonical URL.  *)
EXTENDS Apply, TLC

CONSTANTS j1, j2, board, u1, u2

OneJob == {j1}
TwoJobs == {j1, j2}
MCCompanies == {board}
MCCanons == {u1, u2}
MCCompanyOf == [j \in Jobs |-> board]
MCCanonOf == [j \in Jobs |-> IF j = j1 THEN u1 ELSE u2]
MCAggregators == {board}

(* No two listings share a posting, so the jobs, like the requests, are    *)
(* interchangeable.                                                        *)
Symmetry == Permutations(Jobs) \union Permutations(Requests)
=============================================================================
