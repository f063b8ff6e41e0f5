---------------------------- MODULE MCTaskGroups ----------------------------
(* Some sources with pages of a few anchors, the first of which is no link *)
(* to a job.                                                               *)
EXTENDS TaskGroups

AllButTheFirst == [s \in Sources |-> 2 .. Anchors]
=============================================================================
