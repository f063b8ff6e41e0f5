------------------------------ MODULE Breaker --------------------------------
(***************************************************************************)
(* What a circuit breaker promises its callers, without its clock: it trips *)
(* with the MaxFailures-th failure in a row, and it trusts the other side   *)
(* again only when HalfOpenLimit calls have succeeded since a failure made  *)
(* it trip for the last time.  A failure in between that is not the         *)
(* MaxFailures-th in a row takes none of these successes back.              *)
(***************************************************************************)
EXTENDS Naturals

CONSTANTS MaxFailures, HalfOpenLimit

VARIABLES tripped,
          bad,     \* calls that failed since one succeeded
          good     \* calls that succeeded since the breaker tripped

vars == <<tripped, bad, good>>

Init == tripped = FALSE /\ bad = 0 /\ good = 0

Fail ==
  /\ bad' = bad + 1
  /\ tripped' = (tripped \/ bad' >= MaxFailures)
  /\ good' = IF bad' >= MaxFailures THEN 0 ELSE good

Succeed ==
  /\ bad' = 0
  /\ \/ /\ tripped /\ good + 1 < HalfOpenLimit
        /\ good' = good + 1
        /\ UNCHANGED tripped
     \/ /\ tripped /\ good + 1 >= HalfOpenLimit
        /\ good' = 0
        /\ tripped' = FALSE
     \/ /\ ~tripped
        /\ UNCHANGED <<tripped, good>>

Next == Fail \/ Succeed

Spec == Init /\ [][Next]_vars
==============================================================================
