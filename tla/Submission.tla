----------------------------- MODULE Submission -----------------------------
(***************************************************************************)
(* What the senders of applications rely on: an apply run marks a job when *)
(* its application was accepted and queues it for the retry worker when it *)
(* was rate limited (http.go, rate_limit_retry.go).  Neither looks at how  *)
(* the application travels.  Sending implements this.                      *)
(***************************************************************************)
EXTENDS Naturals

CONSTANT Sends   (* applications being sent                                *)

VARIABLES
  verdict,  (* what its sender has been told, "open" before                *)
  handed,   (* the copies that have reached the remote side                *)
  acked     (* the remote side has said that it has it                     *)

vars == <<verdict, handed, acked>>

Verdicts == {"accepted", "limited", "failed"}

Init ==
  /\ verdict = [s \in Sends |-> "open"]
  /\ handed = [s \in Sends |-> 0]
  /\ acked = [s \in Sends |-> FALSE]

(* A further copy is handed over only while none is known to be there.     *)
Hand(s) ==
  /\ verdict[s] = "open" /\ ~acked[s]
  /\ handed' = [handed EXCEPT ![s] = @ + 1]
  /\ UNCHANGED <<verdict, acked>>

Acknowledge(s) ==
  /\ verdict[s] = "open" /\ handed[s] > 0
  /\ acked' = [acked EXCEPT ![s] = TRUE]
  /\ UNCHANGED <<verdict, handed>>

(* Who marks the job needs to know that it is there, who queues it that it *)
(* is not.  A failure says neither.                                        *)
Conclude(s, v) ==
  /\ verdict[s] = "open"
  /\ v = "accepted" => acked[s]
  /\ v = "limited" => handed[s] = 0
  /\ verdict' = [verdict EXCEPT ![s] = v]
  /\ UNCHANGED <<handed, acked>>

Next ==
  \E s \in Sends :
    \/ Hand(s)
    \/ Acknowledge(s)
    \/ \E v \in Verdicts : Conclude(s, v)

Spec == Init /\ [][Next]_vars
=============================================================================
