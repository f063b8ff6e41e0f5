------------------------------ MODULE Sending -------------------------------
(***************************************************************************)
(* Sending one application: by mail, or through the form of a board, whose *)
(* page is fetched and whose answer is posted under one name for the CV    *)
(* after the other until one works.  An apply run has a context that never *)
(* ends; the retry worker's ends when the process is told to stop.         *)
(*                                                                         *)
(* One step is one exchange with the remote side: a request that reaches   *)
(* it, an answer that comes back, or the end of waiting for one.           *)
(***************************************************************************)
EXTENDS Naturals

CONSTANTS
  Sends,       (* calls of applyViaEmail or ApplyJob, each for one job     *)
  FromWorker,  (* those of the retry worker                                *)
  FileNames    (* the usual names of the field for the CV; a form may have *)
               (* another, which is tried before them                      *)

ASSUME SendingAssumption ==
  /\ FromWorker \subseteq Sends
  /\ FileNames \in Nat \ {0}

VARIABLES
  call,      (* per call: where it is, names left, and the result          *)
  handed,    (* history: the copies that have reached the remote side      *)
  acked,     (* history: the remote side has answered that it has one      *)
  stopped    (* the worker's context has ended                             *)

sendVars == <<call, handed, acked, stopped>>
history == <<handed, acked>>

Codes == {"200", "429", "other"}   (* of the answer to the GET             *)

NewCall(via) ==
  [pc |-> "start", via |-> via, left |-> 0, status |-> "none", ok |-> FALSE]

SendInit ==
  /\ call \in [Sends -> {NewCall(via) : via \in {"mail", "form", "none"}}]
  /\ handed = [s \in Sends |-> 0]
  /\ acked = [s \in Sends |-> FALSE]
  /\ stopped = FALSE

Cut(s) == stopped /\ s \in FromWorker

Goes(s, pc) == call' = [call EXCEPT ![s].pc = pc]
Returns(s, ok) == call' = [call EXCEPT ![s].pc = "done", ![s].ok = ok]

-----------------------------------------------------------------------------

Begin(s) ==
  /\ call[s].pc = "start"
  /\ \/ call[s].via = "form" /\ Goes(s, "get")
     \/ call[s].via = "mail" /\ Goes(s, "compose")
  /\ UNCHANGED <<history, stopped>>

(* The source takes no applications, or the configuration, the CV or the   *)
(* job's URL is not fit for one.                                           *)
Refuse(s) ==
  /\ call[s].pc = "start"
  /\ Returns(s, FALSE)
  /\ UNCHANGED <<history, stopped>>

-----------------------------------------------------------------------------
(* The form.                                                               *)

GetFails(s) ==
  /\ call[s].pc = "get"
  /\ Returns(s, FALSE)
  /\ UNCHANGED <<history, stopped>>

GetAnswered(s, code) ==
  /\ call[s].pc = "get" /\ ~Cut(s)
  /\ call' = [call EXCEPT ![s].pc = "page", ![s].status = code]
  /\ UNCHANGED <<history, stopped>>

(* Not OK, cut short, not to be parsed, or without a form to post.  The    *)
(* result keeps the status.                                                *)
PageIsNoForm(s) ==
  /\ call[s].pc = "page"
  /\ Returns(s, FALSE)
  /\ UNCHANGED <<history, stopped>>

(* Mutant of PageIsForm: the page is parsed whatever its status.           *)
PageIsFormUnlessGone(s) ==
  /\ call[s].pc = "page"
  /\ \E names \in {FileNames, FileNames + 1} :
       call' = [call EXCEPT ![s].pc = "post", ![s].left = names]
  /\ UNCHANGED <<history, stopped>>

PageIsForm(s) ==
  /\ call[s].pc = "page" /\ call[s].status = "200"
  /\ \E names \in {FileNames, FileNames + 1} :
       call' = [call EXCEPT ![s].pc = "post", ![s].left = names]
  /\ UNCHANGED <<history, stopped>>

(* An attempt that ended in an error makes way for the next name.          *)
NextName(s) ==
  call' = [call EXCEPT ![s].pc = IF call[s].left > 1 THEN "post" ELSE "done",
                       ![s].left = @ - 1]

(* The CV cannot be read, or the request does not get out.                 *)
PostFails(s) ==
  /\ call[s].pc = "post"
  /\ NextName(s)
  /\ UNCHANGED <<history, stopped>>

Post(s) ==
  /\ call[s].pc = "post" /\ ~Cut(s)
  /\ Goes(s, "posted")
  /\ handed' = [handed EXCEPT ![s] = @ + 1]
  /\ UNCHANGED <<acked, stopped>>

(* Any answer but success is an error, a 429 like the others; and so is    *)
(* none within 45 seconds, or before the context ends.                     *)
PostRefused(s) ==
  /\ call[s].pc = "posted"
  /\ NextName(s)
  /\ UNCHANGED <<history, stopped>>

PostAcknowledged(s) ==
  /\ call[s].pc = "posted"
  /\ Goes(s, "acked")
  /\ acked' = [acked EXCEPT ![s] = TRUE]
  /\ UNCHANGED <<handed, stopped>>

(* The text of the answer may deny what its status says; the attempt is    *)
(* through either way.                                                     *)
ReadAnswer(s) ==
  /\ call[s].pc = "acked"
  /\ \E ok \in BOOLEAN : Returns(s, ok)
  /\ UNCHANGED <<history, stopped>>

-----------------------------------------------------------------------------
(* The mail.                                                               *)

(* Anything up to the message itself: the attachment, the connection, the  *)
(* sender or the recipient.                                                *)
MailFails(s) ==
  /\ call[s].pc = "compose"
  /\ Returns(s, FALSE)
  /\ UNCHANGED <<history, stopped>>

MailHanded(s) ==
  /\ call[s].pc = "compose"
  /\ Goes(s, "mailing")
  /\ handed' = [handed EXCEPT ![s] = @ + 1]
  /\ UNCHANGED <<acked, stopped>>

MailLost(s) ==
  /\ call[s].pc = "mailing"
  /\ Returns(s, FALSE)
  /\ UNCHANGED <<history, stopped>>

MailAcknowledged(s) ==
  /\ call[s].pc = "mailing"
  /\ Goes(s, "mailed")
  /\ acked' = [acked EXCEPT ![s] = TRUE]
  /\ UNCHANGED <<handed, stopped>>

(* An error while taking leave of the server is an error of Send.          *)
MailReturns(s) ==
  /\ call[s].pc = "mailed"
  /\ \E ok \in BOOLEAN : Returns(s, ok)
  /\ UNCHANGED <<history, stopped>>

-----------------------------------------------------------------------------

Stop ==
  /\ ~stopped
  /\ stopped' = TRUE
  /\ UNCHANGED <<call, history>>

FormStep(s) ==
  \/ Begin(s) \/ Refuse(s)
  \/ GetFails(s) \/ PageIsNoForm(s) \/ PageIsForm(s)
  \/ \E code \in Codes : GetAnswered(s, code)
  \/ PostFails(s) \/ Post(s) \/ PostRefused(s) \/ PostAcknowledged(s)
  \/ ReadAnswer(s)

MailStep(s) ==
  MailFails(s) \/ MailHanded(s) \/ MailLost(s) \/ MailAcknowledged(s)
    \/ MailReturns(s)

SendNext == Stop \/ \E s \in Sends : FormStep(s) \/ MailStep(s)

SendSpec == SendInit /\ [][SendNext]_sendVars

-----------------------------------------------------------------------------
(* Properties.                                                             *)

FormPcs == {"get", "page", "post", "posted", "acked"}
MailPcs == {"compose", "mailing", "mailed"}

Calls ==
  [pc : {"start", "done"} \union FormPcs \union MailPcs,
   via : {"mail", "form", "none"}, left : 0 .. FileNames + 1,
   status : Codes \union {"none"}, ok : BOOLEAN]

(* The types.  A call of ApplyJobs posts at most once per candidate name,  *)
(* and a mail goes out once.                                               *)
SendTypeOK ==
  /\ call \in [Sends -> Calls]
  /\ handed \in [Sends -> 0 .. FileNames + 1]
  /\ acked \in [Sends -> BOOLEAN]
  /\ stopped \in BOOLEAN

(* How its callers read a result, ok before the status (http.go and        *)
(* rate_limit_retry.go).                                                   *)
Verdict(s) ==
  IF call[s].pc # "done" THEN "open"
  ELSE IF call[s].ok THEN "accepted"
  ELSE IF call[s].status = "429" THEN "limited"
  ELSE "failed"

S == INSTANCE Submission WITH verdict <- [s \in Sends |-> Verdict(s)]

(* Sending is a Submission.  A job that is marked applied was acknowledged *)
(* by the remote side; one that is queued for a retry never reached it, so *)
(* the retry cannot make a second copy; and "Try posting with candidates   *)
(* until one works" stops at the first acknowledged post.                  *)
ImplementsSubmission == S!Spec
=============================================================================
