---------------------------- MODULE FeedMonitor ------------------------------
(***************************************************************************)
(* Monitor of internal/feed: Start begins a first round of polls and a     *)
(* goroutine that polls at every tick; the two may poll at the same time.  *)
(* A round asks one feed after the other and files its items, which        *)
(* ConvertItemsToJobs puts under the feed's name, through the repository,  *)
(* beside its other clients.  Stop cancels the context and waits.          *)
(***************************************************************************)
EXTENDS JobStore, Sequences

CONSTANTS Feeds,       \* the active RSS feeds in the registry's order, by name
          MaxItems,    \* jobs a feed gives
          MaxRounds,   \* rounds of the ticking goroutine that are followed
          KeepUpdates  \* 100 in the code

ASSUME FeedAssumption ==
  /\ Feeds \in Seq(Companies) /\ Feeds # <<>>
  /\ MaxItems \in Nat /\ MaxRounds \in Nat /\ KeepUpdates \in Nat \ {0}

VARIABLES poll,     \* the goroutines: where each is and its locals
          rounds,   \* ticks taken
          updates,  \* FeedUpdates, the latest last
          cancelled,\* m.ctx is done
          stop      \* where the call of Stop is

monitorVars == <<poll, rounds, updates, cancelled, stop>>
feedVars == <<monitorVars, storeVars>>

Pollers == {"first", "ticking"}

\* The locals of pollOnce and pollFeed.
Locals == [pc : {"out", "wait", "parse", "item", "exited"},
           feed : 1..Len(Feeds) + 1,
           found : 0..MaxItems,
           left : 0..MaxItems,       \* jobs still to file
           upserted : 0..MaxItems,   \* newCount
           cached : BOOLEAN]         \* the company is in companyCache
At(pc, i) == [pc |-> pc, feed |-> i, found |-> 0, left |-> 0, upserted |-> 0, cached |-> FALSE]

FeedTypeOK ==
  /\ poll \in [Pollers -> Locals]
  /\ rounds \in 0..MaxRounds
  /\ updates \in Seq([feed : Companies, ok : BOOLEAN, found : Nat, upserted : Nat])
  /\ cancelled \in BOOLEAN
  /\ stop \in {"out", "waiting", "returned"}

FeedInit ==
  /\ StoreInit
  /\ poll = [p \in Pollers |-> At("out", 1)]
  /\ rounds = 0
  /\ updates = <<>>
  /\ cancelled = FALSE
  /\ stop = "out"

Start ==
  /\ \A p \in Pollers : poll[p].pc = "out"
  /\ stop = "out"
  /\ poll' = [first |-> At("parse", 1), ticking |-> At("wait", 1)]
  /\ UNCHANGED <<rounds, updates, cancelled, stop, storeVars>>

\* A tick and the end of the context may both be there for the select.
Ticks ==
  /\ poll["ticking"].pc = "wait" /\ rounds < MaxRounds
  /\ poll' = [poll EXCEPT !["ticking"] = At("parse", 1)]
  /\ rounds' = rounds + 1
  /\ UNCHANGED <<updates, cancelled, stop, storeVars>>

RunReturns ==
  /\ poll["ticking"].pc = "wait" /\ cancelled
  /\ poll' = [poll EXCEPT !["ticking"].pc = "exited"]
  /\ UNCHANGED <<rounds, updates, cancelled, stop, storeVars>>

\* addUpdate, and on to the next feed or out of the round.
Report(p, ok) ==
  LET me == poll[p]
      all == Append(updates, [feed |-> Feeds[me.feed], ok |-> ok,
                              found |-> me.found, upserted |-> me.upserted])
  IN  /\ updates' = IF Len(all) > KeepUpdates THEN Tail(all) ELSE all
      /\ poll' = [poll EXCEPT ![p] =
           IF me.feed < Len(Feeds) THEN At("parse", me.feed + 1)
           ELSE IF p = "first" THEN At("exited", 1)
           ELSE At("wait", 1)]
      /\ UNCHANGED <<rounds, cancelled, stop>>

ParseFeed(p) ==
  /\ poll[p].pc = "parse" /\ ~cancelled
  /\ \E n \in 0..MaxItems :
       poll' = [poll EXCEPT ![p].pc = "item", ![p].found = n, ![p].left = n]
  /\ UNCHANGED <<rounds, updates, cancelled, stop, storeVars>>

\* A bad status, a feed that is no XML, the round's five minutes are over.
ParseFeedFails(p) ==
  /\ poll[p].pc = "parse"
  /\ Report(p, FALSE)
  /\ UNCHANGED storeVars

GetCompany(p) ==
  /\ poll[p].pc = "item" /\ poll[p].left > 0 /\ ~poll[p].cached
  /\ ~cancelled
  /\ UpsertCompanyByName(Feeds[poll[p].feed])
  /\ poll' = [poll EXCEPT ![p].cached = TRUE]
  /\ UNCHANGED <<rounds, updates, cancelled, stop>>

StoreItem(p) ==
  /\ poll[p].pc = "item" /\ poll[p].left > 0 /\ poll[p].cached
  /\ ~cancelled
  /\ \E j \in Jobs : CompanyOf[j] = Feeds[poll[p].feed] /\ UpsertJob(j)
  /\ poll' = [poll EXCEPT ![p].left = @ - 1, ![p].upserted = @ + 1]
  /\ UNCHANGED <<rounds, updates, cancelled, stop>>

\* Either statement fails and the job is skipped.
SkipItem(p) ==
  /\ poll[p].pc = "item" /\ poll[p].left > 0
  /\ poll' = [poll EXCEPT ![p].left = @ - 1]
  /\ UNCHANGED <<rounds, updates, cancelled, stop, storeVars>>

EndFeed(p) ==
  /\ poll[p].pc = "item" /\ poll[p].left = 0
  /\ Report(p, TRUE)
  /\ UNCHANGED storeVars

\* Stops the ticker and not the goroutine (mutant).
CallStopUncancelled ==
  /\ stop = "out" /\ poll["first"].pc # "out"
  /\ stop' = "waiting"
  /\ UNCHANGED <<poll, rounds, updates, cancelled, storeVars>>

CallStop ==
  /\ stop = "out" /\ poll["first"].pc # "out"
  /\ stop' = "waiting"
  /\ cancelled' = TRUE
  /\ UNCHANGED <<poll, rounds, updates, storeVars>>

\* Waits for the goroutine that ticks only (mutant).
StopReturnsEarly ==
  /\ stop = "waiting"
  /\ poll["ticking"].pc = "exited"
  /\ stop' = "returned"
  /\ UNCHANGED <<poll, rounds, updates, cancelled, storeVars>>

StopReturns ==
  /\ stop = "waiting"
  /\ \A p \in Pollers : poll[p].pc = "exited"
  /\ stop' = "returned"
  /\ UNCHANGED <<poll, rounds, updates, cancelled, storeVars>>

PollStep(p) == ParseFeed(p) \/ ParseFeedFails(p) \/ GetCompany(p) \/ StoreItem(p)
                 \/ SkipItem(p) \/ EndFeed(p)

\* The page and the apply run work on the same rows.
OtherClients ==
  /\ \E j \in rows : ApplyJobs({j}) \/ BanJobs({j}) \/ DeleteJobs({j})
  /\ UNCHANGED monitorVars

FeedNext ==
  \/ Start \/ Ticks \/ RunReturns \/ CallStop \/ StopReturns
  \/ \E p \in Pollers : PollStep(p)
  \/ OtherClients

\* Requests have the timeout of the round, statements return, and a goroutine
\* that may run does.  Neither a tick nor Stop has to come.
Fairness ==
  /\ WF_feedVars(RunReturns) /\ WF_feedVars(StopReturns)
  /\ \A p \in Pollers : WF_feedVars(PollStep(p))

FeedSpec == FeedInit /\ [][FeedNext]_feedVars /\ Fairness

------------------------------------------------------------------------------

\* When Stop has returned nobody polls any more: no report comes, and no
\* goroutine of the monitor touches the store (monitor.go:98).
StopIsFinal ==
  [][stop = "returned" => UNCHANGED <<poll, updates, rounds>>]_feedVars

\* Stop returns although a round is under way, in every stage of a feed, and
\* although a tick may win against the end of the context (monitor.go:105).
StopEnds == stop = "waiting" ~> stop = "returned"
==============================================================================
