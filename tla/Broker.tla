------------------------------- MODULE Broker -------------------------------
(***************************************************************************)
(* The event broker behind GET /api/scan/stream: the map of clients with   *)
(* one bounded channel each, the stream handlers that drain them, the      *)
(* goroutines that broadcast, and Close.                                   *)
(*                                                                         *)
(* Register, Unregister and Close hold the write lock and are one step     *)
(* each.  Broadcast holds the read lock: several broadcasts may be going   *)
(* on at once, each offering its event to one client after the other.      *)
(***************************************************************************)
EXTENDS Naturals, Sequences, FiniteSets

CONSTANTS
  Streams,    (* connections to /api/scan/stream                           *)
  Ids,        (* client ids: the clock when the connection came in         *)
  Producers,  (* goroutines that broadcast, one event after the other      *)
  MaxEvents,  (* bound on the events of one producer                       *)
  Capacity,   (* of a client's Messages channel                            *)
  NoStream    (* no client under an id                                     *)

ASSUME BrokerAssumption ==
  /\ NoStream \notin Streams
  /\ MaxEvents \in Nat /\ Capacity \in Nat \ {0}

(* A handler broadcasts the scan status to everyone when it starts.        *)
Senders == Producers \union Streams

VARIABLES
  clients,   (* Broker.clients: the stream registered under an id          *)
  closed,    (* Broker.closed                                              *)
  chan,      (* per stream: its client's Messages channel                  *)
  shut,      (* per stream: its client's Messages and Done are closed      *)
  stream,    (* per stream: its handler                                    *)
  idOf,      (* per stream: its clientID                                   *)
  sending,   (* per sender: the broadcast it is in, if any                 *)
  sent,      (* history: events a sender has broadcast                     *)
  seen       (* history: what each stream wrote to its connection          *)

vars == <<clients, closed, chan, shut, stream, idOf, sending, sent, seen>>

-----------------------------------------------------------------------------

Registered == {clients[i] : i \in Ids} \ {NoStream}

(* to: the clients still to be offered the event.                          *)
Idle == [on |-> FALSE, to |-> {}]

ReadLocked == \E p \in Senders : sending[p].on

Init ==
  /\ clients = [i \in Ids |-> NoStream]
  /\ closed = FALSE
  /\ chan = [s \in Streams |-> <<>>]
  /\ shut = [s \in Streams |-> FALSE]
  /\ stream = [s \in Streams |-> "new"]
  /\ idOf \in [Streams -> Ids]
  /\ sending = [p \in Senders |-> Idle]
  /\ sent = [p \in Senders |-> 0]
  /\ seen = [s \in Streams |-> <<>>]

(* A client under the same id is overwritten.                              *)
Register(s) ==
  /\ stream[s] = "new" /\ ~ReadLocked /\ ~closed
  /\ clients' = [clients EXCEPT ![idOf[s]] = s]
  /\ stream' = [stream EXCEPT ![s] = "greet"]
  /\ UNCHANGED <<closed, chan, shut, idOf, sending, sent, seen>>

RegisterRefused(s) ==
  /\ stream[s] = "new" /\ ~ReadLocked /\ closed
  /\ stream' = [stream EXCEPT ![s] = "gone"]
  /\ UNCHANGED <<clients, closed, chan, shut, idOf, sending, sent, seen>>

(* Mutant of Unregister: the client stays in the map.                      *)
UnregisterKeeping(s) ==
  LET t == clients[idOf[s]] IN
  /\ stream[s] = "leave" /\ ~ReadLocked
  /\ shut' = [u \in Streams |-> shut[u] \/ u = t]
  /\ stream' = [stream EXCEPT ![s] = "gone"]
  /\ UNCHANGED <<clients, closed, chan, idOf, sending, sent, seen>>

(* Closes and removes whichever client is under the id.                    *)
Unregister(s) ==
  LET t == clients[idOf[s]] IN
  /\ stream[s] = "leave" /\ ~ReadLocked
  /\ shut' = [u \in Streams |-> shut[u] \/ u = t]
  /\ clients' = [clients EXCEPT ![idOf[s]] = NoStream]
  /\ stream' = [stream EXCEPT ![s] = "gone"]
  /\ UNCHANGED <<closed, chan, idOf, sending, sent, seen>>

(* Mutant of Close: the channels are left open.                            *)
CloseKeeping ==
  /\ ~closed /\ ~ReadLocked
  /\ closed' = TRUE
  /\ clients' = [i \in Ids |-> NoStream]
  /\ UNCHANGED <<chan, shut, stream, idOf, sending, sent, seen>>

Close ==
  /\ ~closed /\ ~ReadLocked
  /\ closed' = TRUE
  /\ shut' = [s \in Streams |-> shut[s] \/ s \in Registered]
  /\ clients' = [i \in Ids |-> NoStream]
  /\ UNCHANGED <<chan, stream, idOf, sending, sent, seen>>

-----------------------------------------------------------------------------
(* Broadcast.                                                              *)

(* Takes the read lock.  Without clients, or after Close, nothing is sent. *)
BeginBroadcast(p) ==
  /\ ~sending[p].on
  /\ sent' = [sent EXCEPT ![p] = sent[p] + 1]
  /\ sending' = [sending EXCEPT ![p] =
                   IF closed \/ Registered = {} THEN Idle
                   ELSE [on |-> TRUE, to |-> Registered]]

ProducerSends(p) ==
  /\ sent[p] < MaxEvents
  /\ BeginBroadcast(p)
  /\ UNCHANGED <<clients, closed, chan, shut, stream, idOf, seen>>

(* The handler sends the scan status to every client, itself included.     *)
Greet(s) ==
  /\ stream[s] = "greet"
  /\ BeginBroadcast(s)
  /\ stream' = [stream EXCEPT ![s] = "greeting"]
  /\ UNCHANGED <<clients, closed, chan, shut, idOf, seen>>

Greeted(s) ==
  /\ stream[s] = "greeting" /\ ~sending[s].on
  /\ stream' = [stream EXCEPT ![s] = "loop"]
  /\ UNCHANGED <<clients, closed, chan, shut, idOf, sending, sent, seen>>

Left(p, s) == [sending[p] EXCEPT !.to = sending[p].to \ {s}]

(* Mutant of Offer: the newest event comes first.                          *)
OfferInFront(p, s) ==
  /\ s \in sending[p].to
  /\ chan' = [chan EXCEPT ![s] = IF Len(chan[s]) < Capacity
                THEN <<[from |-> p, n |-> sent[p]]>> \o chan[s] ELSE chan[s]]
  /\ sending' = [sending EXCEPT ![p] = Left(p, s)]
  /\ UNCHANGED <<clients, closed, shut, stream, idOf, sent, seen>>

(* The event is put into the channel, or dropped for this client when the  *)
(* channel is full.  A closed channel is not looked for: see NoSendOnClosed. *)
Offer(p, s) ==
  /\ s \in sending[p].to
  /\ chan' = [chan EXCEPT ![s] = IF Len(chan[s]) < Capacity
                THEN Append(chan[s], [from |-> p, n |-> sent[p]]) ELSE chan[s]]
  /\ sending' = [sending EXCEPT ![p] = Left(p, s)]
  /\ UNCHANGED <<clients, closed, shut, stream, idOf, sent, seen>>

EndBroadcast(p) ==
  /\ sending[p].on /\ sending[p].to = {}
  /\ sending' = [sending EXCEPT ![p] = Idle]
  /\ UNCHANGED <<clients, closed, chan, shut, stream, idOf, sent, seen>>

-----------------------------------------------------------------------------
(* The loop of the stream handler.  Its select takes any case that is      *)
(* ready.                                                                  *)

Receive(s) ==
  /\ stream[s] = "loop" /\ chan[s] # <<>>
  /\ seen' = [seen EXCEPT ![s] = Append(seen[s], Head(chan[s]))]
  /\ chan' = [chan EXCEPT ![s] = Tail(chan[s])]
  /\ UNCHANGED <<clients, closed, shut, stream, idOf, sending, sent>>

(* A message is taken, and the write fails.                                *)
WriteFails(s) ==
  /\ stream[s] = "loop" /\ chan[s] # <<>>
  /\ chan' = [chan EXCEPT ![s] = Tail(chan[s])]
  /\ stream' = [stream EXCEPT ![s] = "leave"]
  /\ UNCHANGED <<clients, closed, shut, idOf, sending, sent, seen>>

(* Done is closed, or Messages is closed and drained.                      *)
Dismissed(s) ==
  /\ stream[s] = "loop" /\ shut[s]
  /\ stream' = [stream EXCEPT ![s] = "leave"]
  /\ UNCHANGED <<clients, closed, chan, shut, idOf, sending, sent, seen>>

(* The client goes away, or a keep-alive cannot be written.                *)
Disconnect(s) ==
  /\ stream[s] = "loop"
  /\ stream' = [stream EXCEPT ![s] = "leave"]
  /\ UNCHANGED <<clients, closed, chan, shut, idOf, sending, sent, seen>>

-----------------------------------------------------------------------------

Broadcasting(p) == EndBroadcast(p) \/ \E s \in Streams : Offer(p, s)

Handler(s) ==
  \/ Register(s) \/ RegisterRefused(s)
  \/ Greet(s) \/ Greeted(s)
  \/ Receive(s) \/ WriteFails(s) \/ Dismissed(s) \/ Disconnect(s)
  \/ Unregister(s)

Next ==
  \/ \E s \in Streams : Handler(s)
  \/ \E p \in Producers : ProducerSends(p)
  \/ \E p \in Senders : Broadcasting(p)
  \/ Close

Spec == Init /\ [][Next]_vars

(* The scheduler runs every goroutine that can run, and sync.RWMutex lets  *)
(* a waiting writer go before new readers.  Clients need not disconnect.   *)
Fairness ==
  /\ \A p \in Senders : WF_vars(Broadcasting(p))
  /\ \A s \in Streams : /\ WF_vars(Greet(s)) /\ WF_vars(Greeted(s))
                         /\ WF_vars(Dismissed(s))
                         /\ SF_vars(Unregister(s))

FairSpec == Spec /\ Fairness

-----------------------------------------------------------------------------
(* Type invariant.                                                         *)

Events == [from : Senders, n : Nat]

TypeOK ==
  /\ clients \in [Ids -> Streams \union {NoStream}]
  /\ closed \in BOOLEAN
  /\ chan \in [Streams -> Seq(Events)]
  /\ \A s \in Streams : Len(chan[s]) <= Capacity
  /\ shut \in [Streams -> BOOLEAN]
  /\ stream \in [Streams -> {"new", "greet", "greeting", "loop", "leave", "gone"}]
  /\ idOf \in [Streams -> Ids]
  /\ sending \in [Senders -> [on : BOOLEAN, to : SUBSET Streams]]
  /\ sent \in [Senders -> Nat]
  /\ seen \in [Streams -> Seq(Events)]

(* A channel in the map, or still to be offered an event by a broadcast,   *)
(* is open, although clients with the same id close each other's channels: *)
(* no broadcast sends on a closed channel and no channel is closed twice,  *)
(* either of which would be a panic.                                       *)
NoSendOnClosed ==
  /\ \A s \in Registered : ~shut[s]
  /\ \A p \in Senders : sending[p].to \subseteq Registered

(* What a stream writes, together with what waits in its channel, keeps    *)
(* the order of each sender and repeats nothing, though broadcasts run     *)
(* concurrently and drop events: apply_progress never comes after the      *)
(* apply_complete of its run.                                              *)
SendersOrderIsKept ==
  \A s \in Streams :
    LET line == seen[s] \o chan[s] IN
    \A i, k \in DOMAIN line :
      i < k /\ line[i].from = line[k].from => line[i].n < line[k].n

SharesItsId(s) == \E t \in Streams \ {s} : idOf[t] = idOf[s]

Open(s) == stream[s] \in {"greet", "greeting", "loop"}

(* Close leaves only such clients open as were overwritten by another one  *)
(* with the same id.                                                       *)
CloseMissesOnlyOverwritten ==
  \A s \in Streams : closed /\ Open(s) => shut[s] \/ SharesItsId(s)

(* After Close every stream handler returns, whatever broadcasts are going *)
(* on, unless its client was overwritten.                                  *)
StreamsEnd ==
  \A s \in Streams :
    (closed /\ Open(s) /\ ~SharesItsId(s)) ~> stream[s] = "gone"
=============================================================================
