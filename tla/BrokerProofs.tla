---------------------------- MODULE BrokerProofs ----------------------------
(***************************************************************************)
(* Proofs about the event broker, for any streams, ids, producers, events  *)
(* and capacity: no broadcast sends on a closed channel, Close misses only *)
(* clients that were overwritten under their id, and a stream writes the   *)
(* events of each sender in their order.                                   *)
(*                                                                         *)
(* None is inductive as it stands.  What the first two rest on is where a  *)
(* client may be in the map: only under its own id, and only after it      *)
(* registered, so that a client that was closed and removed never comes    *)
(* back.  The third rests on a broadcast that has not reached a stream yet *)
(* being newer than all the stream has of its sender.                      *)
(***************************************************************************)
EXTENDS Broker, SequenceTheorems, TLAPS

Shape ==
  /\ clients \in [Ids -> Streams \union {NoStream}]
  /\ closed \in BOOLEAN
  /\ shut \in [Streams -> BOOLEAN]
  /\ stream \in [Streams -> {"new", "greet", "greeting", "loop", "leave", "gone"}]
  /\ idOf \in [Streams -> Ids]
  /\ sending \in [Senders -> [on : BOOLEAN, to : SUBSET Streams]]

InMap(s) == \E i \in Ids : clients[i] = s

(* A client is in the map under its own id only, between its registration  *)
(* and the end of its handler; one that never registered is not closed.    *)
MapIsKeyed ==
  /\ \A i \in Ids : \A s \in Streams :
       clients[i] = s => idOf[s] = i /\ stream[s] # "new"
  /\ \A s \in Streams : shut[s] => stream[s] # "new"

(* What is in the map is open, and a broadcast has clients of the map left *)
(* only while it holds the read lock.                                      *)
MapIsOpen ==
  /\ \A s \in Streams : InMap(s) => ~shut[s]
  /\ \A p \in Senders : \A s \in sending[p].to : sending[p].on /\ InMap(s)

(* A client that is alone with its id stays in the map until it is closed. *)
LonersStay ==
  /\ closed => \A s \in Streams : ~InMap(s)
  /\ \A s \in Streams :
       stream[s] \notin {"new", "gone"} /\ ~shut[s] /\ ~SharesItsId(s)
         => clients[idOf[s]] = s

BrokerInv == Shape /\ MapIsKeyed /\ MapIsOpen /\ LonersStay

LEMMA RegisteredInMap ==
  ASSUME Shape
  PROVE  \A s \in Streams : s \in Registered <=> InMap(s)
  BY BrokerAssumption DEF BrokerAssumption, Shape, Registered, InMap

LEMMA InitBrokerInv == Init => BrokerInv
<1> SUFFICES ASSUME Init PROVE BrokerInv
  OBVIOUS
<1>1. Shape
  BY DEF Init, Shape, Idle
<1>2. \A s \in Streams : ~InMap(s)
  BY BrokerAssumption DEF BrokerAssumption, Init, InMap
<1>3. MapIsKeyed
  BY <1>2 DEF Init, MapIsKeyed, InMap
<1>4. MapIsOpen
  BY <1>2 DEF Init, MapIsOpen, Idle
<1>5. LonersStay
  BY <1>2 DEF Init, LonersStay
<1>6. QED
  BY <1>1, <1>3, <1>4, <1>5 DEF BrokerInv

(* A broadcast that begins is offered to clients of the map.               *)
LEMMA BroadcastStep ==
  ASSUME BrokerInv, NEW p \in Senders, BeginBroadcast(p),
         UNCHANGED <<clients, closed, shut, idOf>>,
         stream' \in [Streams -> {"new", "greet", "greeting", "loop", "leave", "gone"}],
         \A s \in Streams : /\ stream'[s] = "new" <=> stream[s] = "new"
                            /\ stream'[s] = "gone" <=> stream[s] = "gone"
  PROVE  BrokerInv'
<1>1. Registered \subseteq Streams /\ \A s \in Streams : s \in Registered <=> InMap(s)
  BY RegisteredInMap DEF BrokerInv, Shape, Registered
<1>2. Shape'
  BY <1>1 DEF BrokerInv, Shape, BeginBroadcast, Idle
<1>3. MapIsKeyed'
  BY DEF BrokerInv, Shape, MapIsKeyed
<1>4. MapIsOpen'
  BY <1>1 DEF BrokerInv, Shape, MapIsOpen, BeginBroadcast, Idle, InMap
<1>5. LonersStay'
  BY DEF BrokerInv, Shape, LonersStay, InMap, SharesItsId
<1>6. QED
  BY <1>2, <1>3, <1>4, <1>5 DEF BrokerInv

LEMMA BrokerInvStep == BrokerInv /\ [Next]_vars => BrokerInv'
<1> SUFFICES ASSUME BrokerInv, [Next]_vars PROVE BrokerInv'
  OBVIOUS
<1> USE DEF BrokerInv
<1>1. ASSUME NEW s \in Streams, Register(s) PROVE BrokerInv'
  <2>1. \A t \in Streams : InMap(t)' => InMap(t) \/ t = s
    BY <1>1 DEF Register, InMap, Shape
  <2>2. \A p \in Senders : sending[p].to = {}
    BY <1>1 DEF Register, ReadLocked, MapIsOpen, Shape
  <2>3. Shape'
    BY <1>1 DEF Register, Shape
  <2>4. MapIsKeyed'
    BY <1>1, BrokerAssumption DEF BrokerAssumption, Register, MapIsKeyed, Shape
  <2>5. MapIsOpen'
    BY <1>1, <2>1, <2>2 DEF Register, MapIsOpen, MapIsKeyed, Shape
  <2>6. LonersStay'
    BY <1>1, <2>1 DEF Register, LonersStay, SharesItsId, Shape
  <2>7. QED
    BY <2>3, <2>4, <2>5, <2>6
<1>2. ASSUME NEW s \in Streams, Unregister(s) PROVE BrokerInv'
  <2> DEFINE t == clients[idOf[s]]
  <2>1. \A u \in Streams : InMap(u)' <=> InMap(u) /\ u # t
    BY <1>2, BrokerAssumption DEF BrokerAssumption, Unregister, InMap,
       MapIsKeyed, Shape
  <2>2. \A p \in Senders : sending[p].to = {}
    BY <1>2 DEF Unregister, ReadLocked, MapIsOpen, Shape
  <2>3. Shape'
    BY <1>2 DEF Unregister, Shape
  <2>4. MapIsKeyed'
    BY <1>2, BrokerAssumption DEF BrokerAssumption, Unregister, MapIsKeyed, Shape
  <2>5. MapIsOpen'
    BY <1>2, <2>1, <2>2 DEF Unregister, MapIsOpen, Shape
  <2>6. LonersStay'
    BY <1>2, <2>1 DEF Unregister, LonersStay, MapIsKeyed, SharesItsId, Shape
  <2>7. QED
    BY <2>3, <2>4, <2>5, <2>6
<1>3. CASE Close
  <2>1. \A u \in Streams : u \in Registered <=> InMap(u)
    BY RegisteredInMap
  <2>2. \A u \in Streams : ~InMap(u)'
    BY <1>3, BrokerAssumption DEF BrokerAssumption, Close, InMap
  <2>3. \A p \in Senders : sending[p].to = {}
    BY <1>3 DEF Close, ReadLocked, MapIsOpen, Shape
  <2>4. Shape'
    BY <1>3, BrokerAssumption DEF BrokerAssumption, Close, Shape
  <2>5. MapIsKeyed'
    BY <1>3, <2>1, <2>2 DEF Close, MapIsKeyed, InMap, Shape
  <2>6. MapIsOpen'
    BY <1>3, <2>2, <2>3 DEF Close, MapIsOpen, Shape
  <2>7. LonersStay'
    BY <1>3, <2>1, <2>2 DEF Close, LonersStay, SharesItsId, InMap, Shape
  <2>8. QED
    BY <2>4, <2>5, <2>6, <2>7
<1>4. ASSUME NEW p \in Producers, ProducerSends(p) PROVE BrokerInv'
  <2>1. p \in Senders
    BY DEF Senders
  <2>2. QED
    BY <1>4, <2>1, BroadcastStep DEF ProducerSends, Shape
<1>5. ASSUME NEW s \in Streams, Greet(s) PROVE BrokerInv'
  <2>1. s \in Senders
    BY DEF Senders
  <2>2. QED
    BY <1>5, <2>1, BroadcastStep DEF Greet, Shape
<1>6. ASSUME NEW p \in Senders, Broadcasting(p) PROVE BrokerInv'
  <2> USE DEF MapIsKeyed, MapIsOpen, LonersStay, InMap, SharesItsId, Shape
  <2>1. CASE EndBroadcast(p)
    BY <2>1 DEF EndBroadcast, Idle
  <2>2. ASSUME NEW s \in Streams, Offer(p, s) PROVE BrokerInv'
    BY <2>2 DEF Offer, Left
  <2>3. QED
    BY <1>6, <2>1, <2>2 DEF Broadcasting
<1>7. ASSUME NEW s \in Streams,
             RegisterRefused(s) \/ Greeted(s) \/ Receive(s) \/ WriteFails(s)
               \/ Dismissed(s) \/ Disconnect(s)
      PROVE  BrokerInv'
  BY <1>7 DEF RegisterRefused, Greeted, Receive, WriteFails, Dismissed,
     Disconnect, MapIsKeyed, MapIsOpen, LonersStay, InMap, SharesItsId, Shape
<1>8. CASE UNCHANGED vars
  BY <1>8 DEF vars, MapIsKeyed, MapIsOpen, LonersStay, InMap, SharesItsId, Shape
<1>9. QED
  BY <1>1, <1>2, <1>3, <1>4, <1>5, <1>6, <1>7, <1>8 DEF Next, Handler

LEMMA BrokerInvAlways == Spec => []BrokerInv
  BY InitBrokerInv, BrokerInvStep, PTL DEF Spec

(* No broadcast sends on a closed channel, and none is closed twice.       *)
THEOREM NoPanic == Spec => []NoSendOnClosed
<1>1. BrokerInv => NoSendOnClosed
  <2> SUFFICES ASSUME BrokerInv PROVE NoSendOnClosed
    OBVIOUS
  <2>1. Registered \subseteq Streams /\ \A s \in Streams : s \in Registered <=> InMap(s)
    BY RegisteredInMap DEF BrokerInv, Shape, Registered
  <2>2. QED
    BY <2>1 DEF BrokerInv, MapIsOpen, NoSendOnClosed, Shape
<1>2. QED
  BY <1>1, BrokerInvAlways, PTL

(* Close leaves open only clients that share their id.                     *)
THEOREM CloseIsComplete == Spec => []CloseMissesOnlyOverwritten
<1>1. BrokerInv => CloseMissesOnlyOverwritten
  BY DEF BrokerInv, LonersStay, InMap, CloseMissesOnlyOverwritten, Open, Shape
<1>2. QED
  BY <1>1, BrokerInvAlways, PTL

-----------------------------------------------------------------------------
(* The order of the events.  A line is what a stream has written, its      *)
(* channel what it will write.                                             *)

Ordered(q) ==
  \A i, k \in 1 .. Len(q) :
    i < k /\ q[i].from = q[k].from => q[i].n < q[k].n

Before(q, r) ==
  \A i \in 1 .. Len(q), k \in 1 .. Len(r) :
    q[i].from = r[k].from => q[i].n < r[k].n

(* Nothing of a sender is ahead of it, and a broadcast that still has to   *)
(* reach a stream is newer than all that the stream has of the sender.     *)
Sent(e, s) ==
  /\ e.n <= sent[e.from]
  /\ s \in sending[e.from].to => e.n < sent[e.from]

SentAll(q, s) == \A i \in 1 .. Len(q) : Sent(q[i], s)

OrderInv ==
  \A s \in Streams :
    /\ Ordered(seen[s]) /\ Ordered(chan[s]) /\ Before(seen[s], chan[s])
    /\ SentAll(seen[s], s) /\ SentAll(chan[s], s)

(* What comes after all of its sender's keeps a line in order.             *)
LEMMA AppendKeepsOrder ==
  ASSUME NEW q \in Seq(Events), NEW r \in Seq(Events), NEW e \in Events,
         Ordered(r), Before(q, r),
         \A i \in 1 .. Len(q) : q[i].from = e.from => q[i].n < e.n,
         \A i \in 1 .. Len(r) : r[i].from = e.from => r[i].n < e.n
  PROVE  Ordered(Append(r, e)) /\ Before(q, Append(r, e))
<1>1. /\ Append(r, e) \in Seq(Events) /\ Len(Append(r, e)) = Len(r) + 1
      /\ \A i \in 1 .. Len(r) : Append(r, e)[i] = r[i]
      /\ Append(r, e)[Len(r) + 1] = e
  BY AppendProperties
<1>2. Len(q) \in Nat /\ Len(r) \in Nat
  BY LenProperties
<1>3. \A k \in 1 .. Len(Append(r, e)) : k \in 1 .. Len(r) \/ k = Len(r) + 1
  BY <1>1, <1>2
<1>4. Ordered(Append(r, e))
  BY <1>1, <1>2, <1>3 DEF Ordered
<1>5. Before(q, Append(r, e))
  BY <1>1, <1>2, <1>3 DEF Before
<1>6. QED
  BY <1>4, <1>5

(* Moving the head of the channel to what was written keeps both in order. *)
LEMMA MoveKeepsOrder ==
  ASSUME NEW q \in Seq(Events), NEW r \in Seq(Events), r # <<>>,
         Ordered(q), Ordered(r), Before(q, r)
  PROVE  /\ Ordered(Tail(r)) /\ Before(q, Tail(r))
         /\ Ordered(Append(q, Head(r))) /\ Before(Append(q, Head(r)), Tail(r))
<1> DEFINE h == Head(r)
<1>1. /\ h \in Events /\ h = r[1]
      /\ Tail(r) \in Seq(Events) /\ Len(Tail(r)) = Len(r) - 1
      /\ \A k \in 1 .. Len(Tail(r)) : Tail(r)[k] = r[k + 1]
  BY HeadTailProperties
<1>2. Len(q) \in Nat /\ Len(r) \in Nat \ {0}
  BY LenProperties, EmptySeq
<1>3. \A k \in 1 .. Len(Tail(r)) : k + 1 \in 1 .. Len(r) /\ 1 < k + 1
  BY <1>1, <1>2
<1>4. Ordered(Tail(r))
  <2> SUFFICES ASSUME NEW i \in 1 .. Len(Tail(r)), NEW k \in 1 .. Len(Tail(r)),
                      i < k, Tail(r)[i].from = Tail(r)[k].from
               PROVE  Tail(r)[i].n < Tail(r)[k].n
    BY DEF Ordered
  <2>1. i + 1 < k + 1
    BY <1>1, <1>2
  <2> QED
    BY <1>1, <1>3, <2>1 DEF Ordered
<1>5. Before(q, Tail(r))
  BY <1>1, <1>3 DEF Before
<1>6. 1 \in 1 .. Len(r)
  BY <1>2
<1>7. \A i \in 1 .. Len(q) : q[i].from = h.from => q[i].n < h.n
  BY <1>1, <1>6 DEF Before
<1>8. \A k \in 1 .. Len(Tail(r)) : h.from = Tail(r)[k].from => h.n < Tail(r)[k].n
  BY <1>1, <1>3, <1>6 DEF Ordered
<1>9. /\ Append(q, h) \in Seq(Events) /\ Len(Append(q, h)) = Len(q) + 1
      /\ \A i \in 1 .. Len(q) : Append(q, h)[i] = q[i]
      /\ Append(q, h)[Len(q) + 1] = h
  BY <1>1, AppendProperties
<1>10. \A i \in 1 .. Len(Append(q, h)) : i \in 1 .. Len(q) \/ i = Len(q) + 1
  BY <1>2, <1>9
<1>11. Ordered(Append(q, h))
  BY <1>2, <1>7, <1>9, <1>10 DEF Ordered
<1>12. Before(Append(q, h), Tail(r))
  BY <1>5, <1>8, <1>9, <1>10 DEF Before
<1>13. QED
  BY <1>4, <1>5, <1>11, <1>12

(* A line that grows or loses its head still holds nothing but sent events. *)
LEMMA SentAllOfParts ==
  ASSUME NEW s, NEW q \in Seq(Events), NEW r \in Seq(Events), r # <<>>,
         SentAll(q, s), SentAll(r, s)
  PROVE  SentAll(Tail(r), s) /\ SentAll(Append(q, Head(r)), s)
<1>1. /\ Head(r) \in Events /\ Head(r) = r[1] /\ 1 \in 1 .. Len(r)
      /\ Len(Tail(r)) = Len(r) - 1
      /\ \A k \in 1 .. Len(Tail(r)) : Tail(r)[k] = r[k + 1]
  BY HeadTailProperties, LenProperties, EmptySeq
<1>2. Len(q) \in Nat /\ Len(r) \in Nat
  BY LenProperties
<1>3. /\ Len(Append(q, Head(r))) = Len(q) + 1
      /\ \A i \in 1 .. Len(q) : Append(q, Head(r))[i] = q[i]
      /\ Append(q, Head(r))[Len(q) + 1] = Head(r)
  BY <1>1, AppendProperties
<1>4. SentAll(Tail(r), s)
  BY <1>1, <1>2 DEF SentAll
<1>5. \A i \in 1 .. Len(Append(q, Head(r))) : i \in 1 .. Len(q) \/ i = Len(q) + 1
  BY <1>2, <1>3
<1>6. SentAll(Append(q, Head(r)), s)
  BY <1>1, <1>3, <1>5 DEF SentAll
<1>7. QED
  BY <1>4, <1>6

LEMMA InitTypeOK == Init => TypeOK
<1> SUFFICES ASSUME Init PROVE TypeOK
  OBVIOUS
<1>1. <<>> \in Seq(Events) /\ Len(<<>>) = 0
  BY EmptySeq
<1>2. chan \in [Streams -> Seq(Events)] /\ seen \in [Streams -> Seq(Events)]
  BY <1>1 DEF Init
<1>3. \A s \in Streams : Len(chan[s]) <= Capacity
  BY <1>1, BrokerAssumption DEF BrokerAssumption, Init
<1>4. QED
  BY <1>2, <1>3 DEF Init, TypeOK, Idle

LEMMA BroadcastTypes ==
  ASSUME TypeOK, NEW p \in Senders, BeginBroadcast(p)
  PROVE  /\ sent' \in [Senders -> Nat]
         /\ sending' \in [Senders -> [on : BOOLEAN, to : SUBSET Streams]]
<1>1. Registered \subseteq Streams
  BY DEF TypeOK, Registered
<1>2. QED
  BY <1>1 DEF TypeOK, BeginBroadcast, Idle

LEMMA TypeOKStep == TypeOK /\ [Next]_vars => TypeOK'
<1> SUFFICES ASSUME TypeOK, [Next]_vars PROVE TypeOK'
  OBVIOUS
<1> USE DEF TypeOK
<1>1. ASSUME NEW s \in Streams,
             Register(s) \/ RegisterRefused(s) \/ Greeted(s) \/ Dismissed(s)
               \/ Disconnect(s) \/ Unregister(s)
      PROVE  TypeOK'
  <2>1. CASE Register(s)
    BY <2>1 DEF Register
  <2>2. CASE Unregister(s)
    BY <2>2 DEF Unregister
  <2>3. CASE RegisterRefused(s) \/ Greeted(s) \/ Dismissed(s) \/ Disconnect(s)
    BY <2>3 DEF RegisterRefused, Greeted, Dismissed, Disconnect
  <2>4. QED
    BY <1>1, <2>1, <2>2, <2>3
<1>2. ASSUME NEW s \in Streams, Greet(s) PROVE TypeOK'
  <2>1. s \in Senders
    BY DEF Senders
  <2>2. QED
    BY <1>2, <2>1, BroadcastTypes DEF Greet
<1>3. ASSUME NEW s \in Streams, Receive(s) \/ WriteFails(s) PROVE TypeOK'
  <2>1. chan[s] \in Seq(Events) /\ chan[s] # <<>> /\ seen[s] \in Seq(Events)
    BY <1>3 DEF Receive, WriteFails
  <2>2. /\ Head(chan[s]) \in Events /\ Tail(chan[s]) \in Seq(Events)
        /\ Len(Tail(chan[s])) = Len(chan[s]) - 1 /\ Len(chan[s]) \in Nat
    BY <2>1, HeadTailProperties, LenProperties
  <2>3. Append(seen[s], Head(chan[s])) \in Seq(Events)
    BY <2>1, <2>2, AppendProperties
  <2>4. Len(Tail(chan[s])) <= Capacity
    BY <2>2, BrokerAssumption DEF BrokerAssumption
  <2>5. chan' = [chan EXCEPT ![s] = Tail(chan[s])]
    BY <1>3 DEF Receive, WriteFails
  <2>6. chan' \in [Streams -> Seq(Events)] /\ \A t \in Streams : Len(chan'[t]) <= Capacity
    BY <2>2, <2>4, <2>5
  <2>7. CASE Receive(s)
    BY <2>3, <2>6, <2>7 DEF Receive
  <2>8. CASE WriteFails(s)
    BY <2>6, <2>8 DEF WriteFails
  <2>9. QED
    BY <1>3, <2>7, <2>8
<1>4. ASSUME NEW p \in Producers, ProducerSends(p) PROVE TypeOK'
  <2>1. p \in Senders
    BY DEF Senders
  <2>2. QED
    BY <1>4, <2>1, BroadcastTypes DEF ProducerSends
<1>5. ASSUME NEW p \in Senders, EndBroadcast(p) PROVE TypeOK'
  BY <1>5 DEF EndBroadcast, Idle
<1>6. ASSUME NEW p \in Senders, NEW s \in Streams, Offer(p, s) PROVE TypeOK'
  <2> DEFINE e == [from |-> p, n |-> sent[p]]
  <2>1. e \in Events /\ chan[s] \in Seq(Events) /\ Len(chan[s]) \in Nat
    BY LenProperties DEF Events
  <2>2. /\ Append(chan[s], e) \in Seq(Events)
        /\ Len(Append(chan[s], e)) = Len(chan[s]) + 1
    BY <2>1, AppendProperties
  <2>3. /\ chan'[s] \in Seq(Events) /\ Len(chan'[s]) <= Capacity
        /\ \A t \in Streams \ {s} : chan'[t] = chan[t]
        /\ chan' = [chan EXCEPT ![s] = chan'[s]]
    BY <1>6, <2>1, <2>2, BrokerAssumption DEF Offer, BrokerAssumption
  <2>4. chan' \in [Streams -> Seq(Events)]
    BY <2>3
  <2>5. sending' \in [Senders -> [on : BOOLEAN, to : SUBSET Streams]]
    BY <1>6 DEF Offer, Left
  <2>6. QED
    BY <1>6, <2>3, <2>4, <2>5 DEF Offer
<1>7. CASE Close
  BY <1>7 DEF Close
<1>8. CASE UNCHANGED vars
  BY <1>8 DEF vars
<1>9. QED
  BY <1>1, <1>2, <1>3, <1>4, <1>5, <1>6, <1>7, <1>8 DEF Next, Handler, Broadcasting

(* The broker's variables keep their types, and no channel holds more than *)
(* its capacity.                                                           *)
THEOREM TypeCorrect == Spec => []TypeOK
  BY InitTypeOK, TypeOKStep, PTL DEF Spec

LEMMA InitOrder == Init => OrderInv
<1> SUFFICES ASSUME Init, NEW s \in Streams
             PROVE  /\ Ordered(seen[s]) /\ Ordered(chan[s]) /\ Before(seen[s], chan[s])
                    /\ SentAll(seen[s], s) /\ SentAll(chan[s], s)
  BY DEF OrderInv
<1>1. seen[s] = <<>> /\ chan[s] = <<>> /\ Len(<<>>) = 0
  BY EmptySeq DEF Init
<1>2. \A i \in 1 .. Len(<<>>) : FALSE
  BY <1>1
<1>3. QED
  BY <1>1, <1>2 DEF Ordered, Before, SentAll

(* A step that moves no event keeps the order when no event is ahead of    *)
(* its sender afterwards.                                                  *)
LEMMA SameLines ==
  ASSUME TypeOK, OrderInv, UNCHANGED <<seen, chan>>,
         \A e \in Events, s \in Streams : Sent(e, s) => Sent(e, s)'
  PROVE  OrderInv'
<1> SUFFICES ASSUME NEW s \in Streams
             PROVE  /\ Ordered(seen[s]) /\ Ordered(chan[s]) /\ Before(seen[s], chan[s])
                    /\ SentAll(seen[s], s)' /\ SentAll(chan[s], s)'
  BY DEF OrderInv, Ordered, Before
<1>1. /\ \A i \in 1 .. Len(seen[s]) : seen[s][i] \in Events
      /\ \A i \in 1 .. Len(chan[s]) : chan[s][i] \in Events
  BY ElementOfSeq DEF TypeOK
<1>2. SentAll(seen[s], s)' /\ SentAll(chan[s], s)'
  BY <1>1 DEF OrderInv, SentAll
<1>3. QED
  BY <1>2 DEF OrderInv

LEMMA BroadcastOrder ==
  ASSUME TypeOK, OrderInv, NEW p \in Senders, BeginBroadcast(p), UNCHANGED <<seen, chan>>
  PROVE  OrderInv'
<1> SUFFICES ASSUME NEW e \in Events, NEW s \in Streams, Sent(e, s)
             PROVE  Sent(e, s)'
  BY SameLines
<1>1. e.n \in Nat /\ e.from \in Senders /\ sent[e.from] \in Nat
  BY DEF TypeOK, Events
<1>2. CASE e.from = p
  <2>1. sent'[e.from] = sent[e.from] + 1
    BY <1>1, <1>2 DEF BeginBroadcast, TypeOK
  <2>2. QED
    BY <1>1, <2>1 DEF Sent
<1>3. CASE e.from # p
  BY <1>1, <1>3 DEF Sent, BeginBroadcast, TypeOK
<1>4. QED
  BY <1>2, <1>3

LEMMA OfferOrder ==
  ASSUME TypeOK, OrderInv, NEW p \in Senders, NEW s \in Streams, Offer(p, s)
  PROVE  OrderInv'
<1> DEFINE e == [from |-> p, n |-> sent[p]]
<1>1. /\ e \in Events /\ seen[s] \in Seq(Events) /\ chan[s] \in Seq(Events)
      /\ sent[p] \in Nat
  BY DEF TypeOK, Events
<1>2. /\ sent' = sent /\ seen' = seen /\ s \in sending[p].to
      /\ sending'[p].to = sending[p].to \ {s}
      /\ \A o \in Senders \ {p} : sending'[o] = sending[o]
  BY DEF Offer, Left, TypeOK
<1>3. ASSUME NEW d \in Events, NEW t \in Streams, Sent(d, t) PROVE Sent(d, t)'
  <2>1. d.from \in Senders
    BY DEF Events
  <2>2. QED
    BY <1>2, <1>3, <2>1 DEF Sent
<1>4. CASE chan' = chan
  BY <1>2, <1>3, <1>4, SameLines
<1>5. CASE chan' = [chan EXCEPT ![s] = Append(chan[s], e)]
  <2>1. /\ chan'[s] = Append(chan[s], e)
        /\ \A t \in Streams \ {s} : chan'[t] = chan[t]
    BY <1>5 DEF TypeOK
  <2>2. /\ \A i \in 1 .. Len(seen[s]) : seen[s][i] \in Events
        /\ \A i \in 1 .. Len(chan[s]) : chan[s][i] \in Events
    BY <1>1, ElementOfSeq
  <2>3. /\ \A i \in 1 .. Len(seen[s]) : seen[s][i].from = e.from => seen[s][i].n < e.n
        /\ \A i \in 1 .. Len(chan[s]) : chan[s][i].from = e.from => chan[s][i].n < e.n
    BY <1>2 DEF OrderInv, SentAll, Sent
  <2>4. Ordered(chan'[s]) /\ Before(seen[s], chan'[s])
    BY <1>1, <2>1, <2>3, AppendKeepsOrder DEF OrderInv
  <2>5. e.n <= sent'[e.from] /\ (s \in sending'[e.from].to => e.n < sent'[e.from])
    BY <1>1, <1>2
  <2>6. /\ Len(chan'[s]) = Len(chan[s]) + 1 /\ Len(chan[s]) \in Nat
        /\ \A i \in 1 .. Len(chan[s]) : chan'[s][i] = chan[s][i]
        /\ chan'[s][Len(chan[s]) + 1] = e
    BY <1>1, <2>1, AppendProperties, LenProperties
  <2>7. \A i \in 1 .. Len(chan'[s]) : i \in 1 .. Len(chan[s]) \/ i = Len(chan[s]) + 1
    BY <2>6
  <2>8. SentAll(chan[s], s)'
    <3> SUFFICES ASSUME NEW i \in 1 .. Len(chan'[s])
                 PROVE  Sent(chan[s][i], s)'
      BY DEF SentAll
    <3>1. CASE i \in 1 .. Len(chan[s])
      <4>1. Sent(chan[s][i], s) /\ chan[s][i] \in Events
        BY <2>2, <3>1 DEF OrderInv, SentAll
      <4>2. chan'[s][i] = chan[s][i]
        BY <2>6, <3>1
      <4>3. QED
        BY <1>3, <4>1, <4>2
    <3>2. CASE i = Len(chan[s]) + 1
      <4>1. chan'[s][i] = e
        BY <2>6, <3>2
      <4>2. QED
        BY <2>5, <4>1 DEF Sent
    <3>3. QED
      BY <2>7, <3>1, <3>2
  <2>9. \A t \in Streams : SentAll(seen[t], t)'
    <3> SUFFICES ASSUME NEW t \in Streams, NEW i \in 1 .. Len(seen[t])
                 PROVE  Sent(seen[t][i], t)'
      BY <1>2 DEF SentAll
    <3>1. seen[t][i] \in Events
      BY ElementOfSeq DEF TypeOK
    <3>2. Sent(seen[t][i], t)
      BY DEF OrderInv, SentAll
    <3>3. QED
      BY <1>2, <1>3, <3>1, <3>2
  <2>10. \A t \in Streams \ {s} : SentAll(chan[t], t)'
    <3> SUFFICES ASSUME NEW t \in Streams \ {s}, NEW i \in 1 .. Len(chan[t])
                 PROVE  Sent(chan[t][i], t)'
      BY <2>1 DEF SentAll
    <3>1. chan[t][i] \in Events
      BY ElementOfSeq DEF TypeOK
    <3>2. Sent(chan[t][i], t)
      BY DEF OrderInv, SentAll
    <3>3. QED
      BY <1>3, <2>1, <3>1, <3>2
  <2>11. QED
    <3> SUFFICES ASSUME NEW t \in Streams
                 PROVE  /\ Ordered(seen'[t]) /\ Ordered(chan'[t])
                        /\ Before(seen'[t], chan'[t])
                        /\ SentAll(seen[t], t)' /\ SentAll(chan[t], t)'
      BY DEF OrderInv, Ordered, Before
    <3>1. CASE t = s
      BY <1>2, <2>4, <2>8, <2>9, <3>1 DEF OrderInv
    <3>2. CASE t # s
      BY <1>2, <2>1, <2>9, <2>10, <3>2 DEF OrderInv
    <3>3. QED
      BY <3>1, <3>2
<1>6. QED
  BY <1>4, <1>5 DEF Offer, TypeOK

(* A message that is taken is written, or lost when the write fails.       *)
LEMMA TakenOrder ==
  ASSUME TypeOK, OrderInv, NEW s \in Streams, Receive(s) \/ WriteFails(s)
  PROVE  OrderInv'
<1>1. /\ chan[s] # <<>> /\ chan[s] \in Seq(Events) /\ seen[s] \in Seq(Events)
      /\ chan'[s] = Tail(chan[s])
      /\ seen'[s] = seen[s] \/ seen'[s] = Append(seen[s], Head(chan[s]))
      /\ \A t \in Streams \ {s} : chan'[t] = chan[t] /\ seen'[t] = seen[t]
  BY DEF TypeOK, Receive, WriteFails
<1>2. sent' = sent /\ sending' = sending
  BY DEF Receive, WriteFails
<1>3. Ordered(chan'[s]) /\ Ordered(seen'[s]) /\ Before(seen'[s], chan'[s])
  BY <1>1, MoveKeepsOrder DEF OrderInv
<1>4. SentAll(chan'[s], s) /\ SentAll(seen'[s], s)
  BY <1>1, SentAllOfParts DEF OrderInv
<1>5. SUFFICES ASSUME NEW t \in Streams
               PROVE  /\ Ordered(seen'[t]) /\ Ordered(chan'[t])
                      /\ Before(seen'[t], chan'[t])
                      /\ SentAll(seen'[t], t) /\ SentAll(chan'[t], t)
  BY <1>2 DEF OrderInv, Ordered, Before, SentAll, Sent
<1>6. CASE t = s
  BY <1>3, <1>4, <1>6
<1>7. CASE t # s
  BY <1>1, <1>7 DEF OrderInv
<1>8. QED
  BY <1>6, <1>7

LEMMA OrderStep == TypeOK /\ OrderInv /\ [Next]_vars => OrderInv'
<1> SUFFICES ASSUME TypeOK, OrderInv, [Next]_vars PROVE OrderInv'
  OBVIOUS
<1>1. ASSUME UNCHANGED <<seen, chan, sent, sending>> PROVE OrderInv'
  BY <1>1 DEF OrderInv, Ordered, Before, SentAll, Sent
<1>2. ASSUME NEW s \in Streams, Greet(s) PROVE OrderInv'
  BY <1>2, BroadcastOrder DEF Greet, Senders
<1>3. ASSUME NEW p \in Producers, ProducerSends(p) PROVE OrderInv'
  BY <1>3, BroadcastOrder DEF ProducerSends, Senders
<1>4. ASSUME NEW p \in Senders, EndBroadcast(p) PROVE OrderInv'
  <2>1. /\ sent' = sent /\ sending'[p].to = {}
        /\ \A o \in Senders \ {p} : sending'[o] = sending[o]
    BY <1>4 DEF EndBroadcast, Idle, TypeOK
  <2>2. \A e \in Events, s \in Streams : Sent(e, s) => Sent(e, s)'
    BY <2>1 DEF Sent, Events
  <2>3. QED
    BY <1>4, <2>2, SameLines DEF EndBroadcast
<1>5. ASSUME NEW s \in Streams, Handler(s) PROVE OrderInv'
  <2>1. CASE Greet(s)
    BY <1>2, <2>1
  <2>2. CASE Receive(s) \/ WriteFails(s)
    BY <2>2, TakenOrder
  <2>3. CASE Register(s) \/ RegisterRefused(s) \/ Greeted(s) \/ Dismissed(s)
               \/ Disconnect(s) \/ Unregister(s)
    BY <1>1, <2>3 DEF Register, RegisterRefused, Greeted, Dismissed, Disconnect, Unregister
  <2>4. QED
    BY <1>5, <2>1, <2>2, <2>3 DEF Handler
<1>6. CASE Close \/ UNCHANGED vars
  BY <1>1, <1>6 DEF Close, vars
<1>7. QED
  BY <1>3, <1>4, <1>5, <1>6, OfferOrder DEF Next, Broadcasting

(* A stream gets the events of each sender in their order and none twice,  *)
(* while other broadcasts go on and events are dropped.                    *)
THEOREM OrderIsKept == Spec => []SendersOrderIsKept
<1>1. TypeOK /\ OrderInv => SendersOrderIsKept
  <2> SUFFICES ASSUME TypeOK, OrderInv, NEW s \in Streams,
                      NEW i \in DOMAIN (seen[s] \o chan[s]),
                      NEW k \in DOMAIN (seen[s] \o chan[s]), i < k,
                      (seen[s] \o chan[s])[i].from = (seen[s] \o chan[s])[k].from
               PROVE  (seen[s] \o chan[s])[i].n < (seen[s] \o chan[s])[k].n
    BY DEF SendersOrderIsKept
  <2> DEFINE q == seen[s]
             r == chan[s]
  <2>1. q \in Seq(Events) /\ r \in Seq(Events)
    BY DEF TypeOK
  <2>2. /\ q \o r \in Seq(Events) /\ Len(q \o r) = Len(q) + Len(r)
        /\ \A j \in 1 .. Len(q) + Len(r) :
             (q \o r)[j] = IF j <= Len(q) THEN q[j] ELSE r[j - Len(q)]
    BY <2>1, ConcatProperties
  <2>3. Len(q) \in Nat /\ Len(r) \in Nat /\ DOMAIN (q \o r) = 1 .. Len(q) + Len(r)
    BY <2>1, <2>2, LenProperties
  <2>4. Ordered(q) /\ Ordered(r) /\ Before(q, r)
    BY DEF OrderInv
  <2> HIDE DEF q, r
  <2>5. PICK m \in Nat : m = Len(q)
    BY <2>3
  <2>6. PICK n \in Nat : n = Len(r)
    BY <2>3
  <2>7. i \in 1 .. m + n /\ k \in 1 .. m + n
    BY <2>3, <2>5, <2>6 DEF q, r
  <2>8. CASE k <= Len(q)
    <3>1. i \in 1 .. Len(q) /\ k \in 1 .. Len(q)
      BY <2>3, <2>8, <2>5, <2>7
    <3>2. (q \o r)[i] = q[i] /\ (q \o r)[k] = q[k]
      BY <2>2, <2>8, <2>5, <2>6, <2>7
    <3>3. QED
      BY <2>4, <3>1, <3>2 DEF q, r, Ordered
  <2>9. CASE i <= Len(q) /\ k > Len(q)
    <3>1. i \in 1 .. Len(q) /\ k - Len(q) \in 1 .. Len(r)
      BY <2>9, <2>5, <2>6, <2>7
    <3>2. (q \o r)[i] = q[i] /\ (q \o r)[k] = r[k - Len(q)]
      BY <2>2, <2>9, <2>5, <2>6, <2>7
    <3>3. QED
      BY <2>4, <3>1, <3>2 DEF q, r, Before
  <2>10. CASE i > Len(q)
    <3>1. i - Len(q) \in 1 .. Len(r) /\ k - Len(q) \in 1 .. Len(r) /\ i - Len(q) < k - Len(q)
      BY <2>10, <2>5, <2>6, <2>7
    <3>2. (q \o r)[i] = r[i - Len(q)] /\ (q \o r)[k] = r[k - Len(q)]
      BY <2>2, <2>10, <2>5, <2>6, <2>7
    <3>3. QED
      BY <2>4, <3>1, <3>2 DEF q, r, Ordered
  <2>11. QED
    BY <2>5, <2>7, <2>8, <2>9, <2>10
<1>2. QED
  BY <1>1, InitTypeOK, TypeOKStep, InitOrder, OrderStep, PTL DEF Spec
=============================================================================
