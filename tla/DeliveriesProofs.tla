--------------------------- MODULE DeliveriesProofs ---------------------------
(***************************************************************************)
(* What Deliveries keeps for every set of messages and queues, every bound *)
(* on connections and every prefetch window: that nothing is settled       *)
(* unhandled or unanswered, that no delivery leaks, that every message is  *)
(* accounted for, and that the queues implement ServedQueue.               *)
(*                                                                         *)
(* IInv, the inductive invariant, follows a delivery through the program.  *)
(* It is in the deliveries channel of its consumer, then the job of the    *)
(* goroutine, then done with; while it is one of the first two, the broker *)
(* still owes it to that connection (or the channel has ended, and it is   *)
(* owed elsewhere), its handler and its answer are as far as the place of  *)
(* the goroutine says, and no acknowledgement was sent.  The step that all *)
(* actions of a goroutine have in common is WorkStep: it disturbs one      *)
(* goroutine and one delivery, so what IInv says of the others is kept.    *)
(***************************************************************************)
EXTENDS Deliveries, ConnectionProofs, FiniteSetTheorems

(* The part of TypeOK that is not about the connection. *)
ValuesOK ==
    /\ shape \in [Messages -> Shapes]
    /\ ready \subseteq Messages
    /\ unacked \subseteq Deliveries
    /\ acked \subseteq Deliveries
    /\ fetched \subseteq Deliveries
    /\ at \in [Workers -> Places]
    /\ job \in [Workers -> Optional(Messages)]
    /\ via \in [Workers -> ConnsOrNil]
    /\ handled \in [Deliveries -> Ends \cup {"not"}]
    /\ results \subseteq Deliveries \X Verdicts

(* Where a goroutine works on a delivery. *)
Busy == {"handler", "answer", "publish", "ack"}

(* No answer was published for the delivery of m on g. *)
Unanswered(m, g) == \A v \in Verdicts : <<<<m, g>>, v>> \notin results

(* The broker gave m to connection g, and has not put it back. *)
Owed(m, g) == <<m, g>> \in unacked \cup acked

(* The program has seen the delivery of m on g. *)
Touched(m, g) ==
    \/ <<m, g>> \in fetched
    \/ m \in job[<<QueueOf(m), g>>]
    \/ handled[<<m, g>>] # "not"
    \/ ~Unanswered(m, g)

(* A Close took connection g; or its channel may no longer be the one that
   t.ch names and the delivery's acknowledgement goes over. *)
ShutDown(g) == \E k \in Closers : holds[k] = g

CutOff(g) == ShutDown(g) \/ g \notin chOpen

(* A call of Close that has not begun holds no connection: so what is shut
   down stays shut down. *)
ShutForGood == \A k \in Closers : closerPc[k] = "idle" => holds[k] = Nil

(* A goroutine runs on a connection that was dialed and works on a message of
   its own queue. It answers on its own connection, unless that is cut off. *)
WorkerOK(q, g) ==
    /\ at[<<q, g>>] # "none" => g <= dialed
    /\ \A m \in job[<<q, g>>] : QueueOf(m) = q
    /\ job[<<q, g>>] # {} <=> at[<<q, g>>] \in Busy
    /\ at[<<q, g>>] = "publish" => via[<<q, g>>] \in Conns /\ (via[<<q, g>>] = g \/ CutOff(g))

WorkersOK == \A q \in Queues, g \in Conns : WorkerOK(q, g)

(* Nothing has happened to a delivery that waits in the deliveries channel. *)
FetchOK(m, g) ==
    <<m, g>> \in fetched =>
        /\ m \notin job[<<QueueOf(m), g>>]
        /\ handled[<<m, g>>] = "not"
        /\ <<m, g>> \notin acked
        /\ Unanswered(m, g)

FetchedOK == \A m \in Messages, g \in Conns : FetchOK(m, g)

(* A job is as far as the place of its goroutine says; an acknowledgement is
   due only when the handler has run and the answer is out or cannot be. *)
JobOK(q, g, m) ==
    /\ <<m, g>> \notin acked
    /\ at[<<q, g>>] = "handler" => handled[<<m, g>>] = "not" /\ ~Dropped(m)
    /\ at[<<q, g>>] \in {"answer", "publish"} => handled[<<m, g>>] # "not" /\ Answered(m)
    /\ at[<<q, g>>] # "ack" => Unanswered(m, g)
    /\ at[<<q, g>>] = "ack" =>
        /\ Dropped(m) \/ handled[<<m, g>>] # "not"
        /\ \/ ~Answered(m)
           \/ ~Unanswered(m, g)
           \/ handled[<<m, g>>] = "unencodable"
           \/ CutOff(g)

JobsOK == \A q \in Queues, g \in Conns : \A m \in job[<<q, g>>] : JobOK(q, g, m)

(* What the program has seen was delivered, and on a live channel the broker
   has not put it back. *)
TouchedOwed ==
    \A m \in Messages, g \in Conns : Touched(m, g) => g <= dialed /\ (g \in chOpen => Owed(m, g))

(* The broker's account: a message is ready or owed to one connection. *)
AccountOK ==
    /\ unacked \cap acked = {}
    /\ \A m \in Messages, g \in Conns : <<m, g>> \in unacked => g \in chOpen
    /\ \A m \in Messages, g \in Conns : <<m, g>> \in acked => g <= dialed
    /\ \A m \in Messages : m \in ready <=> \A g \in Conns : ~Owed(m, g)
    /\ \A m \in Messages, g, h \in Conns : Owed(m, g) /\ Owed(m, h) => g = h

(* On a live channel, what a running goroutine has not acknowledged is still
   in its channel or is its job. *)
NoLeak ==
    \A m \in Messages, g \in chOpen :
        at[<<QueueOf(m), g>>] # "stopped" /\ <<m, g>> \in unacked =>
            <<m, g>> \in fetched \/ m \in job[<<QueueOf(m), g>>]

(* What SettledMeansHandled and SettledMeansAnswered say of one delivery. *)
SettleOK(m, g) ==
    <<m, g>> \in acked =>
        /\ Dropped(m) \/ handled[<<m, g>>] # "not"
        /\ \/ ~Answered(m)
           \/ ~Unanswered(m, g)
           \/ handled[<<m, g>>] = "unencodable"
           \/ ShutDown(g)

SettledOK == \A m \in Messages, g \in Conns : SettleOK(m, g)

Parts ==
    /\ WorkersOK
    /\ FetchedOK
    /\ JobsOK
    /\ TouchedOwed
    /\ AccountOK
    /\ NoLeak
    /\ SettledOK

(* The inductive invariant. *)
IInv == ConnInv /\ LiveChannels /\ ShutForGood /\ ValuesOK /\ Parts

-----------------------------------------------------------------------------
(* A goroutine's step changes no connection, and every step changes the
   connections as Connection says. *)
LEMMA ConsumeLocal ==
  ASSUME NEW q \in Queues, NEW g \in Conns, Consume(q, g)
  PROVE  UNCHANGED <<connVars, closerVars, shape>>
<1>1. CASE Receive(q, g) \/ HandlerReturns(q, g)
  BY <1>1 DEF Receive, HandlerReturns
<1>2. CASE ReadChannel(q, g) \/ NoChannel(q, g)
  BY <1>2 DEF ReadChannel, NoChannel
<1>3. CASE EncodeFails(q, g) \/ Publish(q, g) \/ PublishFails(q, g)
  BY <1>3 DEF EncodeFails, Publish, PublishFails
<1>4. CASE Ack(q, g) \/ Stop(q, g)
  BY <1>4 DEF Ack, Stop
<1>5. QED
  BY <1>1, <1>2, <1>3, <1>4 DEF Consume

LEMMA ConnPart ==
  ASSUME Next
  PROVE  ConnNext \/ UNCHANGED <<connVars, closerVars>>
<1>1. CASE Connect
  BY <1>1 DEF Connect, ConnNext
<1>2. CASE \E g \in Conns : Lose(g)
  BY <1>2 DEF Lose, ConnNext
<1>3. CASE \E k \in Closers : Close(k)
  BY <1>3 DEF Close, ConnNext
<1>4. CASE \E q \in Queues, g \in Conns : Consume(q, g)
  BY <1>4, ConsumeLocal
<1>5. QED
  BY <1>1, <1>2, <1>3, <1>4 DEF Next, StartConsumers, Deliver, Rest, vars

(* Every message is of a queue that is consumed. *)
LEMMA ShapesOK ==
  ASSUME ValuesOK, NEW m \in Messages
  PROVE  QueueOf(m) \in Queues
<1>1. shape[m] \in Shapes
  BY DEF ValuesOK
<1>2. PICK q \in Queues : shape[m] \in {q} \X KindsOf[q]
  BY <1>1 DEF Shapes
<1>3. QED
  BY <1>2 DEF QueueOf

(* A live channel is the one that t.ch names, or a Close holds its connection. *)
LEMMA LiveIsDialed ==
  ASSUME ConnInv, LiveChannels, NEW g \in chOpen
  PROVE  /\ g \in 1..dialed
         /\ channel = g \/ \E k \in Closers : holds[k] = g
<1>1. (started /\ channel = g) \/ \E k \in Closers : Closing(k) /\ holds[k] = g
  BY DEF ConnInv, LiveChannels, NoOrphanConnection
<1>2. channel = g \/ \E k \in Closers : holds[k] = g
  BY <1>1
<1>3. g <= dialed
  BY <1>1, MaxConnsAssumption DEF ConnInv, ConnTypeOK, CurrentConnection, HeldConnections, ConnsOrNil
<1>4. QED
  BY <1>2, <1>3 DEF ConnInv, ConnTypeOK, Conns

(* The types are kept, by a goroutine's step and by every other. *)
LEMMA ConsumeTypes ==
  ASSUME ConnInv, ValuesOK, NEW q \in Queues, NEW g \in Conns, Consume(q, g)
  PROVE  ValuesOK'
<1> USE MaxConnsAssumption
    DEF ValuesOK, Workers, Deliveries, Places, Optional, Goto, Nil, ConnsOrNil
<1>1. CASE Receive(q, g)
  BY <1>1 DEF Receive
<1>2. CASE HandlerReturns(q, g)
  BY <1>2 DEF HandlerReturns, EndsOf, Ends, brokerVars
<1>3. CASE ReadChannel(q, g)
  BY <1>3 DEF ReadChannel, brokerVars, ConnInv, ConnTypeOK
<1>4. CASE NoChannel(q, g)
  BY <1>4 DEF NoChannel, brokerVars
<1>5. CASE EncodeFails(q, g)
  BY <1>5 DEF EncodeFails, brokerVars
<1>10. CASE PublishFails(q, g)
  BY <1>10 DEF PublishFails, brokerVars
<1>6. CASE Publish(q, g)
  BY <1>6 DEF Publish, Verdict, Verdicts, brokerVars, Nil, ConnsOrNil
<1>7. CASE Ack(q, g)
  BY <1>7 DEF Ack
<1>8. CASE Stop(q, g)
  BY <1>8 DEF Stop
<1>9. QED
  BY <1>1, <1>2, <1>3, <1>4, <1>5, <1>6, <1>7, <1>8, <1>10 DEF Consume

LEMMA NextTypes ==
  ASSUME ConnInv, ValuesOK, Next
  PROVE  ValuesOK'
<1> USE DEF ValuesOK, Workers, Deliveries, Places, brokerVars, workerVars
<1>1. CASE Connect
  BY <1>1 DEF Connect
<1>2. CASE StartConsumers
  BY <1>2 DEF StartConsumers
<1>3. CASE \E m \in Messages, g \in Conns : Deliver(m, g)
  BY <1>3 DEF Deliver
<1>4. CASE (\E g \in Conns : Lose(g)) \/ \E k \in Closers : Close(k)
  <2>1. UNCHANGED <<shape, workerVars, handled, results>> /\ Requeue
    BY <1>4 DEF Lose, Close
  <2>2. QED
    BY <2>1 DEF Requeue
<1>5. CASE \E q \in Queues, g \in Conns : Consume(q, g)
  BY <1>5, ConsumeTypes
<1>6. CASE Rest
  BY <1>6 DEF Rest, vars
<1>7. QED
  BY <1>1, <1>2, <1>3, <1>4, <1>5, <1>6 DEF Next

(* A step of the connections, or of the broker when a channel ends: what was not
   acknowledged is put back, no dialed channel comes back to life, and no
   connection that was shut down is forgotten. *)
LEMMA ConnectionStep ==
  ASSUME IInv, dialed \in Nat, dialed' \in Nat, dialed <= dialed',
         UNCHANGED <<shape, workerVars, handled, results, acked, fetched>>,
         \A g \in Conns : g <= dialed /\ g \in chOpen' => g \in chOpen,
         \A k \in Closers, g \in Conns : holds[k] = g => holds'[k] = g,
         unacked' = {d \in unacked : d[2] \in chOpen'},
         ready' = ready \cup {m \in Messages : \E g \in Conns : <<m, g>> \in unacked \ unacked'}
  PROVE  Parts'
<1> USE DEF Parts, workerVars, Dropped, Answered, KindOf, QueueOf, Unanswered
<1>1. \A g \in Conns : ShutDown(g) => ShutDown(g)'
  BY DEF ShutDown
<1>2. \A g \in Conns : g <= dialed /\ CutOff(g) => CutOff(g)'
  BY <1>1 DEF CutOff
<1>3. \A g \in Conns : g <= dialed => g <= dialed'
  BY DEF Conns
<1>4. \A m \in Messages, g \in Conns : <<m, g>> \in unacked' <=> <<m, g>> \in unacked /\ g \in chOpen'
  OBVIOUS
<1>5. \A m \in Messages, g \in Conns : <<m, g>> \in unacked => g \in chOpen /\ g <= dialed
  BY LiveIsDialed DEF IInv, AccountOK
<1>6. WorkersOK'
  BY <1>2, <1>3 DEF IInv, WorkersOK, WorkerOK
<1>7. FetchedOK'
  BY DEF IInv, FetchedOK, FetchOK
<1>8. JobsOK'
  <2>1. \A q \in Queues, g \in Conns : job[<<q, g>>] # {} => g <= dialed
    BY DEF IInv, WorkersOK, WorkerOK, Busy
  <2>2. ASSUME NEW q \in Queues, NEW g \in Conns, NEW m \in job'[<<q, g>>]
        PROVE  JobOK(q, g, m)'
    <3>1. JobOK(q, g, m) /\ g <= dialed
      BY <2>1 DEF IInv, JobsOK
    <3>2. QED
      BY <3>1, <1>2 DEF JobOK
  <2>3. QED
    BY <2>2 DEF JobsOK
<1>9. TouchedOwed'
  BY <1>3, <1>4 DEF IInv, TouchedOwed, Touched, Owed
<1>10. AccountOK'
  <2>1. unacked' \cap acked' = {}
    BY DEF IInv, AccountOK
  <2>2. \A m \in Messages, g \in Conns : <<m, g>> \in unacked' => g \in chOpen'
    BY <1>4
  <2>3. \A m \in Messages, g \in Conns : <<m, g>> \in acked' => g <= dialed'
    BY <1>3 DEF IInv, AccountOK
  <2>4. \A m \in Messages, g \in Conns : Owed(m, g)' => Owed(m, g)
    BY <1>4 DEF Owed
  <2>5. \A m \in Messages, g, h \in Conns : Owed(m, g)' /\ Owed(m, h)' => g = h
    BY <2>4 DEF IInv, AccountOK
  <2>6. ASSUME NEW m \in Messages
        PROVE  m \in ready' <=> \A g \in Conns : ~Owed(m, g)'
    <3>1. CASE \A g \in Conns : ~Owed(m, g)
      BY <2>4, <3>1 DEF IInv, AccountOK
    <3>2. ASSUME NEW g \in Conns, Owed(m, g)
          PROVE  m \in ready' <=> \A h \in Conns : ~Owed(m, h)'
      <4>1. m \notin ready /\ \A h \in Conns : Owed(m, h) => h = g
        BY <3>2 DEF IInv, AccountOK
      <4>2. m \in ready' <=> <<m, g>> \in unacked /\ <<m, g>> \notin unacked'
        BY <4>1 DEF Owed
      <4>3. <<m, g>> \notin unacked \/ <<m, g>> \notin acked
        BY DEF IInv, AccountOK
      <4>4. Owed(m, g)' <=> <<m, g>> \in unacked' \/ <<m, g>> \in acked
        BY DEF Owed
      <4>5. QED
        BY <2>4, <3>2, <4>1, <4>2, <4>3, <4>4 DEF Owed
    <3>3. QED
      BY <3>1, <3>2
  <2>7. QED
    BY <2>1, <2>2, <2>3, <2>5, <2>6 DEF AccountOK
<1>11. NoLeak'
  BY <1>4, <1>5 DEF IInv, NoLeak, ValuesOK, Deliveries
<1>12. SettledOK'
  BY <1>1 DEF IInv, SettledOK, SettleOK
<1>13. QED
  BY <1>6, <1>7, <1>8, <1>9, <1>10, <1>11, <1>12

(* Goroutines start on a connection that has none: none has a job there. *)
LEMMA StartConsumersStep ==
  ASSUME IInv, StartConsumers
  PROVE  Parts'
<1> USE DEF Parts, Dropped, Answered, KindOf, QueueOf, Unanswered
<1>1. /\ UNCHANGED <<connVars, closerVars, shape, brokerVars, job, via, handled, results>>
      /\ at' = [w \in Workers |-> IF w[2] = channel THEN "select" ELSE at[w]]
      /\ \A q \in Queues : at[<<q, channel>>] = "none"
      /\ channel <= dialed
  BY LiveIsDialed DEF StartConsumers, IInv
<1> USE DEF connVars, closerVars, brokerVars
<1>2. ASSUME NEW q \in Queues, NEW g \in Conns
      PROVE  /\ g # channel => at'[<<q, g>>] = at[<<q, g>>]
             /\ g = channel => at'[<<q, g>>] = "select" /\ at[<<q, g>>] = "none"
  BY <1>1 DEF IInv, ValuesOK, Workers
<1>3. \A g \in Conns : CutOff(g) => CutOff(g)'
  BY <1>1 DEF CutOff, ShutDown
<1>4. WorkersOK'
  <2>1. ASSUME NEW q \in Queues, NEW g \in Conns
        PROVE  WorkerOK(q, g)'
    <3>1. WorkerOK(q, g)
      BY DEF IInv, WorkersOK
    <3>2. QED
      BY <1>1, <1>2, <1>3, <3>1 DEF WorkerOK, Busy
  <2>2. QED
    BY <2>1 DEF WorkersOK
<1>5. FetchedOK'
  BY <1>1 DEF IInv, FetchedOK, FetchOK
<1>6. JobsOK'
  <2>1. ASSUME NEW q \in Queues, NEW g \in Conns, NEW m \in job'[<<q, g>>]
        PROVE  JobOK(q, g, m)'
    <3>1. JobOK(q, g, m) /\ WorkerOK(q, g)
      BY <1>1 DEF IInv, JobsOK, WorkersOK
    <3>2. g # channel
      BY <1>1, <1>2, <3>1 DEF WorkerOK, Busy
    <3>3. QED
      BY <1>1, <1>2, <1>3, <3>1, <3>2 DEF JobOK
  <2>2. QED
    BY <2>1 DEF JobsOK
<1>7. TouchedOwed'
  BY <1>1 DEF IInv, TouchedOwed, Touched, Owed
<1>8. AccountOK'
  BY <1>1 DEF IInv, AccountOK, Owed
<1>9. NoLeak'
  <2>1. ASSUME NEW m \in Messages, NEW g \in chOpen
        PROVE  QueueOf(m) \in Queues /\ g \in Conns
    BY ShapesOK DEF IInv, ConnInv, ConnTypeOK
  <2>2. QED
    BY <1>1, <1>2, <2>1 DEF IInv, NoLeak
<1>10. SettledOK'
  BY <1>1 DEF IInv, SettledOK, SettleOK, ShutDown
<1>11. QED
  BY <1>4, <1>5, <1>6, <1>7, <1>8, <1>9, <1>10

(* A message that is ready was never seen on a live channel. *)
LEMMA DeliverStep ==
  ASSUME IInv, NEW m \in Messages, NEW g \in Conns, Deliver(m, g)
  PROVE  Parts'
<1> USE DEF Parts, Dropped, Answered, KindOf, QueueOf, Unanswered
<1>1. /\ UNCHANGED <<connVars, closerVars, shape, acked, workerVars, handled, results>>
      /\ m \in ready
      /\ g \in chOpen
      /\ ready' = ready \ {m}
      /\ unacked' = unacked \cup {<<m, g>>}
      /\ fetched' = fetched \cup {<<m, g>>}
  BY DEF Deliver
<1>2. g <= dialed
  BY <1>1, LiveIsDialed DEF IInv
<1>3. ~Touched(m, g) /\ \A h \in Conns : ~Owed(m, h)
  BY <1>1 DEF IInv, TouchedOwed, AccountOK
<1> USE DEF connVars, closerVars, workerVars
<1>4. WorkersOK'
  BY <1>1 DEF IInv, WorkersOK, WorkerOK, CutOff, ShutDown
<1>5. FetchedOK'
  BY <1>1, <1>3 DEF IInv, FetchedOK, FetchOK, Touched, Owed
<1>6. JobsOK'
  <2>1. ASSUME NEW q \in Queues, NEW h \in Conns, NEW n \in job'[<<q, h>>]
        PROVE  JobOK(q, h, n)'
    <3>1. JobOK(q, h, n)
      BY <1>1 DEF IInv, JobsOK
    <3>2. QED
      BY <1>1, <3>1 DEF JobOK, CutOff, ShutDown
  <2>2. QED
    BY <2>1 DEF JobsOK
<1>7. TouchedOwed'
  BY <1>1, <1>2 DEF IInv, TouchedOwed, Touched, Owed
<1>8. AccountOK'
  <2>1. \A n \in Messages, h \in Conns : Owed(n, h)' <=> Owed(n, h) \/ (n = m /\ h = g)
    BY <1>1 DEF Owed
  <2>2. unacked' \cap acked' = {}
    BY <1>1, <1>3 DEF IInv, AccountOK, Owed
  <2>3. \A n \in Messages, h \in Conns : <<n, h>> \in unacked' => h \in chOpen'
    BY <1>1 DEF IInv, AccountOK
  <2>4. \A n \in Messages, h \in Conns : <<n, h>> \in acked' => h <= dialed'
    BY <1>1 DEF IInv, AccountOK
  <2>5. \A n \in Messages : n \in ready' <=> \A h \in Conns : ~Owed(n, h)'
    BY <1>1, <2>1 DEF IInv, AccountOK
  <2>6. \A n \in Messages, h, i \in Conns : Owed(n, h)' /\ Owed(n, i)' => h = i
    BY <1>3, <2>1 DEF IInv, AccountOK
  <2>7. QED
    BY <2>2, <2>3, <2>4, <2>5, <2>6 DEF AccountOK
<1>9. NoLeak'
  BY <1>1 DEF IInv, NoLeak
<1>10. SettledOK'
  BY <1>1 DEF IInv, SettledOK, SettleOK, ShutDown
<1>11. QED
  BY <1>4, <1>5, <1>6, <1>7, <1>8, <1>9, <1>10

(* The frame of a goroutine's step. It disturbs the goroutine (q, g) and the
   delivery of m on g only, m is its job before and after if it has one, and
   what the invariant says of those two is kept. *)
LEMMA WorkStep ==
  ASSUME IInv, NEW q \in Queues, NEW g \in Conns, NEW m \in Messages, QueueOf(m) = q,
         UNCHANGED <<connVars, closerVars, shape, ready>>,
         \A w \in Workers : w # <<q, g>> =>
            at'[w] = at[w] /\ via'[w] = via[w] /\ job'[w] = job[w],
         \A n \in job[<<q, g>>] : n = m,
         \A d \in Deliveries : d # <<m, g>> =>
            /\ handled'[d] = handled[d]
            /\ d \in fetched' <=> d \in fetched
            /\ d \in unacked' <=> d \in unacked
            /\ d \in acked' <=> d \in acked
            /\ \A v \in Verdicts : <<d, v>> \in results' <=> <<d, v>> \in results,
         acked' \cap unacked' = {}, <<m, g>> \in unacked' => <<m, g>> \in unacked,
         <<m, g>> \in acked' => Owed(m, g),
         Owed(m, g)' <=> Owed(m, g),
         at[<<q, g>>] # "stopped",
         WorkerOK(q, g)',
         \A n \in job'[<<q, g>>] : n = m /\ JobOK(q, g, n)',
         FetchOK(m, g)',
         SettleOK(m, g)',
         Touched(m, g)' => Touched(m, g),
         <<m, g>> \in unacked' => <<m, g>> \in fetched' \/ m \in job'[<<q, g>>]
  PROVE  Parts'
<1> USE DEF Parts, Dropped, Answered, KindOf, connVars, closerVars
<1>1. ASSUME NEW p \in Queues, NEW h \in Conns, p # q \/ h # g
      PROVE  /\ at'[<<p, h>>] = at[<<p, h>>]
             /\ via'[<<p, h>>] = via[<<p, h>>]
             /\ job'[<<p, h>>] = job[<<p, h>>]
  BY <1>1 DEF Workers
<1>2. ASSUME NEW n \in Messages, NEW h \in Conns, n # m \/ h # g
      PROVE  /\ handled'[<<n, h>>] = handled[<<n, h>>]
             /\ <<n, h>> \in fetched' <=> <<n, h>> \in fetched
             /\ <<n, h>> \in unacked' <=> <<n, h>> \in unacked
             /\ <<n, h>> \in acked' <=> <<n, h>> \in acked
             /\ Unanswered(n, h)' <=> Unanswered(n, h)
             /\ Owed(n, h)' <=> Owed(n, h)
  <2>1. <<n, h>> \in Deliveries /\ <<n, h>> # <<m, g>>
    BY <1>2 DEF Deliveries
  <2>2. QED
    BY <2>1 DEF Unanswered, Owed
<1>3. ASSUME NEW n \in Messages, NEW h \in Conns, n # m \/ h # g
      PROVE  /\ QueueOf(n)' = QueueOf(n)
             /\ n \in job'[<<QueueOf(n), h>>] => n \in job[<<QueueOf(n), h>>]
             /\ n \in job[<<QueueOf(n), h>>] => n \in job'[<<QueueOf(n), h>>]
  <2>1. QueueOf(n) \in Queues
    BY ShapesOK DEF IInv
  <2>2. CASE QueueOf(n) # q \/ h # g
    BY <1>1, <2>1, <2>2 DEF QueueOf
  <2>3. CASE QueueOf(n) = q /\ h = g
    BY <1>3, <2>3 DEF QueueOf
  <2>4. QED
    BY <2>2, <2>3
<1>4. WorkersOK'
  <2>1. ASSUME NEW p \in Queues, NEW h \in Conns
        PROVE  WorkerOK(p, h)'
    <3>1. CASE p # q \/ h # g
      BY <1>1, <3>1 DEF IInv, WorkersOK, WorkerOK, CutOff, ShutDown, QueueOf
    <3>2. CASE p = q /\ h = g
      BY <3>2
    <3>3. QED
      BY <3>1, <3>2
  <2>2. QED
    BY <2>1 DEF WorkersOK
<1>5. FetchedOK'
  <2>1. ASSUME NEW n \in Messages, NEW h \in Conns
        PROVE  FetchOK(n, h)'
    <3>1. CASE n # m \/ h # g
      <4>1. FetchOK(n, h)
        BY DEF IInv, FetchedOK
      <4>2. n \in job'[<<QueueOf(n)', h>>] => n \in job[<<QueueOf(n), h>>]
        BY <1>3, <3>1
      <4>3. QED
        BY <1>2, <3>1, <4>1, <4>2 DEF FetchOK
    <3>2. CASE n = m /\ h = g
      BY <3>2
    <3>3. QED
      BY <3>1, <3>2
  <2>2. QED
    BY <2>1 DEF FetchedOK
<1>6. JobsOK'
  <2>1. ASSUME NEW p \in Queues, NEW h \in Conns, NEW n \in job'[<<p, h>>]
        PROVE  JobOK(p, h, n)'
    <3>1. CASE p # q \/ h # g
      <4>1. n \in job[<<p, h>>] /\ n \in Messages /\ QueueOf(n) = p
        <5>1. n \in job[<<p, h>>]
          BY <1>1, <3>1
        <5>2. job[<<p, h>>] \in Optional(Messages)
          BY DEF IInv, ValuesOK, Workers
        <5>3. WorkerOK(p, h)
          BY DEF IInv, WorkersOK
        <5>4. QED
          BY <5>1, <5>2, <5>3 DEF Optional, WorkerOK
      <4>2. n # m \/ h # g
        BY <3>1, <4>1
      <4>3. JobOK(p, h, n)
        BY <4>1 DEF IInv, JobsOK
      <4>4. QED
        BY <1>1, <1>2, <3>1, <4>1, <4>2, <4>3 DEF JobOK, CutOff, ShutDown
    <3>2. CASE p = q /\ h = g
      BY <3>2
    <3>3. QED
      BY <3>1, <3>2
  <2>2. QED
    BY <2>1 DEF JobsOK
<1>7. TouchedOwed'
  <2>1. ASSUME NEW n \in Messages, NEW h \in Conns, Touched(n, h)'
        PROVE  Touched(n, h) /\ (Owed(n, h)' <=> Owed(n, h))
    <3>1. CASE n # m \/ h # g
      BY <1>2, <1>3, <2>1, <3>1 DEF Touched
    <3>2. CASE n = m /\ h = g
      BY <2>1, <3>2
    <3>3. QED
      BY <3>1, <3>2
  <2>2. QED
    BY <2>1 DEF IInv, TouchedOwed
<1>8. AccountOK'
  <2>1. \A n \in Messages, h \in Conns : Owed(n, h)' <=> Owed(n, h)
    BY <1>2
  <2>2. \A n \in Messages, h \in Conns : <<n, h>> \in unacked' => <<n, h>> \in unacked
    BY <1>2
  <2>3. \A n \in Messages, h \in Conns : <<n, h>> \in acked' => h <= dialed'
    <3>1. \A n \in Messages, h \in Conns : <<n, h>> \in acked' => Owed(n, h)
      BY <2>1 DEF Owed
    <3>2. \A n \in Messages, h \in Conns : Owed(n, h) => h <= dialed
      BY LiveIsDialed DEF IInv, AccountOK, Owed
    <3>3. QED
      BY <3>1, <3>2
  <2>4. QED
    BY <2>1, <2>2, <2>3 DEF IInv, AccountOK
<1>9. NoLeak'
  <2>1. ASSUME NEW n \in Messages, NEW h \in chOpen, at'[<<QueueOf(n), h>>] # "stopped",
               <<n, h>> \in unacked'
        PROVE  <<n, h>> \in fetched' \/ n \in job'[<<QueueOf(n), h>>]
    <3>1. QueueOf(n) \in Queues /\ h \in Conns
      BY ShapesOK DEF IInv, ConnInv, ConnTypeOK
    <3>2. at[<<QueueOf(n), h>>] # "stopped"
      BY <1>1, <2>1, <3>1
    <3>3. CASE n # m \/ h # g
      BY <1>2, <1>3, <2>1, <3>1, <3>2, <3>3 DEF IInv, NoLeak
    <3>4. CASE n = m /\ h = g
      BY <2>1, <3>4
    <3>5. QED
      BY <3>3, <3>4
  <2>2. QED
    BY <2>1 DEF NoLeak, QueueOf
<1>10. SettledOK'
  <2>1. ASSUME NEW n \in Messages, NEW h \in Conns
        PROVE  SettleOK(n, h)'
    <3>1. CASE n # m \/ h # g
      BY <1>2, <3>1 DEF IInv, SettledOK, SettleOK, ShutDown
    <3>2. CASE n = m /\ h = g
      BY <3>2
    <3>3. QED
      BY <3>1, <3>2
  <2>2. QED
    BY <2>1 DEF SettledOK
<1>11. QED
  BY <1>4, <1>5, <1>6, <1>7, <1>8, <1>9, <1>10

(* A busy goroutine has one job, a message of its queue. *)
LEMMA AtWork ==
  ASSUME IInv, NEW q \in Queues, NEW g \in Conns, at[<<q, g>>] \in Busy
  PROVE  \E m \in Messages :
            /\ QueueOf(m) = q
            /\ job[<<q, g>>] = {m}
            /\ JobOK(q, g, m)
            /\ <<m, g>> \notin fetched
            /\ Touched(m, g)
<1>1. WorkerOK(q, g)
  BY DEF IInv, Parts, WorkersOK
<1>2. job[<<q, g>>] \in Optional(Messages) /\ job[<<q, g>>] # {}
  BY <1>1 DEF IInv, ValuesOK, Workers, WorkerOK
<1>3. PICK m \in Messages : job[<<q, g>>] = {m}
  BY <1>2 DEF Optional
<1>4. QueueOf(m) = q
  BY <1>1, <1>3 DEF WorkerOK
<1>5. FetchOK(m, g) /\ JobOK(q, g, m)
  BY <1>3 DEF IInv, Parts, FetchedOK, JobsOK
<1>6. QED
  BY <1>3, <1>4, <1>5 DEF FetchOK, Touched

(* The steps of a goroutine, one by one. *)
LEMMA ReceiveStep ==
  ASSUME IInv, NEW q \in Queues, NEW g \in Conns, Receive(q, g)
  PROVE  Parts'
<1>1. PICK m \in Messages :
        /\ QueueOf(m) = q
        /\ <<m, g>> \in fetched
        /\ Goto(<<q, g>>, "select", IF Dropped(m) THEN "ack" ELSE "handler")
        /\ job' = [job EXCEPT ![<<q, g>>] = {m}]
        /\ fetched' = fetched \ {<<m, g>>}
        /\ UNCHANGED <<connVars, closerVars, shape, ready, unacked, acked, via, handled, results>>
  BY DEF Receive
<1>2. WorkerOK(q, g) /\ FetchOK(m, g)
  BY DEF IInv, Parts, WorkersOK, FetchedOK
<1>3. /\ job[<<q, g>>] = {}
      /\ at[<<q, g>>] = "select"
      /\ at' = [at EXCEPT ![<<q, g>>] = IF Dropped(m) THEN "ack" ELSE "handler"]
  BY <1>1, <1>2 DEF Goto, WorkerOK, Busy
<1>4. \A w \in Workers : w # <<q, g>> => at'[w] = at[w] /\ via'[w] = via[w] /\ job'[w] = job[w]
  BY <1>1, <1>3 DEF IInv, ValuesOK
<1>5. <<q, g>> \in Workers
  BY DEF Workers
<1>6. /\ at'[<<q, g>>] = IF Dropped(m) THEN "ack" ELSE "handler"
      /\ job'[<<q, g>>] = {m}
  BY <1>1, <1>3, <1>5 DEF IInv, ValuesOK
<1>7. <<m, g>> \notin fetched' /\ <<m, g>> \notin acked /\ handled[<<m, g>>] = "not" /\ Unanswered(m, g)
  BY <1>1, <1>2 DEF FetchOK
<1>8. WorkerOK(q, g)'
  BY <1>1, <1>2, <1>3, <1>6 DEF WorkerOK, Busy, connVars, QueueOf
<1>9. JobOK(q, g, m)'
  BY <1>1, <1>6, <1>7 DEF JobOK, Unanswered, Dropped, Answered, KindOf
<1>10. FetchOK(m, g)' /\ SettleOK(m, g)'
  BY <1>1, <1>7 DEF FetchOK, SettleOK
<1>11. Touched(m, g)
  BY <1>1 DEF Touched
<1>12. Owed(m, g)' <=> Owed(m, g)
  BY <1>1 DEF Owed
<1>13. acked' \cap unacked' = {}
  BY <1>1 DEF IInv, Parts, AccountOK
<1>14. QED
  BY <1>1, <1>3, <1>4, <1>6, <1>7, <1>8, <1>9, <1>10, <1>11, <1>12, <1>13, WorkStep

LEMMA HandlerReturnsStep ==
  ASSUME IInv, NEW q \in Queues, NEW g \in Conns, HandlerReturns(q, g)
  PROVE  Parts'
<1>m. PICK m \in job[<<q, g>>] : \E end \in EndsOf(m) :
        /\ handled' = [handled EXCEPT ![<<m, g>>] = end]
        /\ Goto(<<q, g>>, "handler", IF Answered(m) THEN "answer" ELSE "ack")
        /\ UNCHANGED <<connVars, closerVars, shape, brokerVars, job, via, results>>
  BY DEF HandlerReturns
<1>1. PICK end \in EndsOf(m) :
        /\ handled' = [handled EXCEPT ![<<m, g>>] = end]
        /\ Goto(<<q, g>>, "handler", IF Answered(m) THEN "answer" ELSE "ack")
        /\ UNCHANGED <<connVars, closerVars, shape, brokerVars, job, via, results>>
  BY <1>m
<1>2. /\ at[<<q, g>>] = "handler"
      /\ at' = [at EXCEPT ![<<q, g>>] = IF Answered(m) THEN "answer" ELSE "ack"]
      /\ end # "not"
  BY <1>1 DEF Goto, EndsOf, Ends
<1>3. /\ m \in Messages
      /\ QueueOf(m) = q
      /\ job[<<q, g>>] = {m}
      /\ JobOK(q, g, m)
      /\ <<m, g>> \notin fetched
      /\ Touched(m, g)
  BY <1>1, <1>2, AtWork DEF Busy
<1>4. \A w \in Workers : w # <<q, g>> => at'[w] = at[w] /\ via'[w] = via[w] /\ job'[w] = job[w]
  BY <1>1, <1>2 DEF IInv, ValuesOK
<1>5. <<q, g>> \in Workers /\ <<m, g>> \in Deliveries
  BY <1>3 DEF Workers, Deliveries
<1>6. /\ at'[<<q, g>>] = IF Answered(m) THEN "answer" ELSE "ack"
      /\ handled'[<<m, g>>] = end
      /\ \A d \in Deliveries : d # <<m, g>> => handled'[d] = handled[d]
  BY <1>1, <1>2, <1>5 DEF IInv, ValuesOK
<1>7. WorkerOK(q, g)'
  <2>1. WorkerOK(q, g)
    BY DEF IInv, Parts, WorkersOK
  <2>2. QED
    BY <1>1, <1>2, <1>3, <1>6, <2>1 DEF WorkerOK, Busy, connVars, QueueOf
<1>8. JobOK(q, g, m)'
  BY <1>1, <1>2, <1>3, <1>6 DEF JobOK, brokerVars, Unanswered, Dropped, Answered, KindOf
<1>9. FetchOK(m, g)' /\ SettleOK(m, g)'
  BY <1>1, <1>2, <1>3 DEF FetchOK, SettleOK, JobOK, brokerVars
<1>10. (Owed(m, g)' <=> Owed(m, g)) /\ acked' \cap unacked' = {}
  BY <1>1 DEF Owed, brokerVars, IInv, Parts, AccountOK
<1>11. QED
  BY <1>1, <1>2, <1>3, <1>4, <1>6, <1>7, <1>8, <1>9, <1>10, WorkStep DEF brokerVars, Owed

LEMMA ReadChannelStep ==
  ASSUME IInv, NEW q \in Queues, NEW g \in Conns, ReadChannel(q, g)
  PROVE  Parts'
<1>1. /\ channel # Nil
      /\ at[<<q, g>>] = "answer"
      /\ at' = [at EXCEPT ![<<q, g>>] = "publish"]
      /\ via' = [via EXCEPT ![<<q, g>>] = channel]
      /\ UNCHANGED <<connVars, closerVars, shape, brokerVars, job, handled, results>>
  BY DEF ReadChannel, Goto
<1>2. PICK m \in Messages :
        /\ QueueOf(m) = q
        /\ job[<<q, g>>] = {m}
        /\ JobOK(q, g, m)
        /\ <<m, g>> \notin fetched
        /\ Touched(m, g)
  BY <1>1, AtWork DEF Busy
<1>3. \A w \in Workers : w # <<q, g>> => at'[w] = at[w] /\ via'[w] = via[w] /\ job'[w] = job[w]
  BY <1>1 DEF IInv, ValuesOK
<1>4. at'[<<q, g>>] = "publish" /\ via'[<<q, g>>] = channel
  BY <1>1 DEF IInv, ValuesOK, Workers
<1>5. channel \in Conns
  BY <1>1 DEF IInv, ConnInv, ConnTypeOK, ConnsOrNil, Conns, Nil
<1>6. channel = g \/ CutOff(g)
  BY LiveIsDialed DEF IInv, CutOff, ShutDown
<1>7. WorkerOK(q, g)'
  <2>1. WorkerOK(q, g)
    BY DEF IInv, Parts, WorkersOK
  <2>2. QED
    BY <1>1, <1>2, <1>4, <1>5, <1>6, <2>1
    DEF WorkerOK, Busy, connVars, closerVars, QueueOf, CutOff, ShutDown
<1>8. JobOK(q, g, m)'
  BY <1>1, <1>2, <1>4 DEF JobOK, brokerVars, Unanswered, Dropped, Answered, KindOf
<1>9. FetchOK(m, g)' /\ SettleOK(m, g)'
  BY <1>1, <1>2 DEF FetchOK, SettleOK, JobOK, brokerVars
<1>10. (Owed(m, g)' <=> Owed(m, g)) /\ acked' \cap unacked' = {}
  BY <1>1 DEF Owed, brokerVars, IInv, Parts, AccountOK
<1>11. QED
  BY <1>1, <1>2, <1>3, <1>7, <1>8, <1>9, <1>10, WorkStep DEF brokerVars, Owed

(* The four ways to the acknowledgement of a request: the answer was published,
   or could not be encoded, or the delivery's connection is cut off. *)
LEMMA ToAckStep ==
  ASSUME IInv, NEW q \in Queues, NEW g \in Conns, NEW from \in {"answer", "publish"},
         Goto(<<q, g>>, from, "ack"),
         \A w \in Workers : w # <<q, g>> => via'[w] = via[w],
         UNCHANGED <<connVars, closerVars, shape, brokerVars, job, handled>>,
         \A d \in Deliveries, v \in Verdicts :
            d[1] \notin job[<<q, g>>] \/ d[2] # g =>
                (<<d, v>> \in results' <=> <<d, v>> \in results),
         \A m \in job[<<q, g>>] :
            ~Unanswered(m, g)' \/ handled[<<m, g>>] = "unencodable" \/ CutOff(g)
  PROVE  Parts'
<1>1. /\ at[<<q, g>>] = from
      /\ at' = [at EXCEPT ![<<q, g>>] = "ack"]
  BY DEF Goto
<1>2. PICK m \in Messages :
        /\ QueueOf(m) = q
        /\ job[<<q, g>>] = {m}
        /\ JobOK(q, g, m)
        /\ <<m, g>> \notin fetched
        /\ Touched(m, g)
  BY <1>1, AtWork DEF Busy
<1>3. \A w \in Workers : w # <<q, g>> => at'[w] = at[w] /\ via'[w] = via[w] /\ job'[w] = job[w]
  BY <1>1 DEF IInv, ValuesOK
<1>4. at'[<<q, g>>] = "ack"
  BY <1>1 DEF IInv, ValuesOK, Workers
<1>5. WorkerOK(q, g)'
  <2>1. WorkerOK(q, g)
    BY DEF IInv, Parts, WorkersOK
  <2>2. QED
    BY <1>1, <1>2, <1>4, <2>1 DEF WorkerOK, Busy, connVars, QueueOf
<1>6. JobOK(q, g, m)'
  <2>1. ~Unanswered(m, g)' \/ handled[<<m, g>>] = "unencodable" \/ CutOff(g)
    BY <1>2
  <2>2. CutOff(g)' <=> CutOff(g)
    BY DEF CutOff, ShutDown, connVars, closerVars
  <2>3. <<m, g>> \notin acked' /\ handled'[<<m, g>>] # "not"
    BY <1>1, <1>2 DEF JobOK, brokerVars
  <2>4. handled' = handled
    OBVIOUS
  <2>5. QED
    BY <1>4, <2>1, <2>2, <2>3, <2>4 DEF JobOK
<1>7. FetchOK(m, g)' /\ SettleOK(m, g)'
  BY <1>1, <1>2 DEF FetchOK, SettleOK, JobOK, brokerVars
<1>8. (Owed(m, g)' <=> Owed(m, g)) /\ acked' \cap unacked' = {}
  BY DEF Owed, brokerVars, IInv, Parts, AccountOK
<1>9. \A d \in Deliveries : d # <<m, g>> =>
        \A v \in Verdicts : <<d, v>> \in results' <=> <<d, v>> \in results
  BY <1>2 DEF Deliveries
<1>10. QED
  BY <1>1, <1>2, <1>3, <1>5, <1>6, <1>7, <1>8, <1>9, WorkStep DEF brokerVars, Owed

LEMMA AnswerStep ==
  ASSUME IInv, NEW q \in Queues, NEW g \in Conns,
         NoChannel(q, g) \/ EncodeFails(q, g) \/ PublishFails(q, g) \/ Publish(q, g)
  PROVE  Parts'
<1>1. WorkerOK(q, g)
  BY DEF IInv, Parts, WorkersOK
<1>2. CASE NoChannel(q, g)
  <2>1. CutOff(g)
    BY <1>2, LiveIsDialed DEF NoChannel, IInv, CutOff, ShutDown, Nil, Conns
  <2>2. QED
    BY <1>2, <2>1, ToAckStep DEF NoChannel
<1>3. CASE EncodeFails(q, g)
  <2>1. \A w \in Workers : w # <<q, g>> => via'[w] = via[w]
    BY <1>3 DEF EncodeFails, IInv, ValuesOK
  <2>2. at[<<q, g>>] = "publish" /\ \E m \in job[<<q, g>>] : handled[<<m, g>>] = "unencodable"
    BY <1>3 DEF EncodeFails, Goto
  <2>3. \A m \in job[<<q, g>>] : handled[<<m, g>>] = "unencodable"
    <3>1. PICK m \in Messages : job[<<q, g>>] = {m}
      <4>1. at[<<q, g>>] \in Busy
        BY <2>2 DEF Busy
      <4>2. QED
        BY <4>1, AtWork
    <3>2. QED
      BY <2>2, <3>1
  <2>4. QED
    BY <1>3, <2>1, <2>3, ToAckStep DEF EncodeFails
<1>4. CASE PublishFails(q, g)
  <2>1. \A w \in Workers : w # <<q, g>> => via'[w] = via[w]
    BY <1>4 DEF PublishFails, IInv, ValuesOK
  <2>2. CutOff(g)
    BY <1>1, <1>4 DEF PublishFails, Goto, WorkerOK, CutOff
  <2>3. QED
    BY <1>4, <2>1, <2>2, ToAckStep DEF PublishFails
<1>5. CASE Publish(q, g)
  <2>1. PICK m \in job[<<q, g>>] :
          /\ Goto(<<q, g>>, "publish", "ack")
          /\ via' = [via EXCEPT ![<<q, g>>] = Nil]
          /\ results' = results \cup {<<<<m, g>>, Verdict(<<m, g>>)>>}
          /\ UNCHANGED <<connVars, closerVars, shape, brokerVars, job, handled>>
    BY <1>5 DEF Publish
  <2>2. job[<<q, g>>] = {m}
    <3>1. at[<<q, g>>] \in Busy
      BY <2>1 DEF Goto, Busy
    <3>2. PICK n \in Messages : job[<<q, g>>] = {n}
      BY <3>1, AtWork
    <3>3. QED
      BY <2>1, <3>2
  <2>3. \A w \in Workers : w # <<q, g>> => via'[w] = via[w]
    BY <2>1 DEF IInv, ValuesOK
  <2>4. ~Unanswered(m, g)'
    BY <2>1 DEF Unanswered, Verdict, Verdicts
  <2>5. ASSUME NEW d \in Deliveries, NEW v \in Verdicts, d[1] \notin job[<<q, g>>] \/ d[2] # g
        PROVE  <<d, v>> \in results' <=> <<d, v>> \in results
    <3>1. d # <<m, g>>
      BY <2>2, <2>5
    <3>2. QED
      BY <2>1, <3>1
  <2>6. \A n \in job[<<q, g>>] : ~Unanswered(n, g)'
    BY <2>2, <2>4
  <2>7. QED
    BY <2>1, <2>3, <2>5, <2>6, ToAckStep
<1>6. QED
  BY <1>2, <1>3, <1>4, <1>5

LEMMA AckStep ==
  ASSUME IInv, NEW q \in Queues, NEW g \in Conns, Ack(q, g)
  PROVE  Parts'
<1>1. PICK m \in job[<<q, g>>] :
        /\ Goto(<<q, g>>, "ack", "select")
        /\ job' = [job EXCEPT ![<<q, g>>] = {}]
        /\ acked' = acked \cup ({<<m, g>>} \cap unacked)
        /\ unacked' = unacked \ {<<m, g>>}
        /\ UNCHANGED <<connVars, closerVars, shape, ready, fetched, via, handled, results>>
  BY DEF Ack
<1>2. /\ at[<<q, g>>] = "ack"
      /\ at' = [at EXCEPT ![<<q, g>>] = "select"]
  BY <1>1 DEF Goto
<1>3. /\ m \in Messages
      /\ QueueOf(m) = q
      /\ job[<<q, g>>] = {m}
      /\ JobOK(q, g, m)
      /\ <<m, g>> \notin fetched
      /\ Touched(m, g)
  BY <1>1, <1>2, AtWork DEF Busy
<1>4. \A w \in Workers : w # <<q, g>> => at'[w] = at[w] /\ via'[w] = via[w] /\ job'[w] = job[w]
  BY <1>1, <1>2 DEF IInv, ValuesOK
<1>5. at'[<<q, g>>] = "select" /\ job'[<<q, g>>] = {}
  BY <1>1, <1>2 DEF IInv, ValuesOK, Workers
<1>6. WorkerOK(q, g)'
  <2>1. WorkerOK(q, g)
    BY DEF IInv, Parts, WorkersOK
  <2>2. QED
    BY <1>1, <1>2, <1>5, <2>1 DEF WorkerOK, Busy, connVars, QueueOf
<1>7. FetchOK(m, g)'
  BY <1>1, <1>3 DEF FetchOK
<1>8. SettleOK(m, g)'
  <2>1. <<m, g>> \in unacked => g \in chOpen
    BY <1>3 DEF IInv, Parts, AccountOK
  <2>2. <<m, g>> \in acked' => <<m, g>> \in unacked
    BY <1>1, <1>3 DEF JobOK
  <2>3. QED
    BY <1>1, <1>2, <1>3, <2>1, <2>2
    DEF SettleOK, JobOK, CutOff, ShutDown, closerVars, Unanswered, Dropped, Answered, KindOf
<1>9. Owed(m, g)' <=> Owed(m, g)
  BY <1>1 DEF Owed
<1>10. acked' \cap unacked' = {}
  BY <1>1 DEF IInv, Parts, AccountOK
<1>11. QED
  BY <1>1, <1>2, <1>3, <1>4, <1>5, <1>6, <1>7, <1>8, <1>9, <1>10, WorkStep DEF Owed

(* A goroutine that ends drops what waits in its channel; it has no job. *)
LEMMA StopStep ==
  ASSUME IInv, NEW q \in Queues, NEW g \in Conns, Stop(q, g)
  PROVE  Parts'
<1> USE DEF Parts, Dropped, Answered, KindOf
<1>1. /\ at[<<q, g>>] = "select"
      /\ at' = [at EXCEPT ![<<q, g>>] = "stopped"]
      /\ fetched' = {d \in fetched : d[2] = g => QueueOf(d[1]) # q}
      /\ UNCHANGED <<connVars, closerVars, shape, ready, unacked, acked, job, via, handled, results>>
  BY DEF Stop, Goto
<1> USE DEF connVars, closerVars
<1>2. at'[<<q, g>>] = "stopped" /\ \A w \in Workers : w # <<q, g>> => at'[w] = at[w]
  BY <1>1 DEF IInv, ValuesOK, Workers
<1>3. \A p \in Queues, h \in Conns : <<p, h>> # <<q, g>> => at'[<<p, h>>] = at[<<p, h>>]
  BY <1>2 DEF Workers
<1>4. job[<<q, g>>] = {}
  BY <1>1 DEF IInv, WorkersOK, WorkerOK, Busy
<1>5. WorkersOK'
  <2>1. ASSUME NEW p \in Queues, NEW h \in Conns
        PROVE  WorkerOK(p, h)'
    <3>1. WorkerOK(p, h)
      BY DEF IInv, WorkersOK
    <3>2. QED
      BY <1>1, <1>2, <1>3, <1>4, <3>1 DEF WorkerOK, Busy, CutOff, ShutDown, QueueOf
  <2>2. QED
    BY <2>1 DEF WorkersOK
<1>6. FetchedOK'
  BY <1>1 DEF IInv, FetchedOK, FetchOK, QueueOf, Unanswered
<1>7. JobsOK'
  <2>1. ASSUME NEW p \in Queues, NEW h \in Conns, NEW n \in job'[<<p, h>>]
        PROVE  JobOK(p, h, n)'
    <3>1. JobOK(p, h, n) /\ at'[<<p, h>>] = at[<<p, h>>]
      BY <1>1, <1>3, <1>4 DEF IInv, JobsOK
    <3>2. QED
      BY <1>1, <3>1 DEF JobOK, CutOff, ShutDown, Unanswered
  <2>2. QED
    BY <2>1 DEF JobsOK
<1>8. TouchedOwed'
  BY <1>1 DEF IInv, TouchedOwed, Touched, Owed, QueueOf, Unanswered
<1>9. AccountOK'
  BY <1>1 DEF IInv, AccountOK, Owed
<1>10. NoLeak'
  <2>1. ASSUME NEW n \in Messages, NEW h \in chOpen, at'[<<QueueOf(n), h>>] # "stopped",
               <<n, h>> \in unacked
        PROVE  <<n, h>> \in fetched' \/ n \in job[<<QueueOf(n), h>>]
    <3>1. QueueOf(n) \in Queues /\ h \in Conns
      BY ShapesOK DEF IInv, ConnInv, ConnTypeOK
    <3>2. QueueOf(n) # q \/ h # g
      BY <1>2, <2>1
    <3>3. <<n, h>> \in fetched \/ n \in job[<<QueueOf(n), h>>]
      BY <1>3, <2>1, <3>1, <3>2 DEF IInv, NoLeak
    <3>4. QED
      BY <1>1, <3>2, <3>3
  <2>2. QED
    BY <1>1, <2>1 DEF NoLeak, QueueOf
<1>11. SettledOK'
  BY <1>1 DEF IInv, SettledOK, SettleOK, ShutDown, Unanswered
<1>12. QED
  BY <1>5, <1>6, <1>7, <1>8, <1>9, <1>10, <1>11

LEMMA ConsumeStep ==
  ASSUME IInv, NEW q \in Queues, NEW g \in Conns, Consume(q, g)
  PROVE  Parts'
BY ReceiveStep, HandlerReturnsStep, ReadChannelStep, AnswerStep, AckStep, StopStep DEF Consume

(* A Close keeps the connection that it took; a channel that has ended does not
   come back. *)
LEMMA HoldsForGood ==
  ASSUME ConnInv, ShutForGood, ConnNext \/ UNCHANGED <<connVars, closerVars>>
  PROVE  /\ ShutForGood'
         /\ \A k \in Closers, g \in Conns : holds[k] = g => holds'[k] = g
<1> USE DEF ShutForGood, ConnInv, ConnTypeOK, CloserPcs, closerVars
<1>1. CASE UNCHANGED closerVars
  BY <1>1
<1>2. ASSUME NEW k \in Closers,
             CloseNotStarted(k) \/ CloseCancel(k) \/ CloseWire(k) \/ CloseReturns(k)
      PROVE  ShutForGood' /\ UNCHANGED holds
  BY <1>2 DEF CloseNotStarted, CloseCancel, CloseWire, CloseReturns
<1>3. ASSUME NEW k \in Closers, CloseSwap(k)
      PROVE  /\ ShutForGood'
             /\ \A j \in Closers, g \in Conns : holds[j] = g => holds'[j] = g
  BY <1>3 DEF CloseSwap, Nil, Conns
<1>4. QED
  BY <1>1, <1>2, <1>3 DEF ConnNext, ChannelLost, ConnectionLost

LEMMA ChannelsEnd ==
  ASSUME ConnInv, ConnNext
  PROVE  \A g \in Conns : g <= dialed /\ g \in chOpen' => g \in chOpen
BY MaxConnsAssumption
DEF ConnInv, ConnTypeOK, ConnsOrNil, Conns, connVars, ConnNext, AlreadyStarted, Dial, StartFails,
    CloseNotStarted, CloseSwap, CloseCancel, CloseWire, CloseReturns, ChannelLost, ConnectionLost

(* Start, Close and lost connections. *)
LEMMA ConnectStep ==
  ASSUME IInv, Connect \/ (\E g \in Conns : Lose(g)) \/ \E k \in Closers : Close(k)
  PROVE  Parts'
<1>1. ConnNext
  BY DEF Connect, Lose, Close, ConnNext
<1>2. /\ dialed \in Nat /\ dialed' \in Nat /\ dialed <= dialed'
      /\ \A g \in Conns : g <= dialed /\ g \in chOpen' => g \in chOpen
      /\ \A k \in Closers, g \in Conns : holds[k] = g => holds'[k] = g
  BY <1>1, DialedGrows, ChannelsEnd, HoldsForGood DEF IInv
<1>3. UNCHANGED <<shape, workerVars, handled, results, acked, fetched>>
  BY DEF Connect, Lose, Close, Requeue, brokerVars
<1>4. CASE Connect
  <2>1. unacked' = unacked /\ ready' = ready /\ chOpen \subseteq chOpen'
    BY <1>4 DEF Connect, Dial, brokerVars
  <2>2. \A d \in unacked : d[2] \in chOpen
    BY DEF IInv, ValuesOK, Deliveries, Parts, AccountOK
  <2>3. QED
    BY <1>2, <1>3, <2>1, <2>2, ConnectionStep
<1>5. CASE (\E g \in Conns : Lose(g)) \/ \E k \in Closers : Close(k)
  BY <1>2, <1>3, <1>5, ConnectionStep DEF Lose, Close, Requeue
<1>6. QED
  BY <1>4, <1>5

(* A step in which nothing changes, needed for the stuttering ones. *)
LEMMA RestStep ==
  ASSUME IInv, UNCHANGED vars
  PROVE  IInv'
<1> USE DEF vars, connVars, closerVars, brokerVars, workerVars, Unanswered, QueueOf, Answered,
            Dropped, KindOf
<1>1. ConnInv'
  BY ConnStutter DEF IInv
<1>2. LiveChannels'
  BY LiveChannelsStep DEF IInv
<1>3. ShutForGood'
  BY HoldsForGood DEF IInv
<1>4. ValuesOK'
  BY DEF IInv, ValuesOK
<1>5. \A g \in Conns : CutOff(g)' <=> CutOff(g)
  BY DEF CutOff, ShutDown
<1>6. WorkersOK'
  BY <1>5 DEF IInv, Parts, WorkersOK, WorkerOK
<1>7. JobsOK'
  <2>1. ASSUME NEW q \in Queues, NEW g \in Conns, NEW m \in job'[<<q, g>>]
        PROVE  JobOK(q, g, m)'
    <3>1. JobOK(q, g, m)
      BY DEF IInv, Parts, JobsOK
    <3>2. QED
      BY <1>5, <3>1 DEF JobOK
  <2>2. QED
    BY <2>1 DEF JobsOK
<1>8. FetchedOK' /\ TouchedOwed' /\ AccountOK' /\ NoLeak'
  BY DEF IInv, Parts, FetchedOK, FetchOK, TouchedOwed, Touched, AccountOK, Owed, NoLeak
<1>9. SettledOK'
  BY DEF IInv, Parts, SettledOK, SettleOK, ShutDown
<1>10. QED
  BY <1>1, <1>2, <1>3, <1>4, <1>6, <1>7, <1>8, <1>9 DEF IInv, Parts

(* The three facts that make IInv inductive. *)
LEMMA InitInv == Init => IInv
<1> SUFFICES ASSUME Init
             PROVE  IInv
  OBVIOUS
<1>1. ConnInv
  BY ConnInitInv DEF Init
<1>2. LiveChannels /\ ShutForGood
  BY DEF Init, ConnInit, LiveChannels, ShutForGood
<1>3. ValuesOK
  BY MaxConnsAssumption DEF Init, ValuesOK, Deliveries, Places, Optional, ConnsOrNil, Nil
<1>4. \A q \in Queues, g \in Conns : at[<<q, g>>] = "none" /\ job[<<q, g>>] = {}
  BY DEF Init, Workers
<1>5. \A m \in Messages, g \in Conns : handled[<<m, g>>] = "not"
  BY DEF Init, Deliveries
<1>6. WorkersOK /\ JobsOK
  BY <1>4 DEF WorkersOK, WorkerOK, JobsOK, Busy
<1>7. \A m \in Messages, g \in Conns : ~Touched(m, g) /\ ~Owed(m, g)
  BY <1>3, <1>4, <1>5, ShapesOK DEF Init, Touched, Owed, Unanswered
<1>8. FetchedOK /\ TouchedOwed /\ NoLeak /\ SettledOK
  BY <1>7 DEF Init, ConnInit, FetchedOK, FetchOK, TouchedOwed, NoLeak, SettledOK, SettleOK
<1>9. AccountOK
  BY <1>7 DEF Init, ConnInit, AccountOK
<1>10. QED
  BY <1>1, <1>2, <1>3, <1>6, <1>8, <1>9 DEF IInv, Parts

LEMMA NextInv ==
  ASSUME IInv, [Next]_vars
  PROVE  IInv'
<1>1. CASE Next
  <2>1. ConnInv' /\ LiveChannels' /\ ShutForGood'
    BY <1>1, ConnPart, ConnStep, ConnStutter, LiveChannelsStep, HoldsForGood DEF IInv
  <2>2. ValuesOK'
    BY <1>1, NextTypes DEF IInv
  <2>3. CASE Connect \/ (\E g \in Conns : Lose(g)) \/ \E k \in Closers : Close(k)
    BY <2>1, <2>2, <2>3, ConnectStep DEF IInv
  <2>4. CASE StartConsumers
    BY <2>1, <2>2, <2>4, StartConsumersStep DEF IInv
  <2>5. CASE \E m \in Messages, g \in Conns : Deliver(m, g)
    BY <2>1, <2>2, <2>5, DeliverStep DEF IInv
  <2>6. CASE \E q \in Queues, g \in Conns : Consume(q, g)
    BY <2>1, <2>2, <2>6, ConsumeStep DEF IInv
  <2>7. CASE Rest
    BY <2>7, RestStep DEF Rest
  <2>8. QED
    BY <1>1, <2>3, <2>4, <2>5, <2>6, <2>7 DEF Next
<1>2. CASE UNCHANGED vars
  BY <1>2, RestStep
<1>3. QED
  BY <1>1, <1>2

(* IInv holds in every reachable state. *)
THEOREM Invariance == Spec => []IInv
  BY InitInv, NextInv, PTL DEF Spec

-----------------------------------------------------------------------------
(* Every variable keeps its type; a goroutine that is about to publish has a
   channel to publish on, never a nil one. *)
THEOREM TypeCorrect == Spec => []TypeOK
<1>1. IInv => TypeOK
  <2> SUFFICES ASSUME IInv
               PROVE  TypeOK
    OBVIOUS
  <2>1. \A w \in Workers : at[w] = "publish" => via[w] \in Conns
    BY DEF IInv, Parts, WorkersOK, WorkerOK, Workers
  <2>2. QED
    BY <2>1 DEF IInv, ConnInv, ValuesOK, TypeOK
<1>2. QED
  BY <1>1, Invariance, PTL

(* A settled delivery is a message and a connection. *)
LEMMA AckedPairs ==
  ASSUME ValuesOK, NEW d \in acked
  PROVE  \E m \in Messages, g \in Conns : d = <<m, g>>
BY DEF ValuesOK, Deliveries

(* The broker forgets a message only after a handler has run for it to its end
   (providers, events and actions), unless no handler can be run for it. *)
THEOREM SettledIsHandled == Spec => []SettledMeansHandled
<1>1. IInv => SettledMeansHandled
  <2> SUFFICES ASSUME IInv, NEW d \in acked
               PROVE  handled[d] # "not" \/ Dropped(d[1])
    BY DEF SettledMeansHandled
  <2>1. PICK m \in Messages, g \in Conns : d = <<m, g>>
    BY AckedPairs DEF IInv
  <2>2. SettleOK(m, g)
    BY DEF IInv, Parts, SettledOK
  <2>3. QED
    BY <2>1, <2>2 DEF SettleOK
<1>2. QED
  BY <1>1, Invariance, PTL

(* A provider's message that was settled was answered, unless its result could
   not be encoded or a Close took the connection it came by. *)
THEOREM SettledIsAnswered == Spec => []SettledMeansAnswered
<1>1. IInv => SettledMeansAnswered
  <2> SUFFICES ASSUME IInv, NEW d \in acked
               PROVE  \/ ~Answered(d[1])
                      \/ handled[d] = "unencodable"
                      \/ \E k \in Closers : holds[k] = d[2]
                      \/ \E v \in Verdicts : <<d, v>> \in results
    BY DEF SettledMeansAnswered
  <2>1. PICK m \in Messages, g \in Conns : d = <<m, g>>
    BY AckedPairs DEF IInv
  <2>2. SettleOK(m, g)
    BY DEF IInv, Parts, SettledOK
  <2>3. QED
    BY <2>1, <2>2 DEF SettleOK, ShutDown, Unanswered
<1>2. QED
  BY <1>1, Invariance, PTL

(* No place of the prefetch window is lost on a live channel: what a running
   goroutine has not acknowledged it has still to receive or works on. *)
THEOREM NothingLeaks == Spec => []NoDeliveryLeaks
<1>1. IInv => NoDeliveryLeaks
  <2> SUFFICES ASSUME IInv, NEW q \in Queues, NEW g \in chOpen, at[<<q, g>>] # "stopped"
               PROVE  Window(q, g) = Waiting(q, g) \cup job[<<q, g>>]
    BY DEF NoDeliveryLeaks
  <2>1. g \in Conns
    BY DEF IInv, ConnInv, ConnTypeOK
  <2>2. ASSUME NEW m \in Window(q, g)
        PROVE  m \in Waiting(q, g) \cup job[<<q, g>>]
    BY DEF Window, Waiting, IInv, Parts, NoLeak
  <2>3. ASSUME NEW m \in Waiting(q, g)
        PROVE  m \in Window(q, g)
    <3>1. m \in Messages /\ <<m, g>> \in fetched /\ QueueOf(m) = q
      BY DEF Waiting
    <3>2. FetchOK(m, g) /\ Owed(m, g)
      BY <2>1, <3>1 DEF IInv, Parts, FetchedOK, TouchedOwed, Touched
    <3>3. QED
      BY <3>1, <3>2 DEF FetchOK, Owed, Window
  <2>4. ASSUME NEW m \in job[<<q, g>>]
        PROVE  m \in Window(q, g)
    <3>1. at[<<q, g>>] \in Busy
      BY <2>1 DEF IInv, Parts, WorkersOK, WorkerOK
    <3>2. m \in Messages /\ QueueOf(m) = q /\ JobOK(q, g, m) /\ Touched(m, g)
      <4>1. PICK n \in Messages :
              QueueOf(n) = q /\ job[<<q, g>>] = {n} /\ JobOK(q, g, n) /\ Touched(n, g)
        BY <2>1, <3>1, AtWork
      <4>2. m = n
        BY <4>1
      <4>3. QED
        BY <4>1, <4>2
    <3>3. Owed(m, g)
      BY <2>1, <3>2 DEF IInv, Parts, TouchedOwed
    <3>4. QED
      BY <3>2, <3>3 DEF JobOK, Owed, Window
  <2>5. QED
    BY <2>2, <2>3, <2>4
<1>2. QED
  BY <1>1, Invariance, PTL

(* A message waits, is out on exactly one live channel, or is settled once. *)
THEOREM EveryMessageAccounted == Spec => []Accounted
<1>1. IInv => Accounted
  <2> SUFFICES ASSUME IInv, NEW m \in Messages
               PROVE  /\ {g \in Conns : <<m, g>> \in unacked} \subseteq chOpen
                      /\ Cardinality({g \in Conns : <<m, g>> \in unacked})
                           + Cardinality({g \in Conns : <<m, g>> \in acked})
                         = IF m \in ready THEN 0 ELSE 1
    BY DEF Accounted
  <2> DEFINE out == {g \in Conns : <<m, g>> \in unacked}
             done == {g \in Conns : <<m, g>> \in acked}
  <2>1. out \subseteq chOpen
    BY DEF IInv, Parts, AccountOK
  <2>2. \A g \in Conns : Owed(m, g) <=> g \in out \/ g \in done
    BY DEF Owed
  <2>3. CASE m \in ready
    <3>1. out = {} /\ done = {}
      BY <2>2, <2>3 DEF IInv, Parts, AccountOK
    <3>2. Cardinality(out) = 0 /\ Cardinality(done) = 0
      BY <3>1, FS_EmptySet
    <3>3. QED
      BY <2>1, <2>3, <3>2
  <2>4. CASE m \notin ready
    <3>1. PICK g \in Conns : Owed(m, g)
      BY <2>4 DEF IInv, Parts, AccountOK
    <3>2. \A h \in Conns : Owed(m, h) => h = g
      BY <3>1 DEF IInv, Parts, AccountOK
    <3>3. <<m, g>> \notin unacked \/ <<m, g>> \notin acked
      BY DEF IInv, Parts, AccountOK
    <3>4. (out = {g} /\ done = {}) \/ (out = {} /\ done = {g})
      BY <2>2, <3>1, <3>2, <3>3
    <3>5. Cardinality({g}) = 1 /\ Cardinality({}) = 0
      BY FS_EmptySet, FS_Singleton
    <3>6. Cardinality(out) + Cardinality(done) = 1
      <4> HIDE DEF out, done
      <4>1. CASE out = {g} /\ done = {}
        BY <3>5, <4>1
      <4>2. CASE out = {} /\ done = {g}
        BY <3>5, <4>2
      <4>3. QED
        BY <3>4, <4>1, <4>2
    <3>7. QED
      BY <2>1, <2>4, <3>6
  <2>5. QED
    BY <2>3, <2>4
<1>2. QED
  BY <1>1, Invariance, PTL

-----------------------------------------------------------------------------
(***************************************************************************)
(* The refinement. A handler's end is an attempt, a published answer the   *)
(* answer, an acknowledgement that the broker gets settles the message,    *)
(* and the critical section of Close is the shutdown of a connection; all  *)
(* else stutters.                                                          *)
(***************************************************************************)
LEMMA PromiseInit == Init => Promise!Init
<1> SUFFICES ASSUME Init
             PROVE  Promise!Init
  OBVIOUS
<1>1. Wanted \in [Messages -> Promise!Wants]
  BY DEF Wanted, Want, Promise!Wants
<1>2. handled = [d \in Messages \X Conns |-> "not"] /\ results = {} /\ acked = {}
  BY DEF Init, Deliveries
<1>3. Shut = {}
  BY DEF Init, ConnInit, Shut, Nil, Conns
<1>4. QED
  BY <1>1, <1>2, <1>3 DEF Promise!Init

(* What the mapping makes of the shapes and of the closers' connections. *)
LEMMA WantedConstant ==
  ASSUME UNCHANGED shape
  PROVE  UNCHANGED Wanted
BY DEF Wanted, Want, Dropped, Answered, KindOf

LEMMA ShutConstant ==
  ASSUME UNCHANGED holds
  PROVE  UNCHANGED Shut
BY DEF Shut

(* The steps that are steps of the promise. *)
LEMMA TryStep ==
  ASSUME IInv, NEW q \in Queues, NEW g \in Conns, HandlerReturns(q, g)
  PROVE  Promise!Next
<1>1. PICK m \in job[<<q, g>>] : \E end \in EndsOf(m) :
        /\ handled' = [handled EXCEPT ![<<m, g>>] = end]
        /\ Goto(<<q, g>>, "handler", IF Answered(m) THEN "answer" ELSE "ack")
        /\ UNCHANGED <<connVars, closerVars, shape, brokerVars, job, via, results>>
  BY DEF HandlerReturns
<1>2. at[<<q, g>>] = "handler"
  BY <1>1 DEF Goto
<1>3. m \in Messages /\ JobOK(q, g, m)
  <2>1. PICK n \in Messages : job[<<q, g>>] = {n} /\ JobOK(q, g, n)
    BY <1>2, AtWork DEF Busy
  <2>2. m = n
    BY <2>1
  <2>3. QED
    BY <2>1, <2>2
<1>4. \E end \in Promise!Ends : handled' = [handled EXCEPT ![<<m, g>>] = end]
  BY <1>1 DEF EndsOf, Ends, Promise!Ends
<1>5. Wanted[m] # "nothing"
  BY <1>2, <1>3 DEF JobOK, Wanted, Want
<1>6. UNCHANGED <<Wanted, results, acked, Shut>>
  BY <1>1, WantedConstant, ShutConstant DEF closerVars, brokerVars
<1>7. Promise!Try(m, g)
  BY <1>2, <1>3, <1>4, <1>5, <1>6 DEF Promise!Try, JobOK
<1>8. QED
  BY <1>3, <1>7 DEF Promise!Next

LEMMA PublishedOnce ==
  ASSUME IInv, NEW q \in Queues, NEW g \in Conns, Publish(q, g)
  PROVE  Promise!Next
<1>1. PICK m \in job[<<q, g>>] :
        /\ handled[<<m, g>>] # "unencodable"
        /\ Goto(<<q, g>>, "publish", "ack")
        /\ results' = results \cup {<<<<m, g>>, Verdict(<<m, g>>)>>}
        /\ UNCHANGED <<connVars, closerVars, shape, brokerVars, job, handled>>
  BY DEF Publish
<1>2. at[<<q, g>>] = "publish"
  BY <1>1 DEF Goto
<1>3. m \in Messages /\ JobOK(q, g, m)
  <2>1. PICK n \in Messages : job[<<q, g>>] = {n} /\ JobOK(q, g, n)
    BY <1>2, AtWork DEF Busy
  <2>2. m = n
    BY <2>1
  <2>3. QED
    BY <2>1, <2>2
<1>4. handled[<<m, g>>] \in {"result", "error"}
  BY <1>1, <1>2, <1>3 DEF IInv, ValuesOK, Deliveries, Ends, JobOK
<1>5. Wanted[m] = "answer"
  BY <1>2, <1>3 DEF JobOK, Wanted, Want, Dropped, Answered
<1>6. Promise!Unanswered(m, g)
  BY <1>2, <1>3 DEF JobOK, Unanswered, Promise!Unanswered, IInv, ValuesOK
<1>7. UNCHANGED <<Wanted, handled, acked, Shut>>
  BY <1>1, WantedConstant, ShutConstant DEF closerVars, brokerVars
<1>8. Promise!Answer(m, g)
  BY <1>1, <1>2, <1>3, <1>4, <1>5, <1>6, <1>7 DEF Promise!Answer, Verdict, JobOK
<1>9. QED
  BY <1>3, <1>8 DEF Promise!Next

LEMMA SettledOnce ==
  ASSUME IInv, NEW q \in Queues, NEW g \in Conns, Ack(q, g)
  PROVE  Promise!Next \/ UNCHANGED Promise!vars
<1>1. PICK m \in job[<<q, g>>] :
        /\ Goto(<<q, g>>, "ack", "select")
        /\ acked' = acked \cup ({<<m, g>>} \cap unacked)
        /\ UNCHANGED <<connVars, closerVars, shape, ready, fetched, via, handled, results>>
  BY DEF Ack
<1>2. at[<<q, g>>] = "ack"
  BY <1>1 DEF Goto
<1>3. m \in Messages /\ JobOK(q, g, m)
  <2>1. PICK n \in Messages : job[<<q, g>>] = {n} /\ JobOK(q, g, n)
    BY <1>2, AtWork DEF Busy
  <2>2. m = n
    BY <2>1
  <2>3. QED
    BY <2>1, <2>2
<1>4. UNCHANGED <<Wanted, handled, results, Shut>>
  BY <1>1, WantedConstant, ShutConstant DEF closerVars
<1>5. CASE <<m, g>> \notin unacked
  BY <1>1, <1>4, <1>5 DEF Promise!vars
<1>6. CASE <<m, g>> \in unacked
  <2>1. \A b \in Conns : <<m, b>> \notin acked
    BY <1>3, <1>6 DEF IInv, Parts, AccountOK, Owed
  <2>2. g \in chOpen
    BY <1>3, <1>6 DEF IInv, Parts, AccountOK
  <2>3. Wanted[m] # "nothing" => handled[<<m, g>>] # "not"
    BY <1>2, <1>3 DEF JobOK, Wanted, Want
  <2>4. Wanted[m] = "answer" =>
          ~Unanswered(m, g) \/ handled[<<m, g>>] = "unencodable" \/ g \in Shut
    BY <1>2, <1>3, <2>2 DEF JobOK, Wanted, Want, CutOff, ShutDown, Shut
  <2>5. ~Unanswered(m, g) => ~Promise!Unanswered(m, g)
    BY DEF Unanswered, Promise!Unanswered
  <2>6. acked' = acked \cup {<<m, g>>}
    BY <1>1, <1>6
  <2>7. Promise!Settle(m, g)
    BY <1>4, <2>1, <2>3, <2>4, <2>5, <2>6 DEF Promise!Settle
  <2>8. QED
    BY <1>3, <2>7 DEF Promise!Next
<1>7. QED
  BY <1>5, <1>6

LEMMA CloseShutsDown ==
  ASSUME IInv, NEW k \in Closers, Close(k)
  PROVE  Promise!Next \/ UNCHANGED Promise!vars
<1>1. UNCHANGED <<Wanted, handled, results, acked>>
  BY WantedConstant DEF Close, Requeue
<1>2. CASE CloseSwap(k)
  <2>1. channel \in Conns /\ channel \notin Shut
    BY <1>2 DEF CloseSwap, IInv, ConnInv, ConnTypeOK, CurrentConnection, HeldConnections,
                ConnsOrNil, Conns, Nil, Shut
  <2>2. holds[k] = Nil
    BY <1>2 DEF CloseSwap, IInv, ShutForGood
  <2>3. holds' = [holds EXCEPT ![k] = channel]
    BY <1>2 DEF CloseSwap
  <2>4. \A g \in Conns :
          (\E j \in Closers : holds'[j] = g) <=> g = channel \/ \E j \in Closers : holds[j] = g
    BY <2>2, <2>3 DEF IInv, ConnInv, ConnTypeOK, Nil, Conns
  <2>5. Shut' = Shut \cup {channel}
    BY <2>1, <2>4 DEF Shut
  <2>6. Promise!ShutDown(channel)
    BY <1>1, <2>1, <2>5 DEF Promise!ShutDown
  <2>7. QED
    BY <2>1, <2>6 DEF Promise!Next
<1>3. CASE ~CloseSwap(k)
  <2>1. UNCHANGED holds
    BY <1>3 DEF Close, CloseNotStarted, CloseCancel, CloseWire, CloseReturns
  <2>2. QED
    BY <1>1, <2>1, ShutConstant DEF Promise!vars
<1>4. QED
  BY <1>2, <1>3

(* Every step is a step of the promise or a stutter. *)
LEMMA PromiseStep ==
  ASSUME IInv, [Next]_vars
  PROVE  [Promise!Next]_(Promise!vars)
<1>1. ASSUME UNCHANGED <<shape, handled, results, acked, holds>>
      PROVE  UNCHANGED Promise!vars
  BY <1>1, WantedConstant, ShutConstant DEF Promise!vars
<1>2. CASE Connect \/ StartConsumers \/ (\E m \in Messages, g \in Conns : Deliver(m, g))
  BY <1>1, <1>2 DEF Connect, StartConsumers, Deliver, closerVars, brokerVars
<1>3. CASE \E g \in Conns : Lose(g)
  BY <1>1, <1>3 DEF Lose, ConnectionLost, Requeue, closerVars
<1>4. CASE \E k \in Closers : Close(k)
  BY <1>4, CloseShutsDown
<1>5. ASSUME NEW q \in Queues, NEW g \in Conns, Consume(q, g)
      PROVE  [Promise!Next]_(Promise!vars)
  <2>1. CASE Receive(q, g) \/ Stop(q, g)
    BY <1>1, <2>1 DEF Receive, Stop, closerVars
  <2>2. CASE ReadChannel(q, g) \/ NoChannel(q, g) \/ EncodeFails(q, g) \/ PublishFails(q, g)
    BY <1>1, <2>2 DEF ReadChannel, NoChannel, EncodeFails, PublishFails, closerVars, brokerVars
  <2>3. QED
    BY <1>5, <2>1, <2>2, TryStep, PublishedOnce, SettledOnce DEF Consume
<1>6. CASE Rest \/ UNCHANGED vars
  BY <1>1, <1>6 DEF Rest, vars, closerVars, brokerVars
<1>7. QED
  BY <1>2, <1>3, <1>4, <1>5, <1>6 DEF Next

(* The queues implement their promise: an attempt runs its handler at most once,
   answers at most once, with what that handler returned, and settles the
   message only then; a message is settled at most once. *)
THEOREM Implementation == Spec => ImplementsQueue
  BY PromiseInit, PromiseStep, Invariance, PTL DEF Spec, ImplementsQueue, Promise!Spec

(* Every answer is the one true answer of its delivery: the message wants one,
   its handler has ended with a result or an error, the answer says which, and
   the delivery has no other. *)
OneTrueAnswer ==
    /\ \A x, y \in results : x[1] = y[1] => x = y
    /\ \A x \in results :
        /\ Answered(x[1][1])
        /\ handled[x[1]] \in {"result", "error"}
        /\ x[2] = IF handled[x[1]] = "error" THEN "failed" ELSE "ok"

(* The same of the abstract queue. *)
PromisedAnswer(x) ==
    /\ Wanted[x[1][1]] = "answer"
    /\ handled[x[1]] \in {"result", "error"}
    /\ x[2] = IF handled[x[1]] = "error" THEN "failed" ELSE "ok"

PromisedAnswers ==
    /\ handled \in [Messages \X Conns -> Promise!Ends \cup {"not"}]
    /\ results \subseteq (Messages \X Conns) \X {"ok", "failed"}
    /\ \A x, y \in results : x[1] = y[1] => x = y
    /\ \A x \in results : PromisedAnswer(x)

(* The promise keeps its answers true: a handler ends before its attempt is
   answered, and never again, and what a message wants is settled with it. *)
LEMMA PromiseKeepsAnswers ==
  ASSUME PromisedAnswers, [Promise!Next]_(Promise!vars)
  PROVE  PromisedAnswers'
<1> USE DEF PromisedAnswers, PromisedAnswer
<1>1. ASSUME NEW m \in Messages, NEW g \in Conns, Promise!Try(m, g)
      PROVE  PromisedAnswers'
  <2>1. PICK end \in Promise!Ends : handled' = [handled EXCEPT ![<<m, g>>] = end]
    BY <1>1 DEF Promise!Try
  <2>2. handled[<<m, g>>] = "not" /\ UNCHANGED <<Wanted, results>>
    BY <1>1 DEF Promise!Try
  <2>3. \A x \in results : x[1] # <<m, g>> /\ x[1] \in Messages \X Conns
    BY <2>2
  <2>4. \A x \in results : handled'[x[1]] = handled[x[1]]
    BY <2>1, <2>3
  <2>5. handled' \in [Messages \X Conns -> Promise!Ends \cup {"not"}]
    BY <2>1
  <2>6. QED
    BY <2>2, <2>4, <2>5
<1>2. ASSUME NEW m \in Messages, NEW g \in Conns, Promise!Answer(m, g)
      PROVE  PromisedAnswers'
  <2> DEFINE d == <<m, g>>
             new == <<d, IF handled[d] = "error" THEN "failed" ELSE "ok">>
  <2>1. results' = results \cup {new} /\ UNCHANGED <<Wanted, handled>>
    BY <1>2 DEF Promise!Answer
  <2>2. \A x \in results : x[1] # d
    BY <1>2 DEF Promise!Answer, Promise!Unanswered
  <2>3. PromisedAnswer(new) /\ new \in (Messages \X Conns) \X {"ok", "failed"} /\ new[1] = d
    BY <1>2 DEF Promise!Answer
  <2> HIDE DEF new, d
  <2>4. \A x \in results' : PromisedAnswer(x)
    BY <2>1, <2>3
  <2>5. \A x, y \in results' : x[1] = y[1] => x = y
    BY <2>1, <2>2, <2>3
  <2>6. QED
    BY <2>1, <2>3, <2>4, <2>5
<1>3. ASSUME UNCHANGED <<Wanted, handled, results>>
      PROVE  PromisedAnswers'
  BY <1>3
<1>4. QED
  BY <1>1, <1>2, <1>3
  DEF Promise!Next, Promise!Settle, Promise!ShutDown, Promise!vars

(* A provider's reply and a node's result tell what its handler returned for
   that very delivery, never another, and a delivery is answered at most once,
   whatever connections were lost, closed or made between its handler and its
   answer. It follows from the promise alone. *)
THEOREM AnswersAreTrue == Spec => []OneTrueAnswer
<1>1. Promise!Init => PromisedAnswers
  BY DEF Promise!Init, PromisedAnswers
<1>2. ImplementsQueue => []PromisedAnswers
  BY <1>1, PromiseKeepsAnswers, PTL DEF ImplementsQueue, Promise!Spec
<1>3. TypeOK /\ PromisedAnswers => OneTrueAnswer
  BY DEF TypeOK, PromisedAnswers, PromisedAnswer, OneTrueAnswer, Wanted, Want
<1>4. QED
  BY <1>2, <1>3, Implementation, TypeCorrect, PTL
=============================================================================
