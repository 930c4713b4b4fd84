----------------------------- MODULE Deliveries -----------------------------
(***************************************************************************)
(* What becomes of the messages on a plugin's queues (rabbitmq.go): the    *)
(* consumer goroutines of providers, events and actions, the handlers they *)
(* run, the replies and node results they publish and the acknowledgement  *)
(* each delivery ends with, across Close, lost channels and reconnection.  *)
(*                                                                         *)
(* Every queue has one goroutine per connection; the stages in which Start *)
(* brings them up, and what can go wrong between, are ClientLifecycle's.   *)
(* The broker delivers a message at most once per connection and puts it   *)
(* back when the channel ends before its acknowledgement, so a delivery is *)
(* a message and the generation of the connection it came by.              *)
(***************************************************************************)
EXTENDS Connection, FiniteSets

CONSTANTS
    Messages,   \* the messages on the plugin's queues
    Queues,     \* the queues it consumes, of "provider", "event" and "action"
    Prefetch    \* the channel's QoS, 16 in the code: unacknowledged deliveries per consumer

ASSUME PrefetchAssumption == Prefetch \in Nat \ {0}

(* What a message is for its queue.  On a provider's, a request is a
   synchronous invoke, which has a reply_to, or a blueprint task node, which
   has none and a nodeId: publishReply answers the one and dispatchNodeResult
   the other, in the same steps.  One without either wants no answer.  Dropped
   is a message whose body does not decode or whose action the plugin does not
   have. *)
KindsOf == [provider |-> {"request", "no_reply", "dropped"},
            event    |-> {"event", "dropped"},
            action   |-> {"action", "dropped"}]

Shapes == UNION {{q} \X KindsOf[q] : q \in Queues}
Workers == Queues \X Conns
Deliveries == Messages \X Conns

ASSUME QueuesAssumption == Queues \subseteq DOMAIN KindsOf

VARIABLES
    shape,      \* the queue and the kind of each message
    ready,      \* the messages that wait on their queue
    unacked,    \* the deliveries the broker has not seen acknowledged
    acked,      \* the deliveries it has
    fetched,    \* the deliveries in the deliveries channel of their consumer
    at,         \* where each consumer goroutine is
    job,        \* the message it works on: none or one
    via,        \* the channel it has read for its answer
    handled,    \* how the handler ended, of each delivery it was run for
    results     \* the replies and node results published, and what they say

brokerVars == <<ready, unacked, acked, fetched>>
workerVars == <<at, job, via>>
vars == <<connVars, closerVars, shape, brokerVars, workerVars, handled, results>>

QueueOf(m) == shape[m][1]
KindOf(m) == shape[m][2]

(* The handler's ends: a result, a result that JSON cannot encode, an error;
   Client.run makes an error of a panic. *)
Ends == {"result", "unencodable", "error"}

(* What wants an answer, and the ends that make a difference to the others. *)
Answered(m) == KindOf(m) = "request"
EndsOf(m) == IF Answered(m) THEN Ends ELSE {"result"}

Verdicts == {"ok", "failed"}
Places == {"none", "select", "handler", "answer", "publish", "ack", "stopped"}

Optional(S) == {{}} \cup {{x} : x \in S}

TypeOK ==
    /\ ConnTypeOK
    /\ shape \in [Messages -> Shapes]
    /\ ready \subseteq Messages
    /\ unacked \subseteq Deliveries
    /\ acked \subseteq Deliveries
    /\ fetched \subseteq Deliveries
    /\ at \in [Workers -> Places]
    /\ job \in [Workers -> Optional(Messages)]
    /\ via \in [Workers -> ConnsOrNil]
    /\ \A w \in Workers : at[w] = "publish" => via[w] \in Conns
    /\ handled \in [Deliveries -> Ends \cup {"not"}]
    /\ results \subseteq Deliveries \X Verdicts

Init ==
    /\ ConnInit
    /\ shape \in [Messages -> Shapes]
    /\ ready = Messages
    /\ unacked = {}
    /\ acked = {}
    /\ fetched = {}
    /\ at = [w \in Workers |-> "none"]
    /\ job = [w \in Workers |-> {}]
    /\ via = [w \in Workers |-> Nil]
    /\ handled = [d \in Deliveries |-> "not"]
    /\ results = {}

-----------------------------------------------------------------------------
(***************************************************************************)
(* The client is started, or started again after a Close, and consumes its *)
(* queues on the new channel.                                              *)
(***************************************************************************)
Connect ==
    /\ Dial
    /\ UNCHANGED <<closerVars, shape, brokerVars, workerVars, handled, results>>

StartConsumers ==
    /\ channel \in chOpen
    /\ \A q \in Queues : at[<<q, channel>>] = "none"
    /\ at' = [w \in Workers |-> IF w[2] = channel THEN "select" ELSE at[w]]
    /\ UNCHANGED <<connVars, closerVars, shape, brokerVars, job, via, handled, results>>

-----------------------------------------------------------------------------
(***************************************************************************)
(* The broker.                                                             *)
(***************************************************************************)

(* The unacknowledged deliveries of a consumer. *)
Window(q, g) == {m \in Messages : <<m, g>> \in unacked /\ QueueOf(m) = q}

(* The broker knows a consumer until its channel ends, whether or not its
   goroutine still runs. *)
Deliver(m, g) ==
    /\ m \in ready
    /\ g \in chOpen
    /\ at[<<QueueOf(m), g>>] # "none"
    /\ Cardinality(Window(QueueOf(m), g)) < Prefetch
    /\ ready' = ready \ {m}
    /\ unacked' = unacked \cup {<<m, g>>}
    /\ fetched' = fetched \cup {<<m, g>>}
    /\ UNCHANGED <<connVars, closerVars, shape, acked, workerVars, handled, results>>

(* What was not acknowledged on a channel that ends goes back to its queue. *)
Requeue ==
    /\ unacked' = {d \in unacked : d[2] \in chOpen'}
    /\ ready' = ready \cup {m \in Messages : \E g \in Conns : <<m, g>> \in unacked \ unacked'}
    /\ UNCHANGED <<acked, fetched>>

(* Of a lost channel and a lost connection the consumers see the same. *)
Lose(g) ==
    /\ ConnectionLost(g)
    /\ Requeue
    /\ UNCHANGED <<shape, workerVars, handled, results>>

Close(k) ==
    /\ CloseNotStarted(k) \/ CloseSwap(k) \/ CloseCancel(k) \/ CloseWire(k) \/ CloseReturns(k)
    /\ Requeue
    /\ UNCHANGED <<shape, workerVars, handled, results>>

-----------------------------------------------------------------------------
(***************************************************************************)
(* The goroutine of a queue on a connection.                               *)
(***************************************************************************)
Goto(w, from, to) ==
    /\ at[w] = from
    /\ at' = [at EXCEPT ![w] = to]

(* A delivery that runs no handler is logged and acknowledged. *)
Dropped(m) == KindOf(m) = "dropped"

(* MUTATION: a delivery that runs no handler is not acknowledged. *)
ReceiveForgets(q, g) ==
    \E m \in Messages :
        /\ QueueOf(m) = q
        /\ <<m, g>> \in fetched
        /\ Goto(<<q, g>>, "select", IF Dropped(m) THEN "select" ELSE "handler")
        /\ job' = [job EXCEPT ![<<q, g>>] = IF Dropped(m) THEN {} ELSE {m}]
        /\ fetched' = fetched \ {<<m, g>>}
        /\ UNCHANGED <<connVars, closerVars, shape, ready, unacked, acked, via, handled, results>>

(* MUTATION: the delivery is acknowledged before its handler runs. *)
ReceiveAcks(q, g) ==
    \E m \in Messages :
        /\ QueueOf(m) = q
        /\ <<m, g>> \in fetched
        /\ Goto(<<q, g>>, "select", IF Dropped(m) THEN "ack" ELSE "handler")
        /\ job' = [job EXCEPT ![<<q, g>>] = {m}]
        /\ fetched' = fetched \ {<<m, g>>}
        /\ acked' = acked \cup ({<<m, g>>} \cap unacked)
        /\ unacked' = unacked \ {<<m, g>>}
        /\ UNCHANGED <<connVars, closerVars, shape, ready, via, handled, results>>

(* A delivery is received, its routing key looked up and its body decoded.
   Go's select may take it even when the context is cancelled already, and
   the deliveries channel may yield it after its AMQP channel has ended. *)
Receive(q, g) ==
    \E m \in Messages :
        /\ QueueOf(m) = q
        /\ <<m, g>> \in fetched
        /\ Goto(<<q, g>>, "select", IF Dropped(m) THEN "ack" ELSE "handler")
        /\ job' = [job EXCEPT ![<<q, g>>] = {m}]
        /\ fetched' = fetched \ {<<m, g>>}
        /\ UNCHANGED <<connVars, closerVars, shape, ready, unacked, acked, via, handled, results>>

(* MUTATION: a failed handler is only logged. *)
HandlerFailsQuietly(q, g) ==
    \E m \in job[<<q, g>>] : \E end \in EndsOf(m) :
        /\ handled' = [handled EXCEPT ![<<m, g>>] = end]
        /\ Goto(<<q, g>>, "handler",
                IF Answered(m) /\ end # "error" THEN "answer" ELSE "ack")
        /\ UNCHANGED <<connVars, closerVars, shape, brokerVars, job, via, results>>

(* MUTATION: a panic of the handler is not recovered. *)
HandlerPanics(q, g) ==
    \E m \in job[<<q, g>>] : \E end \in EndsOf(m) :
        /\ handled' = [handled EXCEPT ![<<m, g>>] = end]
        /\ Goto(<<q, g>>, "handler",
                IF end = "error" THEN "stopped"
                ELSE IF Answered(m) THEN "answer" ELSE "ack")
        /\ UNCHANGED <<connVars, closerVars, shape, brokerVars, job, via, results>>

(* The handler returns. An error of an event's or an action's handler is only
   logged, and a result that nobody asked for goes nowhere. *)
HandlerReturns(q, g) ==
    \E m \in job[<<q, g>>] : \E end \in EndsOf(m) :
        /\ handled' = [handled EXCEPT ![<<m, g>>] = end]
        /\ Goto(<<q, g>>, "handler",
                IF Answered(m) THEN "answer" ELSE "ack")
        /\ UNCHANGED <<connVars, closerVars, shape, brokerVars, job, via, results>>

(* MUTATION: the channel is not checked for nil. *)
ReadUnchecked(q, g) ==
    /\ Goto(<<q, g>>, "answer", "publish")
    /\ via' = [via EXCEPT ![<<q, g>>] = channel]
    /\ UNCHANGED <<connVars, closerVars, shape, brokerVars, job, handled, results>>

(* dispatchNodeResult and publishReply read t.ch afresh: it is nil during a
   Close, and after a restart another connection's than the delivery's. *)
ReadChannel(q, g) ==
    /\ channel # Nil
    /\ Goto(<<q, g>>, "answer", "publish")
    /\ via' = [via EXCEPT ![<<q, g>>] = channel]
    /\ UNCHANGED <<connVars, closerVars, shape, brokerVars, job, handled, results>>

NoChannel(q, g) ==
    /\ channel = Nil
    /\ Goto(<<q, g>>, "answer", "ack")
    /\ UNCHANGED <<connVars, closerVars, shape, brokerVars, job, via, handled, results>>

EncodeFails(q, g) ==
    /\ \E m \in job[<<q, g>>] : handled[<<m, g>>] = "unencodable"
    /\ Goto(<<q, g>>, "publish", "ack")
    /\ via' = [via EXCEPT ![<<q, g>>] = Nil]
    /\ UNCHANGED <<connVars, closerVars, shape, brokerVars, job, handled, results>>

Verdict(d) == IF handled[d] = "error" THEN "failed" ELSE "ok"

(* MUTATION: no return after the failure was dispatched. *)
PublishFallsThrough(q, g) ==
    \E m \in job[<<q, g>>] :
        /\ handled[<<m, g>>] # "unencodable"
        /\ via[<<q, g>>] \in chOpen
        /\ Goto(<<q, g>>, "publish", "ack")
        /\ via' = [via EXCEPT ![<<q, g>>] = Nil]
        /\ results' = results \cup {<<<<m, g>>, Verdict(<<m, g>>)>>, <<<<m, g>>, "ok">>}
        /\ UNCHANGED <<connVars, closerVars, shape, brokerVars, job, handled>>

Publish(q, g) ==
    \E m \in job[<<q, g>>] :
        /\ handled[<<m, g>>] # "unencodable"
        /\ via[<<q, g>>] \in chOpen
        /\ Goto(<<q, g>>, "publish", "ack")
        /\ via' = [via EXCEPT ![<<q, g>>] = Nil]
        /\ results' = results \cup {<<<<m, g>>, Verdict(<<m, g>>)>>}
        /\ UNCHANGED <<connVars, closerVars, shape, brokerVars, job, handled>>

(* A publish that fails is logged; the delivery is acknowledged all the same. *)
PublishFails(q, g) ==
    /\ \E m \in job[<<q, g>>] : handled[<<m, g>>] # "unencodable"
    /\ via[<<q, g>>] \notin chOpen
    /\ Goto(<<q, g>>, "publish", "ack")
    /\ via' = [via EXCEPT ![<<q, g>>] = Nil]
    /\ UNCHANGED <<connVars, closerVars, shape, brokerVars, job, handled, results>>

(* MUTATION: the acknowledgement goes over the channel that t has by now. *)
AckOnCurrentChannel(q, g) ==
    \E m \in job[<<q, g>>] :
        /\ Goto(<<q, g>>, "ack", "select")
        /\ job' = [job EXCEPT ![<<q, g>>] = {}]
        /\ acked' = IF channel \in chOpen THEN acked \cup {<<m, g>>} ELSE acked
        /\ unacked' = IF channel \in chOpen THEN unacked \ {<<m, g>>} ELSE unacked
        /\ UNCHANGED <<connVars, closerVars, shape, ready, fetched, via, handled, results>>

(* The deferred d.Ack, on the channel of the delivery; it fails, and is not
   looked at, when that channel has ended. *)
Ack(q, g) ==
    \E m \in job[<<q, g>>] :
        /\ Goto(<<q, g>>, "ack", "select")
        /\ job' = [job EXCEPT ![<<q, g>>] = {}]
        /\ acked' = acked \cup ({<<m, g>>} \cap unacked)
        /\ unacked' = unacked \ {<<m, g>>}
        /\ UNCHANGED <<connVars, closerVars, shape, ready, fetched, via, handled, results>>

(* The goroutine ends, and with it the deliveries it has not received. *)
Stop(q, g) ==
    /\ g \in cancelled \/ g \notin chOpen
    /\ Goto(<<q, g>>, "select", "stopped")
    /\ fetched' = {d \in fetched : d[2] = g => QueueOf(d[1]) # q}
    /\ UNCHANGED <<connVars, closerVars, shape, ready, unacked, acked, job, via, handled, results>>

Consume(q, g) ==
    \/ Receive(q, g) \/ HandlerReturns(q, g)
    \/ ReadChannel(q, g) \/ NoChannel(q, g)
    \/ EncodeFails(q, g) \/ Publish(q, g) \/ PublishFails(q, g)
    \/ Ack(q, g) \/ Stop(q, g)

-----------------------------------------------------------------------------
(* The program may end its use of the client at any point. *)
Rest == UNCHANGED vars

Next ==
    \/ Connect
    \/ StartConsumers
    \/ \E m \in Messages, g \in Conns : Deliver(m, g)
    \/ \E g \in Conns : Lose(g)
    \/ \E k \in Closers : Close(k)
    \/ \E q \in Queues, g \in Conns : Consume(q, g)
    \/ Rest

Spec == Init /\ [][Next]_vars

(***************************************************************************)
(* Fairness: goroutines run, handlers return, a Close that has begun goes  *)
(* on, and the broker delivers what it can. Nobody is obliged to start or  *)
(* close the client.                                                       *)
(***************************************************************************)
FairSpec ==
    /\ Spec
    /\ \A q \in Queues, g \in Conns : WF_vars(Consume(q, g))
    /\ \A k \in Closers : WF_vars(closerPc[k] # "idle" /\ Close(k))
    /\ \A m \in Messages, g \in Conns : WF_vars(Deliver(m, g))

-----------------------------------------------------------------------------
(***************************************************************************)
(* Safety.                                                                 *)
(***************************************************************************)

(* Nothing is settled unseen: the broker forgets a message only after a
   handler has run for it to its end, unless no handler can be run for it.
   Handlers that panic or fail, lost channels and restarts included. *)
SettledMeansHandled ==
    \A d \in acked : handled[d] # "not" \/ Dropped(d[1])

(* A provider's message that was settled was also answered, unless the answer
   could not be encoded or the client was being closed: only a Close can make
   t.ch nil, or another channel than the delivery's, while that channel still
   takes the acknowledgement. *)
SettledMeansAnswered ==
    \A d \in acked :
        \/ ~Answered(d[1])
        \/ handled[d] = "unencodable"
        \/ \E k \in Closers : holds[k] = d[2]
        \/ \E v \in Verdicts : <<d, v>> \in results

(* The queues implement their promise: every attempt at a message runs its
   handler at most once, answers at most once, with what that handler returned
   for it and over whatever connection, and settles the message only then; and
   nothing is settled twice, whatever is redelivered, lost or closed between. *)
Want(m) ==
    IF Dropped(m) THEN "nothing"
    ELSE IF Answered(m) THEN "answer" ELSE "handler"
Wanted == [m \in Messages |-> Want(m)]
Shut == {g \in Conns : \E k \in Closers : holds[k] = g}

Promise == INSTANCE ServedQueue WITH
    Attempts <- Conns, wants <- Wanted, tried <- handled, answers <- results,
    settled <- acked, shut <- Shut

ImplementsQueue == Promise!Spec

(* No delivery leaks: on a live channel, what a running goroutine has not
   acknowledged is what it has yet to receive and what it works on. A leaked
   delivery would take a place of the prefetch window for good, and a few of
   them would silence the queue. *)
Waiting(q, g) == {m \in Messages : <<m, g>> \in fetched /\ QueueOf(m) = q}

NoDeliveryLeaks ==
    \A q \in Queues, g \in chOpen :
        at[<<q, g>>] # "stopped" => Window(q, g) = Waiting(q, g) \cup job[<<q, g>>]

(* The broker's account: a message waits on its queue, is out on one live
   channel, or is settled. So no two live deliveries of a message exist, and
   the bound on connections bounds its deliveries. *)
Accounted ==
    \A m \in Messages :
        LET out == {g \in Conns : <<m, g>> \in unacked}
            done == {g \in Conns : <<m, g>> \in acked}
        IN  /\ out \subseteq chOpen
            /\ Cardinality(out) + Cardinality(done) = IF m \in ready THEN 0 ELSE 1

-----------------------------------------------------------------------------
(***************************************************************************)
(* Liveness.                                                               *)
(***************************************************************************)

(* At least once: when the client stays up from some point on, every message
   is settled, however often it was put back before, and whatever the
   messages around it and their handlers did. *)
StaysUp ==
    <>[](started /\ channel \in chOpen /\ \A q \in Queues : at[<<q, channel>>] # "none")

EveryMessageSettles ==
    StaysUp => \A m \in Messages : <>(\E g \in Conns : <<m, g>> \in acked)
=============================================================================
