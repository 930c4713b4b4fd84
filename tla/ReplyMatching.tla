--------------------------- MODULE ReplyMatching ---------------------------
(***************************************************************************)
(* Synchronous invokes over the RabbitMQ transport (rabbitmq.go): Invoke,  *)
(* the reply consumer goroutine, Close and reconnection, on the `pending`  *)
(* map they share.                                                         *)
(*                                                                         *)
(* A step is one critical section, one channel operation or one call to    *)
(* the broker.  NewMessageID gives every call an id of its own, so a call  *)
(* is named by its id and `pending`, a map from ids to waiters, is the set *)
(* of ids it holds.  A reply <<c, n>> is the n-th answer to call c: a      *)
(* provider whose delivery is redelivered answers more than once.          *)
(***************************************************************************)
EXTENDS Connection

CONSTANTS
    Calls,      \* the calls of (*rabbitMQTransport).Invoke
    MaxReplies  \* bound: how many answers a call may be given

ASSUME MaxRepliesAssumption == MaxReplies \in Nat \ {0}

Replies == Calls \X (1..MaxReplies)
CallOf(r) == r[1]

VARIABLES
    pc,         \* where each Invoke is
    chOf,       \* the channel each Invoke has read from t.ch
    pending,    \* t.pending: the ids whose waiter is registered
    buffer,     \* the waiter of each call, a Go channel of capacity one
    closed,     \* the calls whose waiter is closed
    outcome,    \* what each Invoke returns
    result,     \* the reply it returns: none or one
    requested,  \* the calls whose request the broker accepted
    sent,       \* the replies providers have published
    inflight,   \* the replies the broker has still to deliver
    loop,       \* consumeReplies of each connection
    hand,       \* the waiter and reply consumeReplies is about to send
    panicked    \* the process has died of a panic

waiterVars == <<pending, buffer, closed>>
callVars == <<pc, chOf, outcome, result>>
brokerVars == <<requested, sent, inflight>>
loopVars == <<loop, hand>>
vars == <<connVars, closerVars, waiterVars, callVars, brokerVars, loopVars, panicked>>

Pcs == {"idle", "channel", "register", "publish", "waiting", "cleanup", "returned"}
Outcomes == {"none", "reply", "nil_reply", "timeout", "canceled", "transport_error"}
LoopPcs == {"none", "select", "stopped"}

(* None or one of S. *)
Optional(S) == {{}} \cup {{x} : x \in S}

(* Types; a waiter has the capacity of its Go channel, one. *)
TypeOK ==
    /\ ConnTypeOK
    /\ pc \in [Calls -> Pcs]
    /\ chOf \in [Calls -> ConnsOrNil]
    /\ pending \subseteq Calls
    /\ buffer \in [Calls -> Optional(Replies)]
    /\ closed \subseteq Calls
    /\ outcome \in [Calls -> Outcomes]
    /\ result \in [Calls -> Optional(Replies)]
    /\ requested \subseteq Calls
    /\ sent \subseteq Replies
    /\ inflight \subseteq Replies
    /\ loop \in [Conns -> LoopPcs]
    /\ hand \in [Conns -> Optional(Calls \X Replies)]
    /\ panicked \in BOOLEAN

Init ==
    /\ ConnInit
    /\ pc = [c \in Calls |-> "idle"]
    /\ chOf = [c \in Calls |-> Nil]
    /\ pending = {}
    /\ buffer = [c \in Calls |-> {}]
    /\ closed = {}
    /\ outcome = [c \in Calls |-> "none"]
    /\ result = [c \in Calls |-> {}]
    /\ requested = {}
    /\ sent = {}
    /\ inflight = {}
    /\ loop = [g \in Conns |-> "none"]
    /\ hand = [g \in Conns |-> {}]
    /\ panicked = FALSE

-----------------------------------------------------------------------------
(* Helpers: a call moves on, or leaves with an outcome. *)
Goto(c, from, to) ==
    /\ pc[c] = from
    /\ pc' = [pc EXCEPT ![c] = to]

Leave(c, from, to, o) ==
    /\ Goto(c, from, to)
    /\ outcome' = [outcome EXCEPT ![c] = o]

(***************************************************************************)
(* Invoke.                                                                 *)
(***************************************************************************)

(* t.Start(ctx): a transport that is not started is connected on the way,
   and a new connection gets its reply consumer. *)
InvokeStart(c) ==
    /\ \/ /\ AlreadyStarted
          /\ UNCHANGED loop
       \/ /\ Dial
          /\ loop' = [loop EXCEPT ![dialed + 1] = "select"]
    /\ Goto(c, "idle", "channel")
    /\ UNCHANGED <<closerVars, waiterVars, chOf, outcome, result, brokerVars, hand, panicked>>

InvokeStartFails(c) ==
    /\ StartFails
    /\ Leave(c, "idle", "returned", "transport_error")
    /\ UNCHANGED <<closerVars, waiterVars, chOf, result, brokerVars, loopVars, panicked>>

(* ch := t.ch, under t.mu again: a Close may have come between. *)
InvokeReadChannel(c) ==
    /\ channel # Nil
    /\ Goto(c, "channel", "register")
    /\ chOf' = [chOf EXCEPT ![c] = channel]
    /\ UNCHANGED <<connVars, closerVars, waiterVars, outcome, result, brokerVars, loopVars, panicked>>

InvokeNoChannel(c) ==
    /\ channel = Nil
    /\ Leave(c, "channel", "returned", "transport_error")
    /\ UNCHANGED <<connVars, closerVars, waiterVars, chOf, result, brokerVars, loopVars, panicked>>

(* The envelope is encoded before the waiter is registered: a payload that
   JSON cannot encode leaves nothing in pending. *)
InvokeEncodeFails(c) ==
    /\ Leave(c, "register", "returned", "transport_error")
    /\ UNCHANGED <<connVars, closerVars, waiterVars, chOf, result, brokerVars, loopVars, panicked>>

InvokeRegister(c) ==
    /\ Goto(c, "register", "publish")
    /\ pending' = pending \cup {c}
    /\ UNCHANGED <<connVars, closerVars, buffer, closed, chOf, outcome, result, brokerVars, loopVars, panicked>>

(* The publish uses the channel read before, whatever t.ch is now. *)
InvokePublish(c) ==
    /\ chOf[c] \in chOpen
    /\ Goto(c, "publish", "waiting")
    /\ requested' = requested \cup {c}
    /\ UNCHANGED <<connVars, closerVars, waiterVars, chOf, outcome, result, sent, inflight, loopVars, panicked>>

InvokePublishFails(c) ==
    /\ chOf[c] \notin chOpen
    /\ Leave(c, "publish", "cleanup", "transport_error")
    /\ UNCHANGED <<connVars, closerVars, waiterVars, chOf, result, brokerVars, loopVars, panicked>>

(* MUTATION: an Invoke without a timer. *)
InvokeWithoutTimer(c) == pc[c] = "none" /\ UNCHANGED vars

(* The select on the waiter, the timer and ctx.Done(); Go takes any ready
   case.  A receive from a closed waiter yields what is buffered first and
   then nil, which Invoke returns with no error. *)
InvokeReceive(c) ==
    /\ buffer[c] # {}
    /\ Leave(c, "waiting", "cleanup", "reply")
    /\ result' = [result EXCEPT ![c] = buffer[c]]
    /\ buffer' = [buffer EXCEPT ![c] = {}]
    /\ UNCHANGED <<connVars, closerVars, pending, closed, chOf, brokerVars, loopVars, panicked>>

InvokeReceiveNil(c) ==
    /\ buffer[c] = {}
    /\ c \in closed
    /\ Leave(c, "waiting", "cleanup", "nil_reply")
    /\ UNCHANGED <<connVars, closerVars, waiterVars, chOf, result, brokerVars, loopVars, panicked>>

InvokeTimeout(c) ==
    /\ Leave(c, "waiting", "cleanup", "timeout")
    /\ UNCHANGED <<connVars, closerVars, waiterVars, chOf, result, brokerVars, loopVars, panicked>>

InvokeCanceled(c) ==
    /\ Leave(c, "waiting", "cleanup", "canceled")
    /\ UNCHANGED <<connVars, closerVars, waiterVars, chOf, result, brokerVars, loopVars, panicked>>

(* MUTATION: no deferred delete, the entry stays behind. *)
CleanupLeaks(c) ==
    /\ Goto(c, "cleanup", "returned")
    /\ UNCHANGED <<connVars, closerVars, waiterVars, chOf, outcome, result, brokerVars, loopVars, panicked>>

(* The deferred delete(t.pending, msgID), then the return. *)
InvokeCleanup(c) ==
    /\ Goto(c, "cleanup", "returned")
    /\ pending' = pending \ {c}
    /\ UNCHANGED <<connVars, closerVars, buffer, closed, chOf, outcome, result, brokerVars, loopVars, panicked>>

-----------------------------------------------------------------------------
(***************************************************************************)
(* The provider's side, as the reply consumer sees it.  Direct reply-to    *)
(* binds a reply to the channel its request was published on, so a reply   *)
(* to a dead channel vanishes; a request or a reply may also be lost, by   *)
(* never being sent or delivered.                                          *)
(***************************************************************************)
ProviderReplies(r) ==
    /\ CallOf(r) \in requested
    /\ r \notin sent
    /\ r[2] > 1 => <<CallOf(r), r[2] - 1>> \in sent
    /\ chOf[CallOf(r)] \in chOpen
    /\ sent' = sent \cup {r}
    /\ inflight' = inflight \cup {r}
    /\ UNCHANGED <<connVars, closerVars, waiterVars, callVars, requested, loopVars, panicked>>

(***************************************************************************)
(* consumeReplies of connection g.  A delivery handed over before the      *)
(* channel died may still be taken after it: select picks any ready case.  *)
(***************************************************************************)
Receives(g, r) ==
    /\ loop[g] = "select"
    /\ hand[g] = {}
    /\ r \in inflight
    /\ chOf[CallOf(r)] = g
    /\ inflight' = inflight \ {r}

(* The body does not decode, the correlation id is missing (either may
   happen to any delivery), or no waiter is registered for it. *)
DropReply(g, r) ==
    /\ Receives(g, r)
    /\ UNCHANGED <<connVars, closerVars, waiterVars, callVars, requested, sent, loopVars, panicked>>

(* MUTATION: any registered waiter takes the reply, as with a lookup that is
   not by correlation id. *)
TakeUncorrelated(g, r) ==
    /\ Receives(g, r)
    /\ \E c \in pending : hand' = [hand EXCEPT ![g] = {<<c, r>>}]
    /\ UNCHANGED <<connVars, closerVars, waiterVars, callVars, requested, sent, loop, panicked>>

(* The waiter is looked up under t.pendingMu, which is then released. *)
TakeReply(g, r) ==
    /\ Receives(g, r)
    /\ CallOf(r) \in pending
    /\ hand' = [hand EXCEPT ![g] = {<<CallOf(r), r>>}]
    /\ UNCHANGED <<connVars, closerVars, waiterVars, callVars, requested, sent, loop, panicked>>

(* MUTATION: the send blocks while the buffer is full. *)
SendBlocks(g) ==
    \E c \in Calls, r \in Replies :
        /\ hand[g] = {<<c, r>>}
        /\ buffer[c] = {} \/ c \in closed
        /\ hand' = [hand EXCEPT ![g] = {}]
        /\ buffer' = IF c \in closed THEN buffer ELSE [buffer EXCEPT ![c] = {r}]
        /\ panicked' = (c \in closed)
        /\ UNCHANGED <<connVars, closerVars, pending, closed, callVars, brokerVars, loop>>

(* MUTATION: an unbounded waiter. *)
SendQueues(g) ==
    \E c \in Calls, r \in Replies :
        /\ hand[g] = {<<c, r>>}
        /\ hand' = [hand EXCEPT ![g] = {}]
        /\ buffer' = IF c \in closed THEN buffer ELSE [buffer EXCEPT ![c] = @ \cup {r}]
        /\ panicked' = (c \in closed)
        /\ UNCHANGED <<connVars, closerVars, pending, closed, callVars, brokerVars, loop>>

(* MUTATION: the send replaces a reply that nobody has received yet. *)
SendReplaces(g) ==
    \E c \in Calls, r \in Replies :
        /\ hand[g] = {<<c, r>>}
        /\ hand' = [hand EXCEPT ![g] = {}]
        /\ buffer' = IF c \in closed THEN buffer ELSE [buffer EXCEPT ![c] = {r}]
        /\ panicked' = (c \in closed)
        /\ UNCHANGED <<connVars, closerVars, pending, closed, callVars, brokerVars, loop>>

(* The non-blocking send on the waiter: a full buffer drops the reply, a
   closed channel panics, and nothing recovers the panic. *)
SendReply(g) ==
    \E c \in Calls, r \in Replies :
        /\ hand[g] = {<<c, r>>}
        /\ hand' = [hand EXCEPT ![g] = {}]
        /\ \/ c \in closed /\ panicked' = TRUE /\ UNCHANGED buffer
           \/ /\ c \notin closed
              /\ buffer' = IF buffer[c] = {} THEN [buffer EXCEPT ![c] = {r}] ELSE buffer
              /\ UNCHANGED panicked
        /\ UNCHANGED <<connVars, closerVars, pending, closed, callVars, brokerVars, loop>>

(* MUTATION: a reply with no waiter ends the consumer instead of the turn. *)
StopsOnUnknownReply(g) ==
    /\ loop[g] = "select"
    /\ hand[g] = {}
    /\ \/ g \in cancelled \/ g \notin chOpen
       \/ \E r \in inflight : chOf[CallOf(r)] = g /\ CallOf(r) \notin pending
    /\ loop' = [loop EXCEPT ![g] = "stopped"]
    /\ UNCHANGED <<connVars, closerVars, waiterVars, callVars, brokerVars, hand, panicked>>

(* ctx.Done(), or the deliveries channel closed with the AMQP channel. *)
LoopStops(g) ==
    /\ loop[g] = "select"
    /\ hand[g] = {}
    /\ g \in cancelled \/ g \notin chOpen
    /\ loop' = [loop EXCEPT ![g] = "stopped"]
    /\ UNCHANGED <<connVars, closerVars, waiterVars, callVars, brokerVars, hand, panicked>>

-----------------------------------------------------------------------------
(* MUTATION: Close forgets the waiters instead of closing them. *)
DrainWithoutClosing(k) ==
    /\ CloseReturns(k)
    /\ pending' = {}
    /\ UNCHANGED <<buffer, closed, callVars, brokerVars, loopVars, panicked>>

(* MUTATION: Close closes the waiters and leaves them registered. *)
DrainKeepsEntries(k) ==
    /\ CloseReturns(k)
    /\ closed' = closed \cup pending
    /\ panicked' = (pending \cap closed # {})
    /\ UNCHANGED <<pending, buffer, callVars, brokerVars, loopVars>>

(***************************************************************************)
(* Close.  The last step closes every waiter that is pending by then, of   *)
(* whatever connection; closing a closed Go channel would panic.           *)
(***************************************************************************)
CloseDrain(k) ==
    /\ CloseReturns(k)
    /\ closed' = closed \cup pending
    /\ pending' = {}
    /\ panicked' = (pending \cap closed # {})
    /\ UNCHANGED <<buffer, callVars, brokerVars, loopVars>>

Close(k) ==
    \/ /\ CloseNotStarted(k) \/ CloseSwap(k) \/ CloseCancel(k) \/ CloseWire(k)
       /\ UNCHANGED <<waiterVars, callVars, brokerVars, loopVars, panicked>>
    \/ CloseDrain(k)

Invoke(c) ==
    \/ InvokeStart(c) \/ InvokeStartFails(c)
    \/ InvokeReadChannel(c) \/ InvokeNoChannel(c)
    \/ InvokeEncodeFails(c) \/ InvokeRegister(c)
    \/ InvokePublish(c) \/ InvokePublishFails(c)
    \/ InvokeReceive(c) \/ InvokeReceiveNil(c) \/ InvokeTimeout(c) \/ InvokeCanceled(c)
    \/ InvokeCleanup(c)

ConsumeReplies(g) ==
    \/ \E r \in Replies : DropReply(g, r) \/ TakeReply(g, r)
    \/ SendReply(g)
    \/ LoopStops(g)

Broker ==
    \/ \E r \in Replies : ProviderReplies(r)
    \/ /\ \E g \in Conns : ChannelLost(g) \/ ConnectionLost(g)
       /\ UNCHANGED <<waiterVars, callVars, brokerVars, loopVars, panicked>>

(* Every call has returned and the process lives on, or it has panicked. *)
Finished ==
    /\ \/ panicked
       \/ /\ \A c \in Calls : pc[c] = "returned"
          /\ \A k \in Closers : closerPc[k] = "returned"
    /\ UNCHANGED vars

Next ==
    \/ /\ ~panicked
       /\ \/ \E c \in Calls : Invoke(c)
          \/ \E k \in Closers : Close(k)
          \/ \E g \in Conns : ConsumeReplies(g)
          \/ Broker
    \/ Finished

Spec == Init /\ [][Next]_vars

(***************************************************************************)
(* Fairness.  A goroutine that can take a step of its own takes one: the   *)
(* Go scheduler runs every runnable goroutine.  Nobody is obliged to call  *)
(* Invoke or Close, to cancel a context, to reply or to lose a connection. *)
(* PatientSpec does not even oblige timers to fire: its invokes have       *)
(* timeouts longer than any behaviour.                                     *)
(***************************************************************************)
OwnStep(c) ==
    \/ InvokeReadChannel(c) \/ InvokeNoChannel(c) \/ InvokeEncodeFails(c) \/ InvokeRegister(c)
    \/ InvokePublish(c) \/ InvokePublishFails(c)
    \/ InvokeReceive(c) \/ InvokeReceiveNil(c) \/ InvokeCleanup(c)

PatientSpec ==
    /\ Spec
    /\ \A c \in Calls : WF_vars(~panicked /\ OwnStep(c))
    /\ \A k \in Closers : WF_vars(~panicked /\ closerPc[k] # "idle" /\ Close(k))
    /\ \A g \in Conns : WF_vars(~panicked /\ ConsumeReplies(g))

TimersFire == \A c \in Calls : WF_vars(~panicked /\ InvokeTimeout(c))

-----------------------------------------------------------------------------
(***************************************************************************)
(* Safety.                                                                 *)
(***************************************************************************)

(* The pending map holds exactly the calls between their registration and
   their deferred delete that no Close has failed: no path out of Invoke
   leaves an entry behind, and no entry's waiter is closed, so that the next
   Close never closes a waiter twice. *)
Registered == {c \in Calls : pc[c] \in {"publish", "waiting", "cleanup"}}

PendingExact == pending = Registered \ closed

(* A reply only ever reaches the call it answers: through the reply consumer,
   the waiter's buffer and the return value, whatever is sent twice, late,
   out of order, or after a reconnection. *)
CorrelatedReply ==
    /\ \A c \in Calls : \A r \in buffer[c] \cup result[c] : CallOf(r) = c /\ r \in sent
    /\ \A g \in Conns : \A h \in hand[g] : CallOf(h[2]) = h[1] /\ h[2] \in sent

(* What makes the invariants inductive.  Only a registered call's waiter is
   closed, its request published and answered; and a call has an outcome from
   its select on, a nil reply only from a closed waiter. *)
Begun == {c \in Calls : pc[c] \in {"publish", "waiting", "cleanup", "returned"}}

Bookkeeping ==
    /\ closed \subseteq Begun
    /\ requested \subseteq Begun
    /\ inflight \subseteq sent
    /\ \A r \in sent : CallOf(r) \in requested
    /\ \A c \in Calls :
        /\ pc[c] \in {"cleanup", "returned"} <=> outcome[c] # "none"
        /\ outcome[c] = "nil_reply" => c \in closed
        /\ outcome[c] = "reply" <=> result[c] # {}

(* While the transport is started and its channel is alive, the goroutine
   that consumes the channel's replies is running: no reply, however
   malformed, late or unexpected, ends it, and no Close of an older
   connection does. *)
ReplyLoopAlive ==
    started /\ channel \in chOpen => loop[channel] = "select"

(* The inductive invariant. *)
IInv ==
    /\ TypeOK
    /\ ConnInv
    /\ PendingExact
    /\ CorrelatedReply
    /\ ReplyLoopAlive
    /\ Bookkeeping

(* The first reply wins: once a waiter holds a reply, no later reply takes its
   place; the reply is only ever received. *)
FirstReplyWins ==
    [][\A c \in Calls : buffer[c] # {} => buffer'[c] \in {buffer[c], {}}]_vars

(* Invoke over connections, waiters and goroutines implements the contract:
   a call is outstanding from its first step to its return, and what it
   returns is seen when it does. *)
Status == [c \in Calls |->
    IF pc[c] \in {"idle", "returned"} THEN pc[c] ELSE "outstanding"]
Outcome == [c \in Calls |-> IF pc[c] = "returned" THEN outcome[c] ELSE "none"]
Result == [c \in Calls |-> IF pc[c] = "returned" THEN result[c] ELSE {}]

Contract == INSTANCE InvokeContract WITH
    status <- Status, outcome <- Outcome, result <- Result,
    answered <- sent, shutdown <- closed, crashed <- panicked

ImplementsContract == Contract!Spec

-----------------------------------------------------------------------------
(***************************************************************************)
(* Liveness.                                                               *)
(***************************************************************************)

(* With timers that fire, every Invoke that has begun returns, whatever
   becomes of its request, its reply, the connection and Close. *)
EveryInvokeReturns ==
    TimersFire =>
        \A c \in Calls : pc[c] # "idle" ~> pc[c] = "returned" \/ panicked

(* Close "fails any pending replies" without waiting for their timers: an
   Invoke that has read the channel a Close is tearing down returns, at
   whatever point of its own the Close finds it.  It needs Close to close the
   channel before it drains t.pending. *)
CloseReleasesCalls ==
    \A c \in Calls, k \in Closers :
        Closing(k) /\ chOf[c] = holds[k] ~> pc[c] = "returned" \/ panicked

(* The reply consumer never stalls: the replies that the broker has for a
   connection are consumed, all of them, unless its consumer stops or the
   process dies.  In particular a second reply to a call that nobody receives
   does not hold up the other calls. *)
InflightOn(g) == {r \in inflight : chOf[CallOf(r)] = g}

RepliesKeepFlowing ==
    \A g \in Conns :
        InflightOn(g) # {} ~> InflightOn(g) = {} \/ loop[g] = "stopped" \/ panicked

-----------------------------------------------------------------------------
(***************************************************************************)
(* What the code's comments promise and the code does not do.              *)
(***************************************************************************)

(* "Close ... fails any pending replies": an Invoke whose waiter Close closes
   returns an error, never a nil reply and a nil error. *)
ClosedInvokesFail == \A c \in Calls : pc[c] = "returned" => outcome[c] # "nil_reply"

(* Closing a transport with a reply on its way does not bring the process
   down: the reply is routed to its waiting channel or dropped. *)
NeverPanics == ~panicked
=============================================================================
