--------------------------- MODULE ClientLifecycle ---------------------------
(***************************************************************************)
(* The lifecycle of a plugin's Client (client.go, lifecycle.go) over the   *)
(* RabbitMQ transport: Start, Close, WaitClosed and Run, the consumers     *)
(* that Start brings up stage by stage, and Dispatch, which like Invoke    *)
(* connects on demand a transport that is not started.                     *)
(*                                                                         *)
(* The program may call these from any goroutine.  `serial` says whether   *)
(* this one makes its Start and Close calls one at a time; Dispatch calls  *)
(* run beside them in either case.                                         *)
(*                                                                         *)
(* A call of Run is a member of Starters, Waiters and Closers at once: its *)
(* Start, its WaitClosed goroutine and its final Close.                    *)
(***************************************************************************)
EXTENDS Connection

CONSTANTS
    Starters,     \* the calls of Client.Start, those of the Runs included
    Waiters,      \* the calls of WaitClosed, those of the Runs included
    Runs,         \* the calls of Run
    Dispatchers,  \* the calls of Dispatch
    Served        \* the kinds of registrations that the client has

Kinds == {"provider", "event", "action"}

ASSUME RunsAssumption == Runs \subseteq Starters \cap Waiters \cap Closers
ASSUME ServedAssumption == Served \subseteq Kinds

VARIABLES
    serial,     \* Start and Close calls do not overlap
    lStarted,   \* lifecycle.started
    lClosed,    \* lifecycle.closed
    epoch,      \* lifecycle.closedCh, numbered in the order of creation
    closedChs,  \* the closedChs that are closed
    spc,        \* where each Start is: a stage of it, or how it ended
    step,       \* where it is within a Start...Consumers stage
    stageConn,  \* the channel a stage has read
    stageCtx,   \* the consumer context it has read; Nil is Background
    consumers,  \* the running consumer goroutines
    cpc,        \* where each Close is
    wpc,        \* where each WaitClosed is
    wEpoch,     \* the closedCh it waits on
    ctxDone,    \* the Runs whose context is cancelled
    dpc,        \* where each Dispatch is
    dConn,      \* the channel it has read
    strayed     \* ghost: the transport was connected behind a closed lifecycle

lifecycleVars == <<lStarted, lClosed, epoch, closedChs>>
startVars == <<spc, step, stageConn, stageCtx>>
waitVars == <<wpc, wEpoch>>
dispatchVars == <<dpc, dConn>>
vars == <<connVars, closerVars, serial, lifecycleVars, startVars, consumers, cpc,
          waitVars, ctxDone, dispatchVars, strayed>>

StartPcs == Kinds \cup {"idle", "check_closed", "transport", "mark", "returned", "failed"}
Consumers == [by : Starters, kind : Kinds, conn : Conns, ctx : ConnsOrNil]

TypeOK ==
    /\ ConnTypeOK
    /\ serial \in BOOLEAN
    /\ lStarted \in BOOLEAN
    /\ lClosed \in BOOLEAN
    /\ epoch \in Nat
    /\ closedChs \subseteq Nat
    /\ spc \in [Starters -> StartPcs]
    /\ step \in [Starters -> {"start", "read", "consume"}]
    /\ stageConn \in [Starters -> ConnsOrNil]
    /\ stageCtx \in [Starters -> ConnsOrNil]
    /\ consumers \subseteq Consumers
    /\ cpc \in [Closers -> {"idle", "transport", "returned"}]
    /\ wpc \in [Waiters -> {"idle", "waiting", "returned"}]
    /\ wEpoch \in [Waiters -> Nat]
    /\ ctxDone \subseteq Runs
    /\ dpc \in [Dispatchers -> {"idle", "read", "publish", "sent", "failed"}]
    /\ dConn \in [Dispatchers -> ConnsOrNil]
    /\ strayed \in BOOLEAN

Init ==
    /\ ConnInit
    /\ serial \in BOOLEAN
    /\ lStarted = FALSE
    /\ lClosed = FALSE
    /\ epoch = 0
    /\ closedChs = {}
    /\ spc = [s \in Starters |-> "idle"]
    /\ step = [s \in Starters |-> "start"]
    /\ stageConn = [s \in Starters |-> Nil]
    /\ stageCtx = [s \in Starters |-> Nil]
    /\ consumers = {}
    /\ cpc = [k \in Closers |-> "idle"]
    /\ wpc = [w \in Waiters |-> "idle"]
    /\ wEpoch = [w \in Waiters |-> 0]
    /\ ctxDone = {}
    /\ dpc = [d \in Dispatchers |-> "idle"]
    /\ dConn = [d \in Dispatchers |-> Nil]
    /\ strayed = FALSE

(* No Start and no Close is in progress. *)
StartQuiet(s) == spc[s] \in {"idle", "returned", "failed"}
Quiet ==
    /\ \A s \in Starters : StartQuiet(s)
    /\ \A k \in Closers : cpc[k] # "transport"

MayBegin == serial => Quiet

-----------------------------------------------------------------------------
(***************************************************************************)
(* Client.Start.                                                           *)
(***************************************************************************)
StartGoto(s, from, to) ==
    /\ spc[s] = from
    /\ spc' = [spc EXCEPT ![s] = to]

(* isStarted() and isClosed() lock the lifecycle one after the other. *)
StartCheckStarted(s) ==
    /\ MayBegin
    /\ StartGoto(s, "idle", IF lStarted THEN "check_closed" ELSE "transport")
    /\ UNCHANGED <<connVars, closerVars, serial, lifecycleVars, step, stageConn, stageCtx,
                   consumers, cpc, waitVars, ctxDone, dispatchVars, strayed>>

(* MUTATION: Start without the early return. *)
StartRegardless(s) ==
    /\ StartGoto(s, "check_closed", "transport")
    /\ UNCHANGED <<connVars, closerVars, serial, lifecycleVars, step, stageConn, stageCtx,
                   consumers, cpc, waitVars, ctxDone, dispatchVars, strayed>>

StartCheckClosed(s) ==
    /\ StartGoto(s, "check_closed", IF lClosed THEN "transport" ELSE "returned")
    /\ UNCHANGED <<connVars, closerVars, serial, lifecycleVars, step, stageConn, stageCtx,
                   consumers, cpc, waitVars, ctxDone, dispatchVars, strayed>>

StartTransport(s) ==
    /\ AlreadyStarted \/ Dial
    /\ StartGoto(s, "transport", "provider")
    /\ UNCHANGED <<closerVars, serial, lifecycleVars, step, stageConn, stageCtx,
                   consumers, cpc, waitVars, ctxDone, dispatchVars, strayed>>

(* Start gives up. With the lifecycle closed, a later Close does nothing, so
   a connection that the transport keeps has strayed. *)
StartGivesUp(s) ==
    /\ spc' = [spc EXCEPT ![s] = "failed"]
    /\ step' = [step EXCEPT ![s] = "start"]
    /\ stageConn' = [stageConn EXCEPT ![s] = Nil]
    /\ stageCtx' = [stageCtx EXCEPT ![s] = Nil]
    /\ strayed' = (strayed \/ lClosed)
    /\ UNCHANGED <<closerVars, serial, lifecycleVars, cpc, waitVars, ctxDone, dispatchVars>>

StartTransportFails(s) ==
    /\ spc[s] = "transport"
    /\ StartFails
    /\ StartGivesUp(s)
    /\ UNCHANGED consumers

(* The three stages, each a method of the transport that calls t.Start again,
   reads t.ch and the consumer context in one critical section, declares and
   consumes its queues and starts their goroutines. *)
NextStage(kind) ==
    CASE kind = "provider" -> "event"
      [] kind = "event" -> "action"
      [] kind = "action" -> "mark"

StageStep(s, at, next) ==
    /\ spc[s] \in Kinds
    /\ step[s] = at
    /\ step' = [step EXCEPT ![s] = next]

StageStart(s) ==
    /\ spc[s] = "action" => "action" \in Served
    /\ StageStep(s, "start", "read")
    /\ AlreadyStarted \/ Dial
    /\ UNCHANGED <<closerVars, serial, lifecycleVars, spc, stageConn, stageCtx,
                   consumers, cpc, waitVars, ctxDone, dispatchVars, strayed>>

StageStartFails(s) ==
    /\ spc[s] \in Kinds
    /\ step[s] = "start"
    /\ spc[s] = "action" => "action" \in Served
    /\ StartFails
    /\ StartGivesUp(s)
    /\ UNCHANGED consumers

(* StartActionConsumers returns at once when there is no action. *)
StageWithoutActions(s) ==
    /\ "action" \notin Served
    /\ step[s] = "start"
    /\ StartGoto(s, "action", "mark")
    /\ UNCHANGED <<connVars, closerVars, serial, lifecycleVars, step, stageConn, stageCtx,
                   consumers, cpc, waitVars, ctxDone, dispatchVars, strayed>>

(* MUTATION: no check for a nil channel. *)
StageReadUnchecked(s) ==
    /\ StageStep(s, "read", "consume")
    /\ stageConn' = [stageConn EXCEPT ![s] = channel]
    /\ stageCtx' = [stageCtx EXCEPT ![s] = channel]
    /\ UNCHANGED <<connVars, closerVars, serial, lifecycleVars, spc,
                   consumers, cpc, waitVars, ctxDone, dispatchVars, strayed>>

(* MUTATION: the context is read apart from the channel and may be older. *)
StageReadOldContext(s) ==
    /\ channel # Nil
    /\ StageStep(s, "read", "consume")
    /\ stageConn' = [stageConn EXCEPT ![s] = channel]
    /\ \E g \in 1..channel : stageCtx' = [stageCtx EXCEPT ![s] = g]
    /\ UNCHANGED <<connVars, closerVars, serial, lifecycleVars, spc,
                   consumers, cpc, waitVars, ctxDone, dispatchVars, strayed>>

StageRead(s) ==
    /\ channel # Nil
    /\ StageStep(s, "read", "consume")
    /\ stageConn' = [stageConn EXCEPT ![s] = channel]
    /\ stageCtx' = [stageCtx EXCEPT ![s] = channel]
    /\ UNCHANGED <<connVars, closerVars, serial, lifecycleVars, spc,
                   consumers, cpc, waitVars, ctxDone, dispatchVars, strayed>>

StageNoChannel(s) ==
    /\ spc[s] \in Kinds
    /\ step[s] = "read"
    /\ channel = Nil
    /\ StartGivesUp(s)
    /\ UNCHANGED <<connVars, consumers>>

Consumer(s) == [by |-> s, kind |-> spc[s], conn |-> stageConn[s], ctx |-> stageCtx[s]]

(* All the queues of the stage are declared and consumed. *)
StageConsume(s) ==
    /\ StageStep(s, "consume", "start")
    /\ \/ /\ spc[s] \in Served
          /\ stageConn[s] \in chOpen
          /\ consumers' = consumers \cup {Consumer(s)}
       \/ /\ spc[s] \notin Served
          /\ UNCHANGED consumers
    /\ spc' = [spc EXCEPT ![s] = NextStage(spc[s])]
    /\ stageConn' = [stageConn EXCEPT ![s] = Nil]
    /\ stageCtx' = [stageCtx EXCEPT ![s] = Nil]
    /\ UNCHANGED <<connVars, closerVars, serial, lifecycleVars,
                   cpc, waitVars, ctxDone, dispatchVars, strayed>>

(* A declaration or a consume fails: the broker refuses it with a channel
   exception, or the channel was dead already.  Queues of the same stage that
   came before keep their consumers; there is but one action queue. *)
StageConsumeFails(s) ==
    /\ spc[s] \in Served
    /\ step[s] = "consume"
    /\ \/ UNCHANGED consumers
       \/ spc[s] # "action" /\ consumers' = consumers \cup {Consumer(s)}
    /\ chOpen' = chOpen \ {stageConn[s]}
    /\ UNCHANGED <<dialed, started, channel, connOpen, cancelled>>
    /\ StartGivesUp(s)

(* MUTATION: markStarted makes a fresh closedCh every time. *)
MarkStartedAfresh(s) ==
    /\ StartGoto(s, "mark", "returned")
    /\ lStarted' = TRUE
    /\ lClosed' = FALSE
    /\ epoch' = epoch + 1
    /\ UNCHANGED <<connVars, closerVars, serial, closedChs, step, stageConn, stageCtx,
                   consumers, cpc, waitVars, ctxDone, dispatchVars, strayed>>

(* MUTATION: markStarted does not reset a closed lifecycle. *)
MarkStartedOnce(s) ==
    /\ StartGoto(s, "mark", "returned")
    /\ lStarted' = TRUE
    /\ UNCHANGED <<connVars, closerVars, serial, lClosed, epoch, closedChs, step, stageConn,
                   stageCtx, consumers, cpc, waitVars, ctxDone, dispatchVars, strayed>>

(* markStarted: a closed lifecycle gets a fresh closedCh. *)
StartMark(s) ==
    /\ StartGoto(s, "mark", "returned")
    /\ lStarted' = TRUE
    /\ lClosed' = FALSE
    /\ epoch' = IF lClosed THEN epoch + 1 ELSE epoch
    /\ UNCHANGED <<connVars, closerVars, serial, closedChs, step, stageConn, stageCtx,
                   consumers, cpc, waitVars, ctxDone, dispatchVars, strayed>>

-----------------------------------------------------------------------------
(* A consumer goroutine ends when its context is cancelled or its deliveries
   end with their channel. *)

(* MUTATION: a closed deliveries channel does not end the goroutine. *)
StopsOnContextOnly(x) ==
    /\ x \in consumers
    /\ x.ctx \in cancelled
    /\ consumers' = consumers \ {x}
    /\ UNCHANGED <<connVars, closerVars, serial, lifecycleVars, startVars, cpc,
                   waitVars, ctxDone, dispatchVars, strayed>>

ConsumerStops(x) ==
    /\ x \in consumers
    /\ x.ctx \in cancelled \/ x.conn \notin chOpen
    /\ consumers' = consumers \ {x}
    /\ UNCHANGED <<connVars, closerVars, serial, lifecycleVars, startVars, cpc,
                   waitVars, ctxDone, dispatchVars, strayed>>

-----------------------------------------------------------------------------
(***************************************************************************)
(* Client.Close.                                                           *)
(***************************************************************************)

(* MUTATION: Run waits for a Close and not for its context. *)
RunIgnoresContext(k) ==
    k \in Runs => spc[k] = "returned" /\ wpc[k] = "returned"

(* Run closes when its context is done or the client was closed; a Run whose
   Start failed returns without a Close. *)
MayClose(k) ==
    k \in Runs => spc[k] = "returned" /\ (k \in ctxDone \/ wpc[k] = "returned")

CloseCheck(k) ==
    /\ MayBegin
    /\ MayClose(k)
    /\ cpc[k] = "idle"
    /\ cpc' = [cpc EXCEPT ![k] = IF lClosed THEN "returned" ELSE "transport"]
    /\ UNCHANGED <<connVars, closerVars, serial, lifecycleVars, startVars, consumers,
                   waitVars, ctxDone, dispatchVars, strayed>>

CloseTransport(k) ==
    /\ cpc[k] = "transport"
    /\ \/ CloseNotStarted(k) \/ CloseSwap(k) \/ CloseCancel(k) \/ CloseWire(k)
       \/ CloseReturns(k)
    /\ UNCHANGED <<serial, lifecycleVars, startVars, consumers, cpc, waitVars,
                   ctxDone, dispatchVars, strayed>>

(* MUTATION: markClosed does not close closedCh. *)
MarkClosedSilently(k) ==
    /\ cpc[k] = "transport"
    /\ closerPc[k] = "returned"
    /\ cpc' = [cpc EXCEPT ![k] = "returned"]
    /\ lClosed' = TRUE
    /\ UNCHANGED <<connVars, closerVars, serial, lStarted, epoch, closedChs, startVars,
                   consumers, waitVars, ctxDone, dispatchVars, strayed>>

(* markClosed: only the first of several closes the closedCh. *)
CloseMark(k) ==
    /\ cpc[k] = "transport"
    /\ closerPc[k] = "returned"
    /\ cpc' = [cpc EXCEPT ![k] = "returned"]
    /\ lClosed' = TRUE
    /\ closedChs' = IF lClosed THEN closedChs ELSE closedChs \cup {epoch}
    /\ UNCHANGED <<connVars, closerVars, serial, lStarted, epoch, startVars, consumers,
                   waitVars, ctxDone, dispatchVars, strayed>>

-----------------------------------------------------------------------------
(***************************************************************************)
(* WaitClosed reads closedCh under the lifecycle's lock and then waits.    *)
(***************************************************************************)
WaitRead(w) ==
    /\ wpc[w] = "idle"
    /\ w \in Runs => spc[w] = "returned"
    /\ wpc' = [wpc EXCEPT ![w] = "waiting"]
    /\ wEpoch' = [wEpoch EXCEPT ![w] = epoch]
    /\ UNCHANGED <<connVars, closerVars, serial, lifecycleVars, startVars, consumers, cpc,
                   ctxDone, dispatchVars, strayed>>

WaitReturn(w) ==
    /\ wpc[w] = "waiting"
    /\ wEpoch[w] \in closedChs
    /\ wpc' = [wpc EXCEPT ![w] = "returned"]
    /\ UNCHANGED <<connVars, closerVars, serial, lifecycleVars, startVars, consumers, cpc,
                   wEpoch, ctxDone, dispatchVars, strayed>>

CancelRun(r) ==
    /\ r \notin ctxDone
    /\ ctxDone' = ctxDone \cup {r}
    /\ UNCHANGED <<connVars, closerVars, serial, lifecycleVars, startVars, consumers, cpc,
                   waitVars, dispatchVars, strayed>>

-----------------------------------------------------------------------------
(***************************************************************************)
(* Dispatch, and the part of Invoke that connects.                         *)
(***************************************************************************)
DispatchGoto(d, from, to) ==
    /\ dpc[d] = from
    /\ dpc' = [dpc EXCEPT ![d] = to]

(* A Dispatch that connects the transport after, or during, a Close leaves a
   connection that no later Close tears down. *)
DispatchStart(d) ==
    /\ DispatchGoto(d, "idle", "read")
    /\ AlreadyStarted \/ Dial
    /\ strayed' = (strayed \/ (~started /\ (lClosed \/ \E k \in Closers : cpc[k] = "transport")))
    /\ UNCHANGED <<closerVars, serial, lifecycleVars, startVars, consumers, cpc,
                   waitVars, ctxDone, dConn>>

DispatchStartFails(d) ==
    /\ DispatchGoto(d, "idle", "failed")
    /\ StartFails
    /\ UNCHANGED <<closerVars, serial, lifecycleVars, startVars, consumers, cpc,
                   waitVars, ctxDone, dConn, strayed>>

DispatchRead(d) ==
    /\ DispatchGoto(d, "read", IF channel = Nil THEN "failed" ELSE "publish")
    /\ dConn' = [dConn EXCEPT ![d] = channel]
    /\ UNCHANGED <<connVars, closerVars, serial, lifecycleVars, startVars, consumers, cpc,
                   waitVars, ctxDone, strayed>>

DispatchPublish(d) ==
    /\ dConn[d] \in chOpen
    /\ DispatchGoto(d, "publish", "sent")
    /\ UNCHANGED <<connVars, closerVars, serial, lifecycleVars, startVars, consumers, cpc,
                   waitVars, ctxDone, dConn, strayed>>

(* The payload does not encode, or the channel is closed. *)
DispatchFails(d) ==
    /\ DispatchGoto(d, "publish", "failed")
    /\ UNCHANGED <<connVars, closerVars, serial, lifecycleVars, startVars, consumers, cpc,
                   waitVars, ctxDone, dConn, strayed>>

-----------------------------------------------------------------------------
Start(s) ==
    \/ StartCheckStarted(s) \/ StartCheckClosed(s)
    \/ StartTransport(s) \/ StartTransportFails(s)
    \/ StageStart(s) \/ StageStartFails(s) \/ StageWithoutActions(s)
    \/ StageRead(s) \/ StageNoChannel(s)
    \/ StageConsume(s) \/ StageConsumeFails(s)
    \/ StartMark(s)

Close(k) == CloseCheck(k) \/ CloseTransport(k) \/ CloseMark(k)

WaitClosed(w) == WaitRead(w) \/ WaitReturn(w)

Dispatch(d) ==
    \/ DispatchStart(d) \/ DispatchStartFails(d) \/ DispatchRead(d)
    \/ DispatchPublish(d) \/ DispatchFails(d)

Broker ==
    /\ \E g \in Conns : ChannelLost(g) \/ ConnectionLost(g)
    /\ UNCHANGED <<serial, lifecycleVars, startVars, consumers, cpc, waitVars,
                   ctxDone, dispatchVars, strayed>>

(* A program with no Start and no Close to come may stay as it is. *)
Rest == Quiet /\ UNCHANGED vars

Next ==
    \/ \E s \in Starters : Start(s)
    \/ \E x \in consumers : ConsumerStops(x)
    \/ \E k \in Closers : Close(k)
    \/ \E w \in Waiters : WaitClosed(w)
    \/ \E r \in Runs : CancelRun(r)
    \/ \E d \in Dispatchers : Dispatch(d)
    \/ Broker
    \/ Rest

Spec == Init /\ [][Next]_vars

(***************************************************************************)
(* Fairness: the Go scheduler runs every goroutine that can take a step,   *)
(* so that a call which has begun goes on, and so does what Run begins     *)
(* itself.  Nobody is obliged to call anything, to cancel a context or to  *)
(* lose a connection.                                                      *)
(***************************************************************************)
FairSpec ==
    /\ Spec
    /\ \A s \in Starters : WF_vars(spc[s] # "idle" /\ Start(s))
    /\ \A k \in Closers : WF_vars((k \in Runs \/ cpc[k] # "idle") /\ Close(k))
    /\ \A w \in Waiters : WF_vars((w \in Runs \/ wpc[w] # "idle") /\ WaitClosed(w))
    /\ WF_vars(\E x \in consumers : ConsumerStops(x))

-----------------------------------------------------------------------------
(***************************************************************************)
(* Safety.                                                                 *)
(***************************************************************************)

(* No waiter is abandoned: a closedCh that markStarted has replaced was
   closed before, so whoever waits on it wakes up, and lifecycle.closed says
   whether the current one is closed, so that no Close closes it twice, which
   would panic.  Any number of Starts and Closes may run at once. *)
NoAbandonedWaiter ==
    /\ \A e \in 0..epoch : e \in closedChs <=> (e < epoch \/ lClosed)
    /\ \A w \in Waiters : wEpoch[w] <= epoch

(* A running consumer of a channel that still delivers is not told to stop,
   unless a Close is about to close that very channel: otherwise the queue
   would keep a consumer that nobody reads, and its deliveries would wait. *)
NoDeafConsumer ==
    \A x \in consumers :
        x.conn \in chOpen /\ x.ctx \in cancelled =>
            \E k \in Closers : closerPc[k] = "cancelled" /\ holds[k] = x.conn

(* In a program that makes its Start and Close calls one at a time, the
   lifecycle tells the truth whenever none is in progress: closed means that
   no connection is left, open means a started transport on which, while its
   channel lives, every kind of registration is served.  Restarts, lost
   channels and Runs are included, and so are failed Starts and Dispatches
   as long as they connect nothing behind a closed lifecycle. *)
LifecycleTellsTheTruth ==
    serial /\ Quiet /\ ~strayed =>
        /\ lClosed => ~started /\ connOpen = {}
        /\ lStarted /\ ~lClosed =>
            /\ started
            /\ channel \in chOpen =>
                \A kind \in Served : \E x \in consumers : x.kind = kind /\ x.conn = channel

(* In such a program a queue never has two consumers of this client, so its
   deliveries are handled one after the other: not after a restart, not after
   a Start that failed half way and was tried again. *)
OneConsumerPerQueue ==
    serial =>
        \A x, y \in consumers :
            x.kind = y.kind /\ {x.conn, y.conn} \subseteq chOpen => x = y

-----------------------------------------------------------------------------
(***************************************************************************)
(* Liveness.                                                               *)
(***************************************************************************)

(* No consumer goroutine outlives its channel. *)
ConsumersStop ==
    \A g \in Conns :
        g <= dialed /\ g \notin chOpen ~> \A x \in consumers : x.conn # g

(* Everyone who waits for the client to be closed wakes up once it is, even
   when it is started again before they run. *)
WaitersWake ==
    \A w \in Waiters : wpc[w] = "waiting" /\ lClosed ~> wpc[w] = "returned"

(* Run returns, with its final Close done, once its context is cancelled or
   the client is closed while it waits. *)
RunReturns ==
    \A r \in Runs :
        \/ spc[r] # "idle" /\ r \in ctxDone
        \/ wpc[r] = "waiting" /\ lClosed
        ~> cpc[r] = "returned" \/ spc[r] = "failed"

-----------------------------------------------------------------------------
(***************************************************************************)
(* What the docs promise and the code does not do.                         *)
(***************************************************************************)

(* "Close tears down the transport. It is idempotent": a Close that finds the
   client at rest, no Start, Close or Dispatch being in progress, and returns
   at once leaves no connection open. *)
AtRest == Quiet /\ \A d \in Dispatchers : dpc[d] \in {"idle", "sent", "failed"}

CloseTearsDown ==
    [][\A k \in Closers :
         AtRest /\ cpc[k] = "idle" /\ cpc'[k] = "returned" => connOpen' = {}]_vars

(* "Start opens the transport and begins serving": when a Start returns
   without an error and no Start and no Close is in progress, the transport
   is started. *)
StartServes ==
    [][\A s \in Starters :
         spc[s] # "returned" /\ spc'[s] = "returned" /\ Quiet' => started']_vars
=============================================================================
