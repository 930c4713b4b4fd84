------------------------ MODULE ClientLifecycleProofs ------------------------
(***************************************************************************)
(* The lifecycle of a plugin's Client, for any number of Starts, Closes,   *)
(* Runs, waiters, Dispatches and connections.                              *)
(*                                                                         *)
(* The argument has two layers.  BaseInv holds of every program: the       *)
(* connection's own invariant (ConnectionProofs), the lifecycle's account  *)
(* of closedChs, and that a consumer listens to the context of its own     *)
(* channel, from which TypeOK, NoAbandonedWaiter and NoDeafConsumer        *)
(* follow.  SerialInv is about programs that make their Start and Close    *)
(* calls one at a time: what each stage of Start has brought up, what each *)
(* step of Close has taken down and what is true between them, from which  *)
(* LifecycleTellsTheTruth and OneConsumerPerQueue follow.                  *)
(***************************************************************************)
EXTENDS ClientLifecycle, ConnectionProofs

(***************************************************************************)
(* The invariant of every program.                                         *)
(***************************************************************************)

(* Types.  The Booleans have a predicate of their own: the rest is sets,
   functions and numbers. *)
LifecycleOK ==
    /\ epoch \in Nat
    /\ closedChs \subseteq 0..epoch
    /\ wpc \in [Waiters -> {"idle", "waiting", "returned"}]
    /\ wEpoch \in [Waiters -> Nat]

CallsOK ==
    /\ spc \in [Starters -> StartPcs]
    /\ step \in [Starters -> {"start", "read", "consume"}]
    /\ stageConn \in [Starters -> ConnsOrNil]
    /\ stageCtx \in [Starters -> ConnsOrNil]
    /\ consumers \subseteq Consumers
    /\ cpc \in [Closers -> {"idle", "transport", "returned"}]
    /\ ctxDone \subseteq Runs
    /\ dpc \in [Dispatchers -> {"idle", "read", "publish", "sent", "failed"}]
    /\ dConn \in [Dispatchers -> ConnsOrNil]

Flags ==
    /\ serial \in BOOLEAN
    /\ lStarted \in BOOLEAN
    /\ lClosed \in BOOLEAN
    /\ strayed \in BOOLEAN

(* The Client's Close and the transport's are in step: the second runs within
   the first. *)
ClosersInStep ==
    \A k \in Closers :
        /\ cpc[k] = "idle" => closerPc[k] = "idle"
        /\ cpc[k] = "returned" => closerPc[k] \in {"idle", "returned"}

(* A stage reads its channel and its context together, so that they are of the
   same connection; so are those of the consumers it starts. *)
OwnContext ==
    /\ \A s \in Starters : step[s] = "consume" =>
        /\ spc[s] \in Kinds
        /\ stageConn[s] \in 1..dialed
        /\ stageCtx[s] = stageConn[s]
    /\ \A x \in consumers : x.conn \in 1..dialed /\ x.ctx = x.conn

BaseInv ==
    /\ ConnInv
    /\ LiveChannels
    /\ Flags
    /\ LifecycleOK
    /\ CallsOK
    /\ NoAbandonedWaiter
    /\ ClosersInStep
    /\ OwnContext

-----------------------------------------------------------------------------
(* Of the connection, Start takes only the connection's own steps. *)
LEMMA StartConn ==
  ASSUME BaseInv, NEW s \in Starters, Start(s)
  PROVE  \/ ConnNext
         \/ UNCHANGED <<connVars, closerVars>>
<1> USE DEF connVars, closerVars
<1>1. CASE StartTransport(s) \/ StageStart(s)
  BY <1>1 DEF StartTransport, StageStart, ConnNext
<1>2. CASE StartTransportFails(s) \/ StageStartFails(s)
  BY <1>2 DEF StartTransportFails, StageStartFails, StartFails, StartGivesUp
<1>3. CASE StageConsumeFails(s)
  <2>1. stageConn[s] \in Conns
    BY <1>3, MaxConnsAssumption
    DEF StageConsumeFails, BaseInv, OwnContext, ConnInv, ConnTypeOK, Conns, ConnsOrNil
  <2>2. UNCHANGED <<dialed, started, channel, connOpen, cancelled, closerVars>>
        /\ chOpen' = chOpen \ {stageConn[s]}
    BY <1>3 DEF StageConsumeFails, StartGivesUp
  <2>3. CASE stageConn[s] \in chOpen
    BY <2>1, <2>2, <2>3 DEF ChannelLost, ConnNext
  <2>4. CASE stageConn[s] \notin chOpen
    BY <2>2, <2>4
  <2>5. QED
    BY <2>3, <2>4
<1>4. QED
  BY <1>1, <1>2, <1>3
  DEF Start, StartCheckStarted, StartCheckClosed, StageWithoutActions, StageRead, StageNoChannel,
      StageConsume, StartMark, StartGivesUp

(* So does every other action. *)
LEMMA ConnPart ==
  ASSUME BaseInv, Next
  PROVE  ConnNext \/ UNCHANGED <<connVars, closerVars>>
<1>1. CASE \E s \in Starters : Start(s)
  BY <1>1, StartConn
<1>2. CASE \E k \in Closers : Close(k)
  BY <1>2 DEF Close, CloseCheck, CloseTransport, CloseMark, ConnNext
<1>3. CASE \E d \in Dispatchers : Dispatch(d)
  BY <1>3 DEF Dispatch, DispatchStart, DispatchStartFails, DispatchRead, DispatchPublish,
              DispatchFails, StartFails, ConnNext
<1>4. CASE Broker
  BY <1>4 DEF Broker, ConnNext
<1>5. QED
  BY <1>1, <1>2, <1>3, <1>4
  DEF Next, ConsumerStops, WaitClosed, WaitRead, WaitReturn, CancelRun, Rest, vars

(* Start keeps the types of all calls, and its consumers have a channel. *)
LEMMA StartTypes ==
  ASSUME CallsOK, ConnNumbersOK, OwnContext, NEW s \in Starters, Start(s)
  PROVE  CallsOK'
<1> USE MaxConnsAssumption
    DEF CallsOK, StartPcs, Kinds, Consumers, ConnsOrNil, Conns, Nil, ConnNumbersOK, StartGoto,
        StageStep, StartGivesUp
<1>1. CASE StartCheckStarted(s)
  BY <1>1 DEF StartCheckStarted, waitVars, dispatchVars
<1>2. CASE StartCheckClosed(s)
  BY <1>2 DEF StartCheckClosed, waitVars, dispatchVars
<1>3. CASE StartTransport(s)
  BY <1>3 DEF StartTransport, waitVars, dispatchVars
<1>4. CASE StartTransportFails(s) \/ StageStartFails(s) \/ StageNoChannel(s)
  BY <1>4 DEF StartTransportFails, StageStartFails, StageNoChannel, waitVars, dispatchVars
<1>5. CASE StageStart(s)
  BY <1>5 DEF StageStart, waitVars, dispatchVars
<1>6. CASE StageWithoutActions(s)
  BY <1>6 DEF StageWithoutActions, waitVars, dispatchVars
<1>7. CASE StageRead(s)
  BY <1>7 DEF StageRead, waitVars, dispatchVars
<1>8. CASE StageConsume(s)
  BY <1>8 DEF StageConsume, Consumer, NextStage, OwnContext, waitVars, dispatchVars
<1>9. CASE StageConsumeFails(s)
  BY <1>9 DEF StageConsumeFails, Consumer, OwnContext, waitVars, dispatchVars
<1>10. CASE StartMark(s)
  BY <1>10 DEF StartMark, waitVars, dispatchVars
<1>11. QED
  BY <1>1, <1>2, <1>3, <1>4, <1>5, <1>6, <1>7, <1>8, <1>9, <1>10 DEF Start

(* So do all actions. *)
LEMMA CallTypes ==
  ASSUME CallsOK, ConnNumbersOK, OwnContext, Next
  PROVE  CallsOK'
<1> USE DEF CallsOK
<1>1. CASE \E s \in Starters : Start(s)
  BY <1>1, StartTypes
<1>2. CASE \E x \in consumers : ConsumerStops(x)
  BY <1>2 DEF ConsumerStops, startVars, dispatchVars
<1>3. CASE \E k \in Closers : Close(k)
  BY <1>3 DEF Close, CloseCheck, CloseTransport, CloseMark, startVars, dispatchVars
<1>4. CASE \E w \in Waiters : WaitClosed(w)
  BY <1>4 DEF WaitClosed, WaitRead, WaitReturn, startVars, dispatchVars
<1>5. CASE \E r \in Runs : CancelRun(r)
  BY <1>5 DEF CancelRun, startVars, dispatchVars
<1>6. CASE \E d \in Dispatchers : Dispatch(d)
  BY <1>6 DEF Dispatch, DispatchStart, DispatchStartFails, DispatchRead, DispatchPublish,
              DispatchFails, DispatchGoto, startVars, ConnNumbersOK
<1>7. CASE Broker \/ Rest
  BY <1>7 DEF Broker, Rest, vars, startVars, dispatchVars
<1>8. QED
  BY <1>1, <1>2, <1>3, <1>4, <1>5, <1>6, <1>7 DEF Next

(* The lifecycle's own fields, with the waiters: only markStarted, markClosed
   and the two steps of WaitClosed touch them. *)
LEMMA LifecyclePart ==
  ASSUME Next
  PROVE  \/ \E s \in Starters : StartMark(s)
         \/ \E k \in Closers : CloseMark(k)
         \/ \E w \in Waiters : WaitClosed(w)
         \/ UNCHANGED <<lifecycleVars, waitVars>>
<1> USE DEF lifecycleVars, waitVars
<1>1. CASE \E s \in Starters : Start(s)
  BY <1>1 DEF Start, StartCheckStarted, StartCheckClosed, StartTransport, StartTransportFails,
              StageStart, StageStartFails, StageWithoutActions, StageRead, StageNoChannel,
              StageConsume, StageConsumeFails, StartGivesUp
<1>2. CASE \E k \in Closers : Close(k)
  BY <1>2 DEF Close, CloseCheck, CloseTransport
<1>3. CASE \E d \in Dispatchers : Dispatch(d)
  BY <1>3 DEF Dispatch, DispatchStart, DispatchStartFails, DispatchRead, DispatchPublish,
              DispatchFails
<1>4. QED
  BY <1>1, <1>2, <1>3 DEF Next, ConsumerStops, CancelRun, Broker, Rest, vars

(* A closedCh is replaced only when it is closed, and closed only once. *)
LEMMA LifecycleStep ==
  ASSUME LifecycleOK, Flags, NoAbandonedWaiter, Next
  PROVE  LifecycleOK' /\ NoAbandonedWaiter'
<1> USE DEF LifecycleOK, Flags, NoAbandonedWaiter, lifecycleVars, waitVars
<1>1. CASE \E s \in Starters : StartMark(s)
  BY <1>1 DEF StartMark
<1>2. CASE \E k \in Closers : CloseMark(k)
  BY <1>2 DEF CloseMark
<1>3. CASE \E w \in Waiters : WaitClosed(w)
  <2>1. UNCHANGED <<lClosed, epoch, closedChs>>
    BY <1>3 DEF WaitClosed, WaitRead, WaitReturn
  <2>2. /\ wpc' \in [Waiters -> {"idle", "waiting", "returned"}]
        /\ wEpoch' \in [Waiters -> Nat]
        /\ \A w \in Waiters : wEpoch'[w] <= epoch
    BY <1>3 DEF WaitClosed, WaitRead, WaitReturn
  <2>3. QED
    BY <2>1, <2>2
<1>4. CASE UNCHANGED <<lifecycleVars, waitVars>>
  BY <1>4
<1>5. QED
  BY <1>1, <1>2, <1>3, <1>4, LifecyclePart

(* The transport's Close begins and ends within the Client's. *)
LEMMA ClosersStep ==
  ASSUME ConnTypeOK, CallsOK, ClosersInStep, Next
  PROVE  ClosersInStep'
<1> USE DEF ConnTypeOK, CallsOK, ClosersInStep, closerVars, CloserPcs
<1>1. CASE \E k \in Closers : Close(k)
  BY <1>1 DEF Close, CloseCheck, CloseTransport, CloseMark, CloseNotStarted, CloseSwap,
              CloseCancel, CloseWire, CloseReturns
<1>2. CASE \E s \in Starters : Start(s)
  BY <1>2 DEF Start, StartCheckStarted, StartCheckClosed, StartTransport, StartTransportFails,
              StageStart, StageStartFails, StageWithoutActions, StageRead, StageNoChannel,
              StageConsume, StageConsumeFails, StartMark, StartGivesUp
<1>3. CASE \E d \in Dispatchers : Dispatch(d)
  BY <1>3 DEF Dispatch, DispatchStart, DispatchStartFails, DispatchRead, DispatchPublish,
              DispatchFails
<1>4. QED
  BY <1>1, <1>2, <1>3 DEF Next, ConsumerStops, WaitClosed, WaitRead, WaitReturn, CancelRun,
     Broker, ChannelLost, ConnectionLost, Rest, vars

(* The Booleans stay Booleans. *)
LEMMA FlagsStep ==
  ASSUME Flags, Next
  PROVE  Flags'
<1> USE DEF Flags, lifecycleVars
<1>1. CASE \E s \in Starters : Start(s)
  BY <1>1 DEF Start, StartCheckStarted, StartCheckClosed, StartTransport, StartTransportFails,
              StageStart, StageStartFails, StageWithoutActions, StageRead, StageNoChannel,
              StageConsume, StageConsumeFails, StartMark, StartGivesUp
<1>2. CASE \E k \in Closers : Close(k)
  BY <1>2 DEF Close, CloseCheck, CloseTransport, CloseMark
<1>3. CASE \E d \in Dispatchers : Dispatch(d)
  BY <1>3 DEF Dispatch, DispatchStart, DispatchStartFails, DispatchRead, DispatchPublish,
              DispatchFails
<1>4. QED
  BY <1>1, <1>2, <1>3 DEF Next, ConsumerStops, WaitClosed, WaitRead, WaitReturn, CancelRun,
     Broker, Rest, vars

(* What a stage has read stays of one connection until it consumes it. *)
LEMMA OwnContextStep ==
  ASSUME BaseInv, Next
  PROVE  OwnContext'
<1>0. dialed \in Nat /\ dialed' \in Nat /\ dialed <= dialed'
  BY ConnPart, DialedGrows DEF BaseInv
<1> USE <1>0 DEF OwnContext
<1>1. ASSUME NEW s \in Starters, Start(s)
      PROVE  OwnContext'
  <2> USE <1>1 DEF BaseInv, CallsOK, StartGoto, StageStep, Kinds
  <2>1. CASE StartCheckStarted(s) \/ StartCheckClosed(s) \/ StartTransport(s) \/ StartMark(s)
             \/ StageWithoutActions(s)
    BY <2>1 DEF StartCheckStarted, StartCheckClosed, StartTransport, StartMark, StageWithoutActions
  <2>2. CASE StartTransportFails(s) \/ StageStartFails(s) \/ StageNoChannel(s)
    BY <2>2 DEF StartTransportFails, StageStartFails, StageNoChannel, StartGivesUp
  <2>3. CASE StageStart(s)
    BY <2>3 DEF StageStart
  <2>4. CASE StageRead(s)
    BY <2>4 DEF StageRead, ConnInv, CurrentConnection, ConnTypeOK, ConnsOrNil, Nil, connVars
  <2>5. CASE StageConsume(s)
    BY <2>5 DEF StageConsume, Consumer, connVars
  <2>6. CASE StageConsumeFails(s)
    BY <2>6 DEF StageConsumeFails, StartGivesUp, Consumer
  <2>7. QED
    BY <2>1, <2>2, <2>3, <2>4, <2>5, <2>6 DEF Start
<1>2. CASE ~\E s \in Starters : Start(s)
  <2>1. UNCHANGED startVars /\ consumers' \subseteq consumers
    BY <1>2 DEF Next, ConsumerStops, Close, CloseCheck, CloseTransport, CloseMark, WaitClosed,
       WaitRead, WaitReturn, CancelRun, Dispatch, DispatchStart, DispatchStartFails, DispatchRead,
       DispatchPublish, DispatchFails, Broker, Rest, vars
  <2>2. QED
    BY <2>1 DEF BaseInv, startVars
<1>3. QED
  BY <1>1, <1>2

(* Nothing is started, nothing is closed and nobody waits. *)
LEMMA InitBase == Init => BaseInv
<1> SUFFICES ASSUME Init
             PROVE  BaseInv
  OBVIOUS
<1>1. ConnInv
  BY ConnInitInv DEF Init
<1>2. LiveChannels /\ ClosersInStep
  BY DEF Init, ConnInit, LiveChannels, ClosersInStep
<1>3. Flags
  BY DEF Init, Flags
<1>4. LifecycleOK /\ NoAbandonedWaiter
  BY DEF Init, LifecycleOK, NoAbandonedWaiter
<1>5. CallsOK /\ OwnContext
  BY MaxConnsAssumption DEF Init, CallsOK, OwnContext, StartPcs, ConnsOrNil, Nil
<1>6. QED
  BY <1>1, <1>2, <1>3, <1>4, <1>5 DEF BaseInv

(* Each part is kept by the lemma about it. *)
LEMMA NextBase == BaseInv /\ [Next]_vars => BaseInv'
<1> SUFFICES ASSUME BaseInv, [Next]_vars
             PROVE  BaseInv'
  OBVIOUS
<1>1. CASE Next
  <2>1. ConnInv'
    BY <1>1, ConnPart, ConnStep, ConnStutter DEF BaseInv
  <2>2. LiveChannels'
    BY <1>1, ConnPart, LiveChannelsStep DEF BaseInv
  <2>3. Flags'
    BY <1>1, FlagsStep DEF BaseInv
  <2>4. LifecycleOK' /\ NoAbandonedWaiter'
    BY <1>1, LifecycleStep DEF BaseInv
  <2>5. CallsOK'
    BY <1>1, CallTypes DEF BaseInv, ConnInv, ConnTypeOK, ConnNumbersOK
  <2>6. ClosersInStep'
    BY <1>1, ClosersStep DEF BaseInv, ConnInv
  <2>7. OwnContext'
    BY <1>1, OwnContextStep
  <2>8. QED
    BY <2>1, <2>2, <2>3, <2>4, <2>5, <2>6, <2>7 DEF BaseInv
<1>2. CASE UNCHANGED vars
  <2>1. UNCHANGED <<connVars, closerVars>>
    BY <1>2 DEF vars
  <2>2. ConnInv' /\ LiveChannels'
    BY <2>1, ConnStutter, LiveChannelsStep DEF BaseInv
  <2>3. Flags' /\ LifecycleOK' /\ NoAbandonedWaiter'
    BY <1>2 DEF BaseInv, Flags, LifecycleOK, NoAbandonedWaiter, vars, lifecycleVars, waitVars
  <2>4. CallsOK' /\ ClosersInStep' /\ OwnContext'
    BY <1>2 DEF BaseInv, CallsOK, ClosersInStep, OwnContext, vars, startVars, dispatchVars,
       connVars, closerVars
  <2>5. QED
    BY <2>2, <2>3, <2>4 DEF BaseInv
<1>3. QED
  BY <1>1, <1>2

(* The invariant of every program is one. *)
THEOREM BaseInvariance == Spec => []BaseInv
  BY InitBase, NextBase, PTL DEF Spec

(* Every variable keeps its type, whatever the calls and their interleaving. *)
THEOREM TypeCorrect == Spec => []TypeOK
<1>1. BaseInv => TypeOK
  BY DEF BaseInv, ConnInv, Flags, LifecycleOK, CallsOK, TypeOK
<1>2. QED
  BY <1>1, BaseInvariance, PTL

(* markStarted replaces only a closed closedCh and markClosed closes the current
   one once, so no WaitClosed is abandoned and no close panics. *)
THEOREM WaitersAreWoken == Spec => []NoAbandonedWaiter
<1>1. BaseInv => NoAbandonedWaiter
  BY DEF BaseInv
<1>2. QED
  BY <1>1, BaseInvariance, PTL

(* A consumer of a live channel is told to stop only by the Close that is about
   to close that channel, since it listens to that channel's own context. *)
THEOREM ConsumersListen == Spec => []NoDeafConsumer
<1>1. BaseInv => NoDeafConsumer
  BY DEF BaseInv, LiveChannels, OwnContext, NoDeafConsumer
<1>2. QED
  BY <1>1, BaseInvariance, PTL

-----------------------------------------------------------------------------
(***************************************************************************)
(* The invariant of programs whose Starts and Closes do not overlap.       *)
(***************************************************************************)
Stages == Kinds \cup {"mark"}

(* The stages a Start that is at pc has behind it. *)
Passed(pc) ==
    {kind \in Kinds :
        \/ kind = "provider" /\ pc \in {"event", "action", "mark"}
        \/ kind = "event" /\ pc \in {"action", "mark"}
        \/ kind = "action" /\ pc = "mark"}

(* The consumers that may still be given deliveries. *)
Live == {x \in consumers : x.conn \in chOpen}

Serves(kind) == \E x \in consumers : x.kind = kind /\ x.conn = channel

(* At most one Start or Close is in progress. *)
OneAtATime ==
    /\ \A s \in Starters : ~StartQuiet(s) =>
        /\ \A t \in Starters : ~StartQuiet(t) => t = s
        /\ \A k \in Closers : cpc[k] # "transport"
    /\ \A k, j \in Closers : cpc[k] = "transport" /\ cpc[j] = "transport" => k = j

(* A Start that got as far as the transport found the lifecycle not open. From
   its first stage on the transport is started, what it has passed is served on
   the transport's channel, and nothing else is. *)
Starting ==
    \A s \in Starters :
        /\ spc[s] \in {"transport"} \cup Stages => ~lStarted \/ lClosed
        /\ spc[s] \in Stages =>
            /\ started
            /\ \A x \in Live : x.kind \in Passed(spc[s])
            /\ channel \in chOpen => \A kind \in Served \cap Passed(spc[s]) : Serves(kind)
        /\ step[s] = "consume" => stageConn[s] = channel

(* A Close that got as far as the transport found the lifecycle not closed. It
   holds the channel of every consumer that is left, and leaves none. *)
ClosingDown ==
    \A k \in Closers : cpc[k] = "transport" =>
        /\ ~lClosed
        /\ Closing(k) => \A x \in Live : x.conn = holds[k]
        /\ closerPc[k] \in {"wire_closed", "returned"} => Live = {}
        /\ closerPc[k] # "idle" /\ ~strayed => ~started

(* Between calls, or as long as the call in progress has not begun to change
   it: a closed lifecycle has no connection, an open one serves, and one that is
   not open has no consumer on a live channel. *)
Resting ==
    /\ lClosed /\ ~strayed /\ (\A s \in Starters : spc[s] \notin Stages) => ~started
    /\ lStarted /\ ~lClosed /\ (\A k \in Closers : cpc[k] = "transport" => closerPc[k] = "idle") =>
        /\ started
        /\ channel \in chOpen => \A kind \in Served : Serves(kind)
    /\ (~lStarted \/ lClosed) /\ (\A s \in Starters : spc[s] \notin {"event", "action", "mark"}) =>
        Live = {}

(* No two consumers of a kind on live channels. *)
OneConsumer == \A x, y \in Live : x.kind = y.kind => x = y

SerialParts == OneAtATime /\ Starting /\ ClosingDown /\ Resting /\ OneConsumer

(* A live channel is the transport's, or a Close in progress holds it. *)
LEMMA OpenChannels ==
  ASSUME BaseInv, NEW g \in chOpen
  PROVE  \/ started /\ channel = g
         \/ \E k \in Closers : Closing(k) /\ holds[k] = g /\ cpc[k] = "transport"
  BY DEF BaseInv, LiveChannels, ConnInv, NoOrphanConnection, ClosersInStep, Closing, CallsOK

(* Losing channels, or consumers of lost channels, breaks nothing; nor does a
   step of something else. *)
LEMMA LossStep ==
  ASSUME BaseInv, SerialParts,
         UNCHANGED <<closerVars, lifecycleVars, startVars, cpc, strayed, started, channel>>,
         chOpen' \subseteq chOpen, consumers' \subseteq consumers,
         \A x \in consumers \ consumers' : x.conn = channel => channel \notin chOpen
  PROVE  SerialParts'
<1> USE DEF SerialParts, closerVars, lifecycleVars, startVars
<1>1. Live' \subseteq Live
  BY DEF Live
<1>2. channel' \in chOpen' => channel \in chOpen /\ \A kind : Serves(kind) => Serves(kind)'
  BY DEF Serves
<1>3. OneAtATime'
  BY DEF OneAtATime, StartQuiet
<1>4. Starting'
  BY <1>1, <1>2 DEF Starting
<1>5. ClosingDown'
  BY <1>1 DEF ClosingDown, Closing
<1>6. Resting'
  BY <1>1, <1>2 DEF Resting
<1>7. OneConsumer'
  BY <1>1 DEF OneConsumer
<1>8. QED
  BY <1>3, <1>4, <1>5, <1>6, <1>7

(* A new connection has no consumer yet. *)
LEMMA DialLive ==
  ASSUME BaseInv, Dial, UNCHANGED consumers
  PROVE  Live' = Live
  BY DEF BaseInv, OwnContext, ConnInv, ConnTypeOK, ConnsOrNil, Dial, Live

(* A Dispatch may connect at any time; behind a closed lifecycle, or during a
   Close, that is what `strayed` records. *)
LEMMA DispatchDialStep ==
  ASSUME BaseInv, SerialParts, NEW d \in Dispatchers, DispatchStart(d), Dial
  PROVE  SerialParts'
<1> USE DEF SerialParts, closerVars, lifecycleVars, startVars
<1>1. /\ UNCHANGED <<closerVars, lifecycleVars, startVars, consumers, cpc>>
      /\ ~started
      /\ lClosed \/ (\E k \in Closers : cpc[k] = "transport") => strayed'
      /\ strayed => strayed'
  BY DEF DispatchStart, Dial
<1>2. Live' = Live
  BY <1>1, DialLive
<1>3. \A s \in Starters : spc[s] \notin Stages /\ step[s] # "consume"
  BY <1>1 DEF Starting, BaseInv, OwnContext, Stages
<1>4. OneAtATime'
  BY <1>1 DEF OneAtATime, StartQuiet
<1>5. Starting'
  BY <1>1, <1>3 DEF Starting
<1>6. ClosingDown'
  BY <1>1, <1>2 DEF ClosingDown, Closing
<1>7. Resting'
  BY <1>1, <1>2 DEF Resting
<1>8. OneConsumer'
  BY <1>2 DEF OneConsumer
<1>9. QED
  BY <1>4, <1>5, <1>6, <1>7, <1>8

(* While a Start is in progress, nothing else is, and the only channel that can
   be live is the transport's. *)
LEMMA Alone ==
  ASSUME BaseInv, OneAtATime, NEW s \in Starters, ~StartQuiet(s)
  PROVE  /\ \A t \in Starters : t # s => StartQuiet(t) /\ step[t] # "consume"
         /\ \A k \in Closers : cpc[k] # "transport"
         /\ \A g \in chOpen : started /\ channel = g
         /\ \A x \in Live : x.conn = channel
<1>1. \A t \in Starters : t # s => StartQuiet(t)
  BY DEF OneAtATime
<1>2. \A t \in Starters : StartQuiet(t) => step[t] # "consume"
  BY DEF BaseInv, OwnContext, StartQuiet, Kinds
<1>3. \A k \in Closers : cpc[k] # "transport"
  BY DEF OneAtATime
<1>4. \A g \in chOpen : started /\ channel = g
  BY <1>3, OpenChannels
<1>5. QED
  BY <1>1, <1>2, <1>3, <1>4 DEF Live

(* Start begins only when nothing is in progress, and goes on to the transport
   only when the lifecycle is not open. *)
LEMMA CheckStep ==
  ASSUME BaseInv, SerialParts, serial, NEW s \in Starters,
         StartCheckStarted(s) \/ StartCheckClosed(s)
  PROVE  SerialParts'
<1> USE DEF SerialParts
<1>1. /\ UNCHANGED <<connVars, closerVars, lifecycleVars, step, stageConn, consumers, cpc, strayed>>
      /\ spc[s] \in {"idle", "check_closed"}
      /\ \A t \in Starters : t # s => spc'[t] = spc[t]
      /\ spc'[s] \in {"check_closed", "transport", "returned"}
      /\ spc'[s] = "transport" => ~lStarted \/ lClosed
      /\ spc[s] = "idle" => Quiet
  BY DEF StartCheckStarted, StartCheckClosed, StartGoto, MayBegin, BaseInv, CallsOK
<1> USE DEF connVars, closerVars, lifecycleVars, Stages, Kinds
<1>2. Live' = Live /\ \A kind : Serves(kind)' = Serves(kind)
  BY <1>1 DEF Live, Serves
<1>3. OneAtATime'
  <2>1. CASE spc[s] = "idle"
    BY <1>1, <2>1 DEF OneAtATime, StartQuiet, Quiet
  <2>2. CASE spc[s] = "check_closed"
    BY <1>1, <2>2 DEF OneAtATime, StartQuiet
  <2>3. QED
    BY <1>1, <2>1, <2>2
<1>4. Starting'
  BY <1>1, <1>2 DEF Starting
<1>5. ClosingDown'
  BY <1>1, <1>2 DEF ClosingDown, Closing
<1>6. Resting'
  BY <1>1, <1>2 DEF Resting
<1>7. OneConsumer'
  BY <1>2 DEF OneConsumer
<1>8. QED
  BY <1>3, <1>4, <1>5, <1>6, <1>7

(* The stages begin on a transport whose channel has no consumer. *)
LEMMA TransportStep ==
  ASSUME BaseInv, BaseInv', SerialParts, NEW s \in Starters, StartTransport(s)
  PROVE  SerialParts'
<1> USE DEF SerialParts, lifecycleVars, closerVars
<1>1. /\ UNCHANGED <<closerVars, lifecycleVars, step, stageConn, consumers, cpc, strayed>>
      /\ spc[s] = "transport"
      /\ \A t \in Starters : t # s => spc'[t] = spc[t]
      /\ spc'[s] = "provider"
      /\ started'
  BY DEF StartTransport, StartGoto, AlreadyStarted, Dial, connVars, BaseInv, CallsOK
<1>2. ~StartQuiet(s) /\ ~StartQuiet(s)'
  BY <1>1 DEF StartQuiet
<1>3. Live' = Live
  <2>1. CASE AlreadyStarted
    BY <1>1, <2>1 DEF AlreadyStarted, connVars, Live
  <2>2. CASE Dial
    BY <1>1, <2>2, DialLive
  <2>3. QED
    BY <2>1, <2>2 DEF StartTransport
<1>4. Live = {}
  <2>1. \A t \in Starters : spc[t] \notin {"event", "action", "mark"}
    BY <1>1, <1>2, Alone DEF StartQuiet
  <2>2. ~lStarted \/ lClosed
    BY <1>1 DEF Starting
  <2>3. QED
    BY <2>1, <2>2 DEF Resting
<1>5. /\ \A t \in Starters : t # s => StartQuiet(t) /\ StartQuiet(t)' /\ step[t] # "consume"
      /\ \A k \in Closers : cpc[k] # "transport"
      /\ step[s] # "consume"
  BY <1>1, <1>2, Alone DEF StartQuiet, BaseInv, OwnContext, Kinds
<1>6. OneAtATime'
  BY <1>1, <1>5 DEF OneAtATime
<1>7. Starting'
  <2>1. ~lStarted \/ lClosed
    BY <1>1 DEF Starting
  <2>2. Passed("provider") = {}
    BY DEF Passed
  <2>3. QED
    BY <1>1, <1>3, <1>4, <1>5, <2>1, <2>2 DEF Starting, StartQuiet, Stages, Kinds
<1>8. ClosingDown'
  BY <1>1, <1>5 DEF ClosingDown
<1>9. Resting'
  <2>1. ~lStarted \/ lClosed
    BY <1>1 DEF Starting
  <2>2. QED
    BY <1>1, <1>3, <1>4, <2>1 DEF Resting, Stages, Kinds
<1>10. OneConsumer'
  BY <1>3 DEF OneConsumer
<1>11. QED
  BY <1>6, <1>7, <1>8, <1>9, <1>10

(* Start gives up before it has a channel: only StartTransportFails can,
   since a started transport stays started while the stages run. *)
LEMMA GivesUpStep ==
  ASSUME BaseInv, SerialParts, NEW s \in Starters,
         StartTransportFails(s) \/ StageStartFails(s) \/ StageNoChannel(s)
  PROVE  SerialParts'
<1> USE DEF SerialParts
<1>1. ~StageStartFails(s)
  BY DEF StageStartFails, StartFails, Starting, Stages
<1>2. ~StageNoChannel(s)
  BY DEF StageNoChannel, Starting, Stages, BaseInv, ConnInv, CurrentConnection
<1>3. /\ UNCHANGED <<connVars, closerVars, lifecycleVars, consumers, cpc>>
      /\ spc[s] = "transport"
      /\ \A t \in Starters : t # s =>
            spc'[t] = spc[t] /\ step'[t] = step[t] /\ stageConn'[t] = stageConn[t]
      /\ spc'[s] = "failed"
      /\ step'[s] = "start"
      /\ ~started
      /\ strayed => strayed'
      /\ lClosed => strayed'
  BY <1>1, <1>2 DEF StartTransportFails, StartGivesUp, StartFails, BaseInv, CallsOK
<1> USE DEF connVars, closerVars, lifecycleVars
<1>4. Live' = Live /\ \A kind : Serves(kind)' = Serves(kind)
  BY <1>3 DEF Live, Serves
<1>5. OneAtATime'
  BY <1>3 DEF OneAtATime, StartQuiet
<1>6. Starting'
  BY <1>3, <1>4 DEF Starting, Stages, Kinds
<1>7. ClosingDown'
  BY <1>3, <1>4 DEF ClosingDown, Closing
<1>8. Resting'
  BY <1>3, <1>4 DEF Resting, Stages, Kinds
<1>9. OneConsumer'
  BY <1>4 DEF OneConsumer
<1>10. QED
  BY <1>5, <1>6, <1>7, <1>8, <1>9

(* The first two steps of a stage: it connects nothing, the transport being
   started, and reads the channel. *)
LEMMA StageReadStep ==
  ASSUME BaseInv, SerialParts, NEW s \in Starters, StageStart(s) \/ StageRead(s)
  PROVE  SerialParts'
<1> USE DEF SerialParts
<1>1. /\ UNCHANGED <<connVars, closerVars, lifecycleVars, spc, consumers, cpc, strayed>>
      /\ \A t \in Starters : t # s => step'[t] = step[t] /\ stageConn'[t] = stageConn[t]
      /\ step'[s] = "consume" => stageConn'[s] = channel
  BY DEF StageStart, StageRead, StageStep, AlreadyStarted, Dial, Starting, Stages, BaseInv, CallsOK
<1> USE <1>1 DEF connVars, closerVars, lifecycleVars
<1>2. Live' = Live /\ \A kind : Serves(kind)' = Serves(kind)
  BY DEF Live, Serves
<1>3. OneAtATime'
  BY DEF OneAtATime, StartQuiet
<1>4. Starting'
  BY <1>2 DEF Starting
<1>5. ClosingDown'
  BY <1>2 DEF ClosingDown, Closing
<1>6. Resting'
  BY <1>2 DEF Resting
<1>7. OneConsumer'
  BY <1>2 DEF OneConsumer
<1>8. QED
  BY <1>3, <1>4, <1>5, <1>6, <1>7

(* A stage ends: what it has passed is what it had passed before and itself. *)
LEMMA NextStagePassed ==
  ASSUME NEW kind \in Kinds
  PROVE  /\ NextStage(kind) \in Stages
         /\ NextStage(kind) # "provider"
         /\ Passed(NextStage(kind)) = Passed(kind) \cup {kind}
         /\ kind \notin Passed(kind)
<1>1. CASE kind = "provider"
  BY <1>1 DEF NextStage, Stages, Kinds, Passed
<1>2. CASE kind = "event"
  BY <1>2 DEF NextStage, Stages, Kinds, Passed
<1>3. CASE kind = "action"
  BY <1>3 DEF NextStage, Stages, Kinds, Passed
<1>4. QED
  BY <1>1, <1>2, <1>3 DEF Kinds

(* Whichever way a stage ends, with its consumers on the channel it has read
   or with nothing to consume. *)
LEMMA StageEndStep ==
  ASSUME BaseInv, SerialParts, NEW s \in Starters, StageConsume(s) \/ StageWithoutActions(s)
  PROVE  SerialParts'
<1> USE DEF SerialParts
<1>1. /\ UNCHANGED <<connVars, closerVars, lifecycleVars, cpc, strayed>>
      /\ spc[s] \in Kinds
      /\ \A t \in Starters : t # s =>
            spc'[t] = spc[t] /\ step'[t] = step[t] /\ stageConn'[t] = stageConn[t]
      /\ spc'[s] = NextStage(spc[s])
      /\ step'[s] = "start"
  BY DEF StageConsume, StageWithoutActions, StageStep, StartGoto, NextStage, Kinds, BaseInv, CallsOK
<1>2. ~StartQuiet(s) /\ ~StartQuiet(s)'
  BY <1>1, NextStagePassed DEF StartQuiet, Kinds, Stages
<1>3. /\ \A t \in Starters : t # s => StartQuiet(t) /\ StartQuiet(t)' /\ step[t] # "consume"
      /\ \A k \in Closers : cpc[k] # "transport"
      /\ \A x \in Live : x.conn = channel
  BY <1>1, <1>2, Alone DEF StartQuiet
<1>4. /\ started
      /\ ~lStarted \/ lClosed
      /\ \A x \in Live : x.kind \in Passed(spc[s])
  BY <1>1 DEF Starting, Stages
<1>5. \/ /\ spc[s] \in Served
         /\ stageConn[s] = channel
         /\ consumers' = consumers \cup {Consumer(s)}
      \/ /\ spc[s] \notin Served
         /\ consumers' = consumers
  BY DEF StageConsume, StageWithoutActions, StageStep, StartGoto, Starting
<1>6. Consumer(s).kind = spc[s] /\ Consumer(s).conn = stageConn[s]
  BY DEF Consumer
<1>7. Live' \subseteq Live \cup {Consumer(s)}
  BY <1>1, <1>5 DEF Live, connVars
<1>8. \A kind : Serves(kind) => Serves(kind)'
  BY <1>1, <1>5 DEF Serves, connVars
<1>9. ASSUME NEW kind \in Served, kind = spc[s]
      PROVE  Serves(kind)'
  BY <1>9, <1>1, <1>5, <1>6 DEF Serves, connVars
<1>10. Consumer(s) \in Live' => \A x \in Live : x.kind # spc[s]
  BY <1>1, <1>4, NextStagePassed
<1>11. OneAtATime'
  BY <1>1, <1>3 DEF OneAtATime
<1>12. Starting'
  <2>1. ASSUME NEW t \in Starters, t # s
        PROVE  spc'[t] \notin {"transport"} \cup Stages /\ step'[t] # "consume"
    BY <1>1, <1>3, <2>1 DEF StartQuiet, Stages, Kinds
  <2>2. \A x \in Live' : x.kind \in Passed(spc'[s])
    <3>1. ASSUME NEW x \in Live'
          PROVE  x.kind \in Passed(spc'[s])
      <4>1. CASE x \in Live
        BY <1>1, <1>4, <4>1, NextStagePassed
      <4>2. CASE x = Consumer(s)
        BY <1>1, <1>6, <4>2, NextStagePassed
      <4>3. QED
        BY <1>7, <4>1, <4>2
    <3>2. QED
      BY <3>1
  <2>3. channel' \in chOpen' => \A kind \in Served \cap Passed(spc'[s]) : Serves(kind)'
    <3>1. channel \in chOpen => \A kind \in Served \cap Passed(spc[s]) : Serves(kind)
      BY <1>1 DEF Starting, Stages
    <3>2. ASSUME channel' \in chOpen', NEW kind \in Served \cap Passed(spc'[s])
          PROVE  Serves(kind)'
      <4>1. kind \in Passed(spc[s]) \/ kind = spc[s]
        BY <1>1, <3>2, NextStagePassed
      <4>2. channel \in chOpen
        BY <1>1, <3>2 DEF connVars
      <4>3. QED
        BY <1>8, <1>9, <3>1, <4>1, <4>2
    <3>3. QED
      BY <3>2
  <2>4. started' /\ (~lStarted \/ lClosed)'
    BY <1>1, <1>4 DEF connVars, lifecycleVars
  <2>5. step'[s] # "consume"
    BY <1>1
  <2>6. QED
    BY <2>1, <2>2, <2>3, <2>4, <2>5 DEF Starting
<1>13. ClosingDown'
  BY <1>1, <1>3 DEF ClosingDown
<1>14. Resting'
  <2>1. (~lStarted \/ lClosed)'
    BY <1>1, <1>4 DEF lifecycleVars
  <2>2. spc'[s] \in Stages /\ spc'[s] # "provider"
    BY <1>1, NextStagePassed
  <2>3. QED
    BY <2>1, <2>2 DEF Resting, Stages, Kinds
<1>15. OneConsumer'
  BY <1>6, <1>7, <1>10 DEF OneConsumer
<1>16. QED
  BY <1>11, <1>12, <1>13, <1>14, <1>15

(* A stage that fails at the broker takes the channel with it, and with the
   channel every consumer of this client. *)
LEMMA ConsumeFailsStep ==
  ASSUME BaseInv, SerialParts, NEW s \in Starters, StageConsumeFails(s)
  PROVE  SerialParts'
<1> USE DEF SerialParts
<1>1. /\ UNCHANGED <<started, channel, closerVars, lifecycleVars, cpc>>
      /\ spc[s] \in Kinds
      /\ \A t \in Starters : t # s =>
            spc'[t] = spc[t] /\ step'[t] = step[t] /\ stageConn'[t] = stageConn[t]
      /\ spc'[s] = "failed"
      /\ step'[s] = "start"
      /\ chOpen' = chOpen \ {channel}
      /\ consumers' \subseteq consumers \cup {Consumer(s)}
      /\ stageConn[s] = channel
      /\ strayed => strayed'
      /\ lClosed => strayed'
  BY ServedAssumption DEF StageConsumeFails, StartGivesUp, Starting, BaseInv, CallsOK
<1>2. ~StartQuiet(s)
  BY <1>1 DEF StartQuiet, Kinds
<1>3. /\ \A t \in Starters : t # s => StartQuiet(t) /\ StartQuiet(t)' /\ step[t] # "consume"
      /\ \A k \in Closers : cpc[k] # "transport"
      /\ \A x \in Live : x.conn = channel
  BY <1>1, <1>2, Alone DEF StartQuiet
<1>4. StartQuiet(s)'
  BY <1>1 DEF StartQuiet
<1>5. ~lStarted \/ lClosed
  BY <1>1 DEF Starting, Stages
<1>6. Live' = {}
  <2>1. Consumer(s).conn = channel
    BY <1>1 DEF Consumer
  <2>2. QED
    BY <1>1, <1>3, <2>1 DEF Live
<1>7. OneAtATime'
  BY <1>1, <1>3, <1>4 DEF OneAtATime
<1>8. Starting'
  BY <1>1, <1>3, <1>4 DEF Starting, StartQuiet, Stages, Kinds
<1>9. ClosingDown'
  BY <1>1, <1>3 DEF ClosingDown
<1>10. Resting'
  BY <1>1, <1>5, <1>6 DEF Resting, lifecycleVars
<1>11. OneConsumer'
  BY <1>6 DEF OneConsumer
<1>12. QED
  BY <1>7, <1>8, <1>9, <1>10, <1>11

(* The lifecycle opens: the transport is started and every stage passed. *)
LEMMA MarkStep ==
  ASSUME BaseInv, SerialParts, NEW s \in Starters, StartMark(s)
  PROVE  SerialParts'
<1> USE DEF SerialParts
<1>1. /\ UNCHANGED <<connVars, closerVars, step, stageConn, consumers, cpc, strayed>>
      /\ spc[s] = "mark"
      /\ spc'[s] = "returned"
      /\ \A t \in Starters : t # s => spc'[t] = spc[t]
      /\ lStarted'
      /\ ~lClosed'
  BY DEF StartMark, StartGoto, BaseInv, CallsOK
<1>2. ~StartQuiet(s) /\ StartQuiet(s)'
  BY <1>1 DEF StartQuiet
<1>3. /\ \A t \in Starters : t # s => StartQuiet(t) /\ StartQuiet(t)' /\ step[t] # "consume"
      /\ \A k \in Closers : cpc[k] # "transport"
      /\ step[s] # "consume"
  BY <1>1, <1>2, Alone DEF StartQuiet, BaseInv, OwnContext, Kinds
<1> USE DEF connVars, closerVars
<1>4. Live' = Live /\ \A kind : Serves(kind)' = Serves(kind)
  BY <1>1 DEF Live, Serves
<1>5. OneAtATime'
  BY <1>1, <1>2, <1>3 DEF OneAtATime
<1>6. Starting'
  BY <1>1, <1>2, <1>3 DEF Starting, StartQuiet, Stages, Kinds
<1>7. ClosingDown'
  BY <1>1, <1>3 DEF ClosingDown
<1>8. Resting'
  <2>1. Served \cap Passed("mark") = Served
    BY ServedAssumption DEF Passed, Kinds
  <2>2. started /\ (channel \in chOpen => \A kind \in Served : Serves(kind))
    BY <1>1, <2>1 DEF Starting, Stages
  <2>3. QED
    BY <1>1, <1>4, <2>2 DEF Resting
<1>9. OneConsumer'
  BY <1>4 DEF OneConsumer
<1>10. QED
  BY <1>5, <1>6, <1>7, <1>8, <1>9

(* Close begins only when nothing is in progress. *)
LEMMA CloseCheckStep ==
  ASSUME BaseInv, SerialParts, serial, NEW k \in Closers, CloseCheck(k)
  PROVE  SerialParts'
<1> USE DEF SerialParts
<1>1. /\ UNCHANGED <<connVars, closerVars, lifecycleVars, startVars, consumers, strayed>>
      /\ Quiet
      /\ closerPc[k] = "idle"
      /\ \A j \in Closers : j # k => cpc'[j] = cpc[j]
      /\ cpc'[k] = "transport" => ~lClosed
      /\ cpc[k] = "idle"
  BY DEF CloseCheck, MayBegin, BaseInv, CallsOK, ClosersInStep
<1> USE DEF connVars, closerVars, lifecycleVars, startVars
<1>2. Live' = Live /\ \A kind : Serves(kind)' = Serves(kind)
  BY <1>1 DEF Live, Serves
<1>3. OneAtATime'
  BY <1>1 DEF OneAtATime, Quiet, StartQuiet
<1>4. Starting'
  BY <1>1, <1>2 DEF Starting
<1>5. ClosingDown'
  BY <1>1, <1>2 DEF ClosingDown, Closing
<1>6. Resting'
  BY <1>1, <1>2 DEF Resting
<1>7. OneConsumer'
  BY <1>2 DEF OneConsumer
<1>8. QED
  BY <1>3, <1>4, <1>5, <1>6, <1>7

(* While a Close is in progress, nothing else is. *)
LEMMA ClosingAlone ==
  ASSUME BaseInv, OneAtATime, NEW k \in Closers, cpc[k] = "transport"
  PROVE  /\ \A s \in Starters : StartQuiet(s) /\ step[s] # "consume"
         /\ \A j \in Closers : j # k => cpc[j] # "transport"
         /\ \A g \in chOpen : (started /\ channel = g) \/ (Closing(k) /\ holds[k] = g)
<1>1. \A s \in Starters : StartQuiet(s)
  BY DEF OneAtATime
<1>2. \A s \in Starters : step[s] # "consume"
  BY <1>1 DEF BaseInv, OwnContext, StartQuiet, Kinds
<1>3. \A j \in Closers : j # k => cpc[j] # "transport"
  BY DEF OneAtATime
<1>4. QED
  BY <1>1, <1>2, <1>3, OpenChannels

(* The steps of the transport's Close: it takes the channel, with it every
   consumer that is left, and then closes it. *)
LEMMA CloseTransportStep ==
  ASSUME BaseInv, SerialParts, NEW k \in Closers, CloseTransport(k)
  PROVE  SerialParts'
<1> USE DEF SerialParts
<1>1. /\ UNCHANGED <<lifecycleVars, startVars, consumers, cpc, strayed>>
      /\ cpc[k] = "transport"
  BY DEF CloseTransport
<1>2. /\ \A s \in Starters : StartQuiet(s) /\ step[s] # "consume"
      /\ \A j \in Closers : j # k => cpc[j] # "transport"
      /\ \A g \in chOpen : (started /\ channel = g) \/ (Closing(k) /\ holds[k] = g)
      /\ ~lClosed
  BY <1>1, ClosingAlone DEF ClosingDown
<1>3. /\ Live' \subseteq Live
      /\ closerPc'[k] # "idle"
      /\ Closing(k)' => \A x \in Live' : x.conn = holds'[k]
      /\ closerPc'[k] \in {"wire_closed", "returned"} => Live' = {}
      /\ ~strayed => ~started'
  <2> USE DEF Live, Closing, BaseInv, ConnInv, ConnTypeOK, CloserPcs, connVars
  <2>1. CASE CloseNotStarted(k)
    BY <1>1, <1>2, <2>1 DEF CloseNotStarted
  <2>2. CASE CloseSwap(k)
    BY <1>1, <1>2, <2>2 DEF CloseSwap
  <2>3. CASE CloseCancel(k)
    BY <1>1, <2>3 DEF CloseCancel, ClosingDown
  <2>4. CASE CloseWire(k)
    BY <1>1, <2>4 DEF CloseWire, ClosingDown
  <2>5. CASE CloseReturns(k)
    BY <1>1, <2>5 DEF CloseReturns, ClosingDown
  <2>6. QED
    BY <2>1, <2>2, <2>3, <2>4, <2>5 DEF CloseTransport
<1> USE DEF lifecycleVars, startVars
<1>4. OneAtATime'
  BY <1>1 DEF OneAtATime, StartQuiet
<1>5. Starting'
  BY <1>1, <1>2 DEF Starting, StartQuiet, Stages, Kinds
<1>6. ClosingDown'
  BY <1>1, <1>2, <1>3 DEF ClosingDown
<1>7. Resting'
  BY <1>1, <1>2, <1>3 DEF Resting
<1>8. OneConsumer'
  BY <1>3 DEF OneConsumer
<1>9. QED
  BY <1>4, <1>5, <1>6, <1>7, <1>8

(* The lifecycle closes: the transport is down and no channel is consumed. *)
LEMMA CloseMarkStep ==
  ASSUME BaseInv, SerialParts, NEW k \in Closers, CloseMark(k)
  PROVE  SerialParts'
<1> USE DEF SerialParts
<1>1. /\ UNCHANGED <<connVars, closerVars, startVars, consumers, strayed>>
      /\ cpc[k] = "transport"
      /\ closerPc[k] = "returned"
      /\ cpc'[k] = "returned"
      /\ \A j \in Closers : j # k => cpc'[j] = cpc[j]
      /\ lClosed'
  BY DEF CloseMark, BaseInv, CallsOK
<1>2. /\ \A s \in Starters : StartQuiet(s) /\ step[s] # "consume"
      /\ \A j \in Closers : j # k => cpc[j] # "transport"
  BY <1>1, ClosingAlone
<1>3. Live = {} /\ (~strayed => ~started)
  BY <1>1 DEF ClosingDown
<1> USE DEF connVars, closerVars, startVars
<1>4. Live' = {}
  BY <1>1, <1>3 DEF Live
<1>5. OneAtATime'
  BY <1>1, <1>2 DEF OneAtATime, StartQuiet
<1>6. Starting'
  BY <1>1, <1>2 DEF Starting, StartQuiet, Stages, Kinds
<1>7. ClosingDown'
  BY <1>1, <1>2 DEF ClosingDown
<1>8. Resting'
  BY <1>1, <1>3, <1>4 DEF Resting
<1>9. OneConsumer'
  BY <1>4 DEF OneConsumer
<1>10. QED
  BY <1>5, <1>6, <1>7, <1>8, <1>9

(* All of it, of a serial program. *)
SerialInv == serial => SerialParts

(* Nothing is in progress and nothing is consumed. *)
LEMMA InitSerial == Init => SerialInv
  BY DEF Init, ConnInit, SerialInv, SerialParts, OneAtATime, Starting, ClosingDown, Resting,
         OneConsumer, StartQuiet, Stages, Kinds, Live

(* Every step of Start keeps it. *)
LEMMA StartSerial ==
  ASSUME BaseInv, BaseInv', SerialParts, serial, NEW s \in Starters, Start(s)
  PROVE  SerialParts'
  BY CheckStep, TransportStep, GivesUpStep, StageReadStep, StageEndStep, ConsumeFailsStep, MarkStep
  DEF Start

(* Steps that leave Start and Close where they are: a consumer stops, a
   channel is lost, someone waits or dispatches. *)
LEMMA OtherSerial ==
  ASSUME BaseInv, SerialParts, Next,
         ~\E s \in Starters : Start(s), ~\E k \in Closers : Close(k)
  PROVE  SerialParts'
<1> USE DEF connVars, closerVars, lifecycleVars, startVars
<1>1. ASSUME NEW x \in consumers, ConsumerStops(x)
      PROVE  SerialParts'
  <2>1. /\ UNCHANGED <<connVars, closerVars, lifecycleVars, startVars, cpc, strayed>>
        /\ consumers' = consumers \ {x}
    BY <1>1 DEF ConsumerStops
  <2>2. x.conn = channel => channel \notin chOpen
    <3>1. SUFFICES ASSUME x.conn = channel, channel \in cancelled
                   PROVE  channel \notin chOpen
      BY <1>1 DEF ConsumerStops, BaseInv, OwnContext
    <3>2. ~started
      BY <3>1 DEF BaseInv, ConnInv, CurrentConnection
    <3>3. channel = 0
      BY <3>2 DEF BaseInv, ConnInv, CurrentConnection, Nil
    <3>4. QED
      BY <3>3 DEF BaseInv, ConnInv, ConnTypeOK, Conns
  <2>3. QED
    BY <2>1, <2>2, LossStep
<1>2. ASSUME NEW d \in Dispatchers, DispatchStart(d)
      PROVE  SerialParts'
  <2>1. CASE Dial
    BY <1>2, <2>1, DispatchDialStep
  <2>2. CASE AlreadyStarted
    <3>1. started /\ started \in BOOLEAN /\ strayed \in BOOLEAN
      BY <2>2 DEF AlreadyStarted, BaseInv, ConnInv, ConnTypeOK, Flags
    <3>2. strayed' = strayed
      BY <1>2, <3>1 DEF DispatchStart
    <3>3. QED
      BY <1>2, <2>2, <3>2, LossStep DEF DispatchStart, AlreadyStarted
  <2>3. QED
    BY <1>2, <2>1, <2>2 DEF DispatchStart
<1>3. CASE Broker
  <2>1. /\ UNCHANGED <<closerVars, lifecycleVars, startVars, cpc, strayed, started, channel, consumers>>
        /\ chOpen' \subseteq chOpen
    BY <1>3 DEF Broker, ChannelLost, ConnectionLost
  <2>2. QED
    BY <2>1, LossStep
<1>4. CASE \/ \E w \in Waiters : WaitClosed(w)
           \/ \E r \in Runs : CancelRun(r)
           \/ \E d \in Dispatchers : DispatchStartFails(d) \/ DispatchRead(d) \/ DispatchPublish(d)
                                     \/ DispatchFails(d)
           \/ Rest
  <2>1. UNCHANGED <<connVars, closerVars, lifecycleVars, startVars, cpc, strayed, consumers>>
    BY <1>4 DEF WaitClosed, WaitRead, WaitReturn, CancelRun, DispatchStartFails, StartFails,
       DispatchRead, DispatchPublish, DispatchFails, Rest, vars
  <2>2. QED
    BY <2>1, LossStep
<1>5. QED
  BY <1>1, <1>2, <1>3, <1>4 DEF Next, Dispatch

(* Every step of the program does, and a program does not change its ways. *)
LEMMA NextSerial == BaseInv /\ BaseInv' /\ SerialInv /\ [Next]_vars => SerialInv'
<1> SUFFICES ASSUME BaseInv, BaseInv', SerialInv, [Next]_vars
             PROVE  SerialInv'
  OBVIOUS
<1>1. serial' = serial
  <2>1. CASE \E s \in Starters : Start(s)
    BY <2>1 DEF Start, StartCheckStarted, StartCheckClosed, StartTransport, StartTransportFails,
              StageStart, StageStartFails, StageWithoutActions, StageRead, StageNoChannel,
              StageConsume, StageConsumeFails, StartMark, StartGivesUp
  <2>2. CASE ~\E s \in Starters : Start(s)
    BY <2>2 DEF Next, ConsumerStops, Close, CloseCheck, CloseTransport, CloseMark, WaitClosed,
       WaitRead, WaitReturn, CancelRun, Dispatch, DispatchStart, DispatchStartFails, DispatchRead,
       DispatchPublish, DispatchFails, Broker, Rest, vars
  <2>3. QED
    BY <2>1, <2>2
<1>2. CASE serial /\ Next
  <2>1. SerialParts
    BY <1>2 DEF SerialInv
  <2>2. ASSUME NEW k \in Closers, Close(k)
        PROVE  SerialParts'
    BY <1>2, <2>1, <2>2, CloseCheckStep, CloseTransportStep, CloseMarkStep DEF Close
  <2>3. SerialParts'
    BY <1>2, <2>1, <2>2, StartSerial, OtherSerial
  <2>4. QED
    BY <2>3 DEF SerialInv
<1>3. CASE ~serial
  BY <1>1, <1>3 DEF SerialInv
<1>4. CASE serial /\ UNCHANGED vars
  <2>1. SerialParts
    BY <1>4 DEF SerialInv
  <2>2. SerialParts'
    BY <1>4, <2>1, LossStep DEF vars, connVars
  <2>3. QED
    BY <2>2 DEF SerialInv
<1>5. QED
  BY <1>2, <1>3, <1>4

(* The invariant of serial programs is one. *)
THEOREM SerialInvariance == Spec => []SerialInv
  BY InitSerial, NextSerial, BaseInvariance, PTL DEF Spec

(* In a serial program at rest, closed means no connection, and open means a
   started transport that serves every kind of registration while its channel
   lives, whatever was lost, restarted or failed before. *)
THEOREM LifecycleIsTrue == Spec => []LifecycleTellsTheTruth
<1>1. BaseInv /\ SerialInv => LifecycleTellsTheTruth
  <2> SUFFICES ASSUME BaseInv, SerialInv, serial, Quiet, ~strayed
               PROVE  /\ lClosed => ~started /\ connOpen = {}
                      /\ lStarted /\ ~lClosed =>
                          /\ started
                          /\ channel \in chOpen =>
                              \A kind \in Served : \E x \in consumers : x.kind = kind /\ x.conn = channel
    BY DEF LifecycleTellsTheTruth
  <2>1. Resting
    BY DEF SerialInv, SerialParts
  <2>2. /\ \A s \in Starters : spc[s] \notin Stages
        /\ \A k \in Closers : cpc[k] # "transport"
    BY DEF Quiet, StartQuiet, Stages, Kinds
  <2>3. lClosed => ~started
    BY <2>1, <2>2 DEF Resting
  <2>4. \A k \in Closers : ~Closing(k)
    BY <2>2 DEF BaseInv, CallsOK, ClosersInStep, Closing
  <2>5. lClosed => connOpen = {}
    BY <2>3, <2>4 DEF BaseInv, ConnInv, NoOrphanConnection
  <2>6. lStarted /\ ~lClosed =>
          started /\ (channel \in chOpen => \A kind \in Served : Serves(kind))
    BY <2>1, <2>2 DEF Resting
  <2>7. QED
    BY <2>3, <2>5, <2>6 DEF Serves
<1>2. QED
  BY <1>1, BaseInvariance, SerialInvariance, PTL

(* In a serial program no queue ever has two consumers of this client: a Start
   that is tried again finds the consumers of the failed one on a dead channel. *)
THEOREM QueuesHaveOneConsumer == Spec => []OneConsumerPerQueue
<1>1. SerialInv => OneConsumerPerQueue
  BY DEF SerialInv, SerialParts, OneConsumer, OneConsumerPerQueue, Live
<1>2. QED
  BY <1>1, SerialInvariance, PTL

-----------------------------------------------------------------------------
(* A Start that looks whether the lifecycle was closed has found it started,
   and no lifecycle is ever made "not started" again. *)
StartedOnce == \A s \in Starters : spc[s] = "check_closed" => lStarted

(* lifecycle.started is never taken back. *)
LEMMA StartedOnceStep ==
  ASSUME BaseInv, StartedOnce, [Next]_vars
  PROVE  StartedOnce'
<1> USE DEF StartedOnce, lifecycleVars, startVars
<1>1. ASSUME NEW s \in Starters, Start(s)
      PROVE  StartedOnce'
  <2>1. lStarted => lStarted'
    BY <1>1 DEF Start, StartCheckStarted, StartCheckClosed, StartTransport, StartTransportFails,
              StageStart, StageStartFails, StageWithoutActions, StageRead, StageNoChannel,
              StageConsume, StageConsumeFails, StartMark, StartGivesUp
  <2>2. \A t \in Starters : spc'[t] = "check_closed" => spc[t] = "check_closed" \/ lStarted
    BY <1>1 DEF Start, StartCheckStarted, StartCheckClosed, StartTransport, StartTransportFails,
              StageStart, StageStartFails, StageWithoutActions, StageRead, StageNoChannel,
              StageConsume, StageConsumeFails, StartMark, StartGivesUp, StartGoto, NextStage,
              StageStep, Kinds, BaseInv, CallsOK
  <2>3. QED
    BY <2>1, <2>2
<1>2. CASE ~\E s \in Starters : Start(s)
  <2>1. UNCHANGED <<startVars, lStarted>>
    BY <1>2 DEF Next, ConsumerStops, Close, CloseCheck, CloseTransport, CloseMark, WaitClosed,
       WaitRead, WaitReturn, CancelRun, Dispatch, DispatchStart, DispatchStartFails, DispatchRead,
       DispatchPublish, DispatchFails, Broker, Rest, vars
  <2>2. QED
    BY <2>1
<1>3. QED
  BY <1>1, <1>2

(* In a program that makes its Start and Close calls one at a time, a Start
   that returns without an error leaves a started transport, whether it began
   serving or found the client serving: what the run start_close_race refutes
   of programs that do not. *)
StartsServe ==
    \A s \in Starters : spc[s] # "returned" /\ spc'[s] = "returned" => started'

(* A Start returns from check_closed, on an open lifecycle, or from markStarted. *)
LEMMA ReturnServes ==
  ASSUME BaseInv, SerialParts, StartedOnce, serial, [Next]_vars
  PROVE  StartsServe
<1> SUFFICES ASSUME NEW s \in Starters, spc[s] # "returned", spc'[s] = "returned"
             PROVE  started'
  BY DEF StartsServe
<1>1. StartCheckClosed(s) \/ StartMark(s)
  <2>1. PICK t \in Starters : Start(t)
    BY DEF Next, ConsumerStops, Close, CloseCheck, CloseTransport, CloseMark, WaitClosed,
       WaitRead, WaitReturn, CancelRun, Dispatch, DispatchStart, DispatchStartFails, DispatchRead,
       DispatchPublish, DispatchFails, Broker, Rest, vars, startVars
  <2>2. QED
    BY <2>1 DEF Start, StartCheckStarted, StartCheckClosed, StartTransport, StartTransportFails,
              StageStart, StageStartFails, StageWithoutActions, StageRead, StageNoChannel,
              StageConsume, StageConsumeFails, StartMark, StartGivesUp, StartGoto, NextStage,
              StageStep, Kinds, BaseInv, CallsOK
<1>2. CASE StartMark(s)
  <2>1. spc[s] = "mark" /\ started' = started
    BY <1>2 DEF StartMark, StartGoto, connVars
  <2>2. started
    BY <2>1 DEF SerialParts, Starting, Stages
  <2>3. QED
    BY <2>1, <2>2
<1>3. CASE StartCheckClosed(s)
  <2>1. /\ spc[s] = "check_closed"
        /\ ~lClosed
        /\ started' = started
    BY <1>3 DEF StartCheckClosed, StartGoto, connVars, BaseInv, CallsOK
  <2>2. lStarted
    BY <2>1 DEF StartedOnce
  <2>3. ~StartQuiet(s)
    BY <2>1 DEF StartQuiet
  <2>4. \A k \in Closers : cpc[k] # "transport"
    BY <2>3 DEF SerialParts, OneAtATime
  <2>5. started
    BY <2>1, <2>2, <2>4 DEF SerialParts, Resting
  <2>6. QED
    BY <2>1, <2>5
<1>4. QED
  BY <1>1, <1>2, <1>3

(* No Start of a serial program returns without an error from a transport that
   is not started. *)
THEOREM SerialStartServes == Spec => [][serial => StartsServe]_vars
<1>1. Init => StartedOnce
  BY DEF Init, StartedOnce
<1>2. BaseInv /\ StartedOnce /\ [Next]_vars => StartedOnce'
  BY StartedOnceStep
<1>3. BaseInv /\ SerialInv /\ StartedOnce /\ [Next]_vars => (serial => StartsServe)
  BY ReturnServes DEF SerialInv
<1>4. QED
  BY <1>1, <1>2, <1>3, BaseInvariance, SerialInvariance, PTL DEF Spec

-----------------------------------------------------------------------------
(* What breaks Close's promise is a connection made behind a closed lifecycle:
   in a serial program without one, a Close that returns, whether it closed the
   client or found it closed, leaves no connection open. *)
ClosesTearDown ==
    \A k \in Closers : cpc[k] # "returned" /\ cpc'[k] = "returned" => connOpen' = {}

(* A Close returns on a closed lifecycle and at rest: where the lifecycle tells
   the truth, nothing is open. *)
LEMMA ReturnTearsDown ==
  ASSUME BaseInv, SerialParts, LifecycleTellsTheTruth', serial, ~strayed, [Next]_vars
  PROVE  ClosesTearDown
<1> SUFFICES ASSUME NEW k \in Closers, cpc[k] # "returned", cpc'[k] = "returned"
             PROVE  connOpen' = {}
  BY DEF ClosesTearDown
<1> USE DEF lifecycleVars, startVars
<1>0. cpc \in [Closers -> {"idle", "transport", "returned"}]
      /\ lClosed \in BOOLEAN /\ serial \in BOOLEAN /\ strayed \in BOOLEAN
  BY DEF BaseInv, CallsOK, Flags
<1>1. (CloseCheck(k) /\ lClosed) \/ CloseMark(k)
  <2>1. PICK j \in Closers : Close(j)
    BY DEF Next, Start, StartCheckStarted, StartCheckClosed, StartTransport, StartTransportFails,
       StageStart, StageStartFails, StageWithoutActions, StageRead, StageNoChannel, StageConsume,
       StageConsumeFails, StartMark, StartGivesUp, ConsumerStops, WaitClosed, WaitRead, WaitReturn,
       CancelRun, Dispatch, DispatchStart, DispatchStartFails, DispatchRead, DispatchPublish,
       DispatchFails, Broker, Rest, vars
  <2>2. ~CloseTransport(j)
    BY DEF CloseTransport
  <2>3. j = k
    BY <1>0, <2>1, <2>2 DEF Close, CloseCheck, CloseMark
  <2>4. CloseCheck(k) => lClosed
    BY <1>0 DEF CloseCheck
  <2>5. QED
    BY <2>1, <2>2, <2>3, <2>4 DEF Close
<1>2. /\ cpc' = [cpc EXCEPT ![k] = "returned"]
      /\ spc' = spc
  BY <1>1 DEF CloseCheck, CloseMark
<1>3. serial' /\ ~strayed' /\ lClosed'
  <2>1. serial' = serial /\ strayed' = strayed
    BY <1>1 DEF CloseCheck, CloseMark
  <2>2. CASE CloseCheck(k) /\ lClosed
    <3>1. lClosed' = lClosed
      BY <2>2 DEF CloseCheck
    <3>2. QED
      BY <1>0, <2>1, <2>2, <3>1
  <2>3. CASE CloseMark(k)
    <3>1. lClosed' = TRUE
      BY <2>3 DEF CloseMark
    <3>2. QED
      BY <1>0, <2>1, <3>1
  <2>4. QED
    BY <1>1, <2>2, <2>3
<1>4. /\ \A s \in Starters : StartQuiet(s)
      /\ \A j \in Closers : j # k => cpc[j] # "transport"
  <2>1. CASE CloseCheck(k)
    BY <2>1 DEF CloseCheck, MayBegin, Quiet
  <2>2. CASE CloseMark(k)
    BY <2>2 DEF CloseMark, SerialParts, OneAtATime
  <2>3. QED
    BY <1>1, <2>1, <2>2
<1>5. Quiet'
  BY <1>0, <1>2, <1>4 DEF Quiet, StartQuiet
<1>6. QED
  BY <1>3, <1>5 DEF LifecycleTellsTheTruth

(* A Close of a serial program tears its transport down, as its comment says, as
   long as no Dispatch, Invoke or failed Start has connected the transport
   behind a closed lifecycle: what the run close_leaves_connection refutes of
   programs that do. *)
THEOREM SerialCloseTearsDown == Spec => [][serial /\ ~strayed => ClosesTearDown]_vars
<1>1. BaseInv /\ SerialInv /\ LifecycleTellsTheTruth' /\ [Next]_vars
        => (serial /\ ~strayed => ClosesTearDown)
  BY ReturnTearsDown DEF SerialInv
<1>2. QED
  BY <1>1, BaseInvariance, SerialInvariance, LifecycleIsTrue, PTL DEF Spec
=============================================================================
