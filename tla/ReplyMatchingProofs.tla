------------------------ MODULE ReplyMatchingProofs ------------------------
(***************************************************************************)
(* ReplyMatching for any number of calls, replies, connections and Closes: *)
(* IInv is an inductive invariant, and with it the safety properties.      *)
(***************************************************************************)
EXTENDS ReplyMatching, ConnectionProofs

(* The types of everything but the connection and the panic. *)
CallTypeOK ==
    /\ pc \in [Calls -> Pcs]
    /\ chOf \in [Calls -> ConnsOrNil]
    /\ pending \subseteq Calls
    /\ buffer \in [Calls -> Optional(Replies)]
    /\ closed \subseteq Calls
    /\ outcome \in [Calls -> Outcomes]
    /\ result \in [Calls -> Optional(Replies)]
    /\ requested \subseteq Calls
    /\ sent \subseteq Replies
    /\ inflight \subseteq Replies
    /\ loop \in [Conns -> LoopPcs]
    /\ hand \in [Conns -> Optional(Calls \X Replies)]

(* What IInv says of the calls, beyond the connection. *)
CallInv ==
    /\ CallTypeOK
    /\ PendingExact
    /\ CorrelatedReply
    /\ Bookkeeping

(* Init establishes the inductive invariant. *)
LEMMA InitInv == Init => IInv
<1> SUFFICES ASSUME Init
             PROVE  IInv
  OBVIOUS
<1>1. ConnInv
  BY ConnInitInv DEF Init
<1>2. panicked \in BOOLEAN
  BY DEF Init
<1>3. CallTypeOK
  <2>1. 0 \in ConnsOrNil
    BY MaxConnsAssumption DEF ConnsOrNil
  <2>2. QED
    BY <2>1 DEF Init, CallTypeOK, Pcs, Nil, Optional, Outcomes, LoopPcs
<1>4. PendingExact
  BY DEF Init, PendingExact, Registered
<1>5. CorrelatedReply
  BY DEF Init, CorrelatedReply
<1>6. ReplyLoopAlive
  BY DEF Init, ConnInit, ReplyLoopAlive
<1>7. Bookkeeping
  BY DEF Init, Bookkeeping
<1>8. QED
  BY <1>1, <1>2, <1>3, <1>4, <1>5, <1>6, <1>7 DEF IInv, TypeOK, CallTypeOK, ConnInv

(***************************************************************************)
(* One step per action; under it, one per conjunct of CallInv.  An action  *)
(* that leaves the calls alone needs no more than its definition.          *)
(***************************************************************************)

(* Invoke keeps the invariant of the calls. *)
LEMMA InvokeStep ==
  ASSUME CallInv, ConnInv, NEW c \in Calls, Invoke(c)
  PROVE  CallInv'
<1> USE DEF CallInv, CallTypeOK, Goto, Leave, waiterVars, callVars, brokerVars, loopVars
<1>1. CASE InvokeStart(c)
  <2> USE <1>1 DEF InvokeStart
  <2>1. CallTypeOK'
    BY DEF Pcs, Optional, Outcomes, LoopPcs
  <2>2. PendingExact'
    BY DEF PendingExact, Registered, Bookkeeping, Begun, Pcs
  <2>3. CorrelatedReply'
    BY DEF CorrelatedReply
  <2>4. Bookkeeping'
    BY DEF Bookkeeping, Begun, PendingExact, Registered, Pcs, Optional, Outcomes
  <2>5. QED
    BY <2>1, <2>2, <2>3, <2>4
<1>2. CASE InvokeStartFails(c)
  <2> USE <1>2 DEF InvokeStartFails
  <2>1. CallTypeOK'
    BY DEF Pcs, Optional, Outcomes, LoopPcs
  <2>2. PendingExact'
    BY DEF PendingExact, Registered, Bookkeeping, Begun, Pcs
  <2>3. CorrelatedReply'
    BY DEF CorrelatedReply
  <2>4. Bookkeeping'
    BY DEF Bookkeeping, Begun, PendingExact, Registered, Pcs, Optional, Outcomes
  <2>5. QED
    BY <2>1, <2>2, <2>3, <2>4
<1>3. CASE InvokeReadChannel(c)
  <2> USE <1>3 DEF InvokeReadChannel
  <2>1. CallTypeOK'
    <3>1. channel \in ConnsOrNil
      BY DEF ConnInv, ConnTypeOK
    <3>2. QED
      BY <3>1 DEF Pcs
  <2>2. PendingExact'
    BY DEF PendingExact, Registered, Bookkeeping, Begun, Pcs
  <2>3. CorrelatedReply'
    BY DEF CorrelatedReply
  <2>4. Bookkeeping'
    BY DEF Bookkeeping, Begun, PendingExact, Registered, Pcs, Optional, Outcomes
  <2>5. QED
    BY <2>1, <2>2, <2>3, <2>4
<1>4. CASE InvokeNoChannel(c)
  <2> USE <1>4 DEF InvokeNoChannel
  <2>1. CallTypeOK'
    BY DEF Pcs, Optional, Outcomes, LoopPcs
  <2>2. PendingExact'
    BY DEF PendingExact, Registered, Bookkeeping, Begun, Pcs
  <2>3. CorrelatedReply'
    BY DEF CorrelatedReply
  <2>4. Bookkeeping'
    BY DEF Bookkeeping, Begun, PendingExact, Registered, Pcs, Optional, Outcomes
  <2>5. QED
    BY <2>1, <2>2, <2>3, <2>4
<1>5. CASE InvokeEncodeFails(c)
  <2> USE <1>5 DEF InvokeEncodeFails
  <2>1. CallTypeOK'
    BY DEF Pcs, Optional, Outcomes, LoopPcs
  <2>2. PendingExact'
    BY DEF PendingExact, Registered, Bookkeeping, Begun, Pcs
  <2>3. CorrelatedReply'
    BY DEF CorrelatedReply
  <2>4. Bookkeeping'
    BY DEF Bookkeeping, Begun, PendingExact, Registered, Pcs, Optional, Outcomes
  <2>5. QED
    BY <2>1, <2>2, <2>3, <2>4
<1>6. CASE InvokeRegister(c)
  <2> USE <1>6 DEF InvokeRegister
  <2>1. CallTypeOK'
    BY DEF Pcs, Optional, Outcomes, LoopPcs
  <2>2. PendingExact'
    BY DEF PendingExact, Registered, Bookkeeping, Begun, Pcs
  <2>3. CorrelatedReply'
    BY DEF CorrelatedReply
  <2>4. Bookkeeping'
    BY DEF Bookkeeping, Begun, PendingExact, Registered, Pcs, Optional, Outcomes
  <2>5. QED
    BY <2>1, <2>2, <2>3, <2>4
<1>7. CASE InvokePublish(c)
  <2> USE <1>7 DEF InvokePublish
  <2>1. CallTypeOK'
    BY DEF Pcs, Optional, Outcomes, LoopPcs
  <2>2. PendingExact'
    BY DEF PendingExact, Registered, Bookkeeping, Begun, Pcs
  <2>3. CorrelatedReply'
    BY DEF CorrelatedReply
  <2>4. Bookkeeping'
    BY DEF Bookkeeping, Begun, PendingExact, Registered, Pcs, Optional, Outcomes
  <2>5. QED
    BY <2>1, <2>2, <2>3, <2>4
<1>8. CASE InvokePublishFails(c)
  <2> USE <1>8 DEF InvokePublishFails
  <2>1. CallTypeOK'
    BY DEF Pcs, Optional, Outcomes, LoopPcs
  <2>2. PendingExact'
    BY DEF PendingExact, Registered, Bookkeeping, Begun, Pcs
  <2>3. CorrelatedReply'
    BY DEF CorrelatedReply
  <2>4. Bookkeeping'
    BY DEF Bookkeeping, Begun, PendingExact, Registered, Pcs, Optional, Outcomes
  <2>5. QED
    BY <2>1, <2>2, <2>3, <2>4
<1>9. CASE InvokeReceive(c)
  <2> USE <1>9 DEF InvokeReceive
  <2>1. CallTypeOK'
    BY DEF Pcs, Optional, Outcomes, LoopPcs
  <2>2. PendingExact'
    BY DEF PendingExact, Registered, Bookkeeping, Begun, Pcs
  <2>3. CorrelatedReply'
    BY DEF CorrelatedReply
  <2>4. Bookkeeping'
    BY DEF Bookkeeping, Begun, PendingExact, Registered, Pcs, Optional, Outcomes
  <2>5. QED
    BY <2>1, <2>2, <2>3, <2>4
<1>10. CASE InvokeReceiveNil(c)
  <2> USE <1>10 DEF InvokeReceiveNil
  <2>1. CallTypeOK'
    BY DEF Pcs, Optional, Outcomes, LoopPcs
  <2>2. PendingExact'
    BY DEF PendingExact, Registered, Bookkeeping, Begun, Pcs
  <2>3. CorrelatedReply'
    BY DEF CorrelatedReply
  <2>4. Bookkeeping'
    BY DEF Bookkeeping, Begun, PendingExact, Registered, Pcs, Optional, Outcomes
  <2>5. QED
    BY <2>1, <2>2, <2>3, <2>4
<1>11. CASE InvokeTimeout(c)
  <2> USE <1>11 DEF InvokeTimeout
  <2>1. CallTypeOK'
    BY DEF Pcs, Optional, Outcomes, LoopPcs
  <2>2. PendingExact'
    BY DEF PendingExact, Registered, Bookkeeping, Begun, Pcs
  <2>3. CorrelatedReply'
    BY DEF CorrelatedReply
  <2>4. Bookkeeping'
    BY DEF Bookkeeping, Begun, PendingExact, Registered, Pcs, Optional, Outcomes
  <2>5. QED
    BY <2>1, <2>2, <2>3, <2>4
<1>12. CASE InvokeCanceled(c)
  <2> USE <1>12 DEF InvokeCanceled
  <2>1. CallTypeOK'
    BY DEF Pcs, Optional, Outcomes, LoopPcs
  <2>2. PendingExact'
    BY DEF PendingExact, Registered, Bookkeeping, Begun, Pcs
  <2>3. CorrelatedReply'
    BY DEF CorrelatedReply
  <2>4. Bookkeeping'
    BY DEF Bookkeeping, Begun, PendingExact, Registered, Pcs, Optional, Outcomes
  <2>5. QED
    BY <2>1, <2>2, <2>3, <2>4
<1>13. CASE InvokeCleanup(c)
  <2> USE <1>13 DEF InvokeCleanup
  <2>1. CallTypeOK'
    BY DEF Pcs, Optional, Outcomes, LoopPcs
  <2>2. PendingExact'
    BY DEF PendingExact, Registered, Bookkeeping, Begun, Pcs
  <2>3. CorrelatedReply'
    BY DEF CorrelatedReply
  <2>4. Bookkeeping'
    BY DEF Bookkeeping, Begun, PendingExact, Registered, Pcs, Optional, Outcomes
  <2>5. QED
    BY <2>1, <2>2, <2>3, <2>4
<1>14. QED
  BY <1>1, <1>2, <1>3, <1>4, <1>5, <1>6, <1>7, <1>8, <1>9, <1>10, <1>11, <1>12, <1>13 DEF Invoke

(* The reply consumer keeps it: what it hands on is a reply that was sent, and
   it hands it to the call it answers. *)
LEMMA ConsumeRepliesStep ==
  ASSUME CallInv, NEW g \in Conns, ConsumeReplies(g)
  PROVE  CallInv'
<1> USE DEF CallInv, CallTypeOK, PendingExact, Registered, Bookkeeping, Begun, CorrelatedReply,
            Receives, waiterVars, callVars, brokerVars, loopVars
<1>1. CASE \E r \in Replies : DropReply(g, r)
  BY <1>1 DEF DropReply, Optional
<1>2. CASE \E r \in Replies : TakeReply(g, r)
  <2>1. PICK r \in Replies : TakeReply(g, r)
    BY <1>2
  <2>2. CallOf(r) \in Calls /\ r \in sent
    BY <2>1 DEF TakeReply, Replies, CallOf
  <2>3. {<<CallOf(r), r>>} \in Optional(Calls \X Replies)
    BY <2>2 DEF Optional
  <2>4. /\ hand' = [hand EXCEPT ![g] = {<<CallOf(r), r>>}]
        /\ inflight' \subseteq inflight
        /\ UNCHANGED <<waiterVars, callVars, requested, sent, loop>>
    BY <2>1 DEF TakeReply
  <2>5. CallTypeOK'
    BY <2>3, <2>4
  <2>6. CorrelatedReply'
    BY <2>2, <2>4
  <2>7. PendingExact' /\ Bookkeeping'
    BY <2>4
  <2>8. QED
    BY <2>5, <2>6, <2>7
<1>3. CASE SendReply(g)
  <2>1. PICK c \in Calls, r \in Replies :
          /\ hand[g] = {<<c, r>>}
          /\ hand' = [hand EXCEPT ![g] = {}]
          /\ buffer' = buffer \/ (buffer[c] = {} /\ buffer' = [buffer EXCEPT ![c] = {r}])
          /\ UNCHANGED <<pending, closed, callVars, brokerVars, loop>>
    BY <1>3 DEF SendReply
  <2>2. CallOf(r) = c /\ r \in sent
    <3>1. <<c, r>> \in hand[g]
      BY <2>1
    <3>2. QED
      BY <3>1
  <2>3. CallTypeOK'
    <3>1. {r} \in Optional(Replies) /\ {} \in Optional(Calls \X Replies)
      BY DEF Optional
    <3>2. buffer' \in [Calls -> Optional(Replies)]
      BY <2>1, <3>1
    <3>3. hand' \in [Conns -> Optional(Calls \X Replies)]
      BY <2>1, <3>1
    <3>4. QED
      BY <2>1, <3>2, <3>3
  <2>4. CorrelatedReply'
    <3>1. \A d \in Calls : buffer'[d] = buffer[d] \/ (d = c /\ buffer'[d] = {r})
      BY <2>1
    <3>2. \A h \in Conns : hand'[h] = hand[h] \/ hand'[h] = {}
      BY <2>1
    <3>3. result' = result /\ sent' = sent
      BY <2>1
    <3>4. QED
      BY <2>2, <3>1, <3>2, <3>3
  <2>5. PendingExact' /\ Bookkeeping'
    BY <2>1
  <2>6. QED
    BY <2>3, <2>4, <2>5
<1>4. CASE LoopStops(g)
  BY <1>4 DEF LoopStops, LoopPcs
<1>5. QED
  BY <1>1, <1>2, <1>3, <1>4 DEF ConsumeReplies

(* The drain of a Close keeps it: it closes every waiter that is registered. *)
LEMMA CloseStep ==
  ASSUME CallInv, NEW k \in Closers, Close(k)
  PROVE  CallInv'
<1> USE DEF CallInv, CallTypeOK, PendingExact, Registered, Bookkeeping, Begun, CorrelatedReply,
            waiterVars, callVars, brokerVars, loopVars
<1>1. CASE UNCHANGED <<waiterVars, callVars, brokerVars, loopVars, panicked>>
  BY <1>1
<1>2. CASE CloseDrain(k)
  BY <1>2 DEF CloseDrain
<1>3. QED
  BY <1>1, <1>2 DEF Close

(* Providers and the broker keep it: only requested calls are answered. *)
LEMMA ProviderStep ==
  ASSUME CallInv, Broker
  PROVE  CallInv'
<1> USE DEF CallInv, CallTypeOK, PendingExact, Registered, Bookkeeping, Begun, CorrelatedReply,
            waiterVars, callVars, brokerVars, loopVars
<1>1. CASE \E r \in Replies : ProviderReplies(r)
  BY <1>1 DEF ProviderReplies
<1>2. CASE UNCHANGED <<waiterVars, callVars, brokerVars, loopVars, panicked>>
  BY <1>2
<1>3. QED
  BY <1>1, <1>2 DEF Broker

-----------------------------------------------------------------------------
(* Every step of the specification is a step of the connection, or leaves it
   alone. *)
LEMMA ConnSteps ==
  ASSUME [Next]_vars
  PROVE  ConnNext \/ UNCHANGED <<connVars, closerVars>>
<1> USE DEF connVars, closerVars
<1>1. CASE \E c \in Calls : Invoke(c)
  <2>1. PICK c \in Calls : Invoke(c)
    BY <1>1
  <2>2. CASE InvokeStart(c) \/ InvokeStartFails(c)
    BY <2>2 DEF InvokeStart, InvokeStartFails, ConnNext
  <2>3. CASE ~(InvokeStart(c) \/ InvokeStartFails(c))
    BY <2>1, <2>3
    DEF Invoke, InvokeReadChannel, InvokeNoChannel, InvokeEncodeFails, InvokeRegister,
        InvokePublish, InvokePublishFails, InvokeReceive, InvokeReceiveNil, InvokeTimeout,
        InvokeCanceled, InvokeCleanup
  <2>4. QED
    BY <2>2, <2>3
<1>2. CASE \E k \in Closers : Close(k)
  BY <1>2 DEF Close, CloseDrain, ConnNext
<1>3. CASE \E g \in Conns : ConsumeReplies(g)
  BY <1>3 DEF ConsumeReplies, DropReply, TakeReply, SendReply, LoopStops
<1>4. CASE Broker
  BY <1>4 DEF Broker, ProviderReplies, ConnNext
<1>5. CASE UNCHANGED vars
  BY <1>5 DEF vars
<1>6. QED
  BY <1>1, <1>2, <1>3, <1>4, <1>5 DEF Next, Finished

(* So every step keeps the invariant of the connection. *)
LEMMA ConnPart ==
  ASSUME ConnInv, Next
  PROVE  ConnInv'
  BY ConnSteps, ConnStep, ConnStutter

(* The reply consumer of the current connection keeps running: it stops only
   when its context is cancelled or its channel is dead. *)
LEMMA LoopPart ==
  ASSUME ConnInv, CallTypeOK, ReplyLoopAlive, Next
  PROVE  ReplyLoopAlive'
<1> USE DEF connVars, closerVars, loopVars
<1>1. ASSUME NEW c \in Calls, InvokeStart(c)
      PROVE  ReplyLoopAlive'
  <2>1. CASE AlreadyStarted /\ UNCHANGED loop
    BY <2>1 DEF AlreadyStarted, ReplyLoopAlive
  <2>2. CASE Dial /\ loop' = [loop EXCEPT ![dialed + 1] = "select"]
    <3>1. dialed + 1 \in Conns
      BY <2>2, MaxConnsAssumption DEF Dial, ConnInv, ConnTypeOK, ConnsOrNil, Conns
    <3>2. channel' = dialed + 1 /\ loop'[dialed + 1] = "select"
      BY <2>2, <3>1 DEF Dial, CallTypeOK
    <3>3. QED
      BY <3>2 DEF ReplyLoopAlive
  <2>3. QED
    BY <1>1, <2>1, <2>2 DEF InvokeStart
<1>2. ASSUME NEW g \in Conns, LoopStops(g)
      PROVE  ReplyLoopAlive'
  <2>1. g \in cancelled \/ g \notin chOpen
    BY <1>2 DEF LoopStops
  <2>2. started => channel \notin cancelled
    BY DEF ConnInv, CurrentConnection
  <2>3. \A h \in Conns : h # g => loop'[h] = loop[h]
    BY <1>2 DEF LoopStops, CallTypeOK
  <2>4. channel \in chOpen => channel \in Conns
    BY DEF ConnInv, ConnTypeOK
  <2>5. started' = started /\ channel' = channel /\ chOpen' = chOpen
    BY <1>2 DEF LoopStops
  <2>6. QED
    BY <2>1, <2>2, <2>3, <2>4, <2>5, Zenon DEF ReplyLoopAlive
<1>3. ASSUME NEW k \in Closers, Close(k)
      PROVE  ReplyLoopAlive'
  <2>1. CASE CloseSwap(k)
    BY <2>1 DEF CloseSwap, ReplyLoopAlive
  <2>2. CASE CloseWire(k) /\ UNCHANGED loopVars
    BY <2>2 DEF CloseWire, ReplyLoopAlive
  <2>3. CASE CloseNotStarted(k) /\ UNCHANGED loopVars
    BY <2>3 DEF CloseNotStarted, ReplyLoopAlive
  <2>4. CASE CloseCancel(k) /\ UNCHANGED loopVars
    BY <2>4 DEF CloseCancel, ReplyLoopAlive
  <2>5. CASE CloseDrain(k)
    BY <2>5 DEF CloseDrain, CloseReturns, ReplyLoopAlive
  <2>6. QED
    BY <1>3, <2>1, <2>2, <2>3, <2>4, <2>5 DEF Close
<1>4. ASSUME NEW g \in Conns, ChannelLost(g) \/ ConnectionLost(g), UNCHANGED loopVars
      PROVE  ReplyLoopAlive'
  BY <1>4 DEF ChannelLost, ConnectionLost, ReplyLoopAlive
<1>5. CASE UNCHANGED <<started, channel, chOpen, loop>>
  BY <1>5 DEF ReplyLoopAlive
<1>6. ASSUME NEW c \in Calls, Invoke(c), ~InvokeStart(c)
      PROVE  UNCHANGED <<started, channel, chOpen, loop>>
  BY <1>6
  DEF Invoke, InvokeStartFails, StartFails, InvokeReadChannel, InvokeNoChannel,
      InvokeEncodeFails, InvokeRegister, InvokePublish, InvokePublishFails, InvokeReceive,
      InvokeReceiveNil, InvokeTimeout, InvokeCanceled, InvokeCleanup
<1>7. ASSUME NEW g \in Conns, ConsumeReplies(g), ~LoopStops(g)
      PROVE  UNCHANGED <<started, channel, chOpen, loop>>
  BY <1>7 DEF ConsumeReplies, DropReply, TakeReply, SendReply
<1>8. CASE (\E r \in Replies : ProviderReplies(r)) \/ Finished
  BY <1>5, <1>8 DEF ProviderReplies, Finished, vars
<1>9. QED
  BY <1>1, <1>2, <1>3, <1>4, <1>5, <1>6, <1>7, <1>8 DEF Next, Broker

(* The calls' part of a step. *)
LEMMA CallPart ==
  ASSUME ConnInv, CallInv, Next
  PROVE  CallInv'
<1>1. CASE Finished
  BY <1>1
  DEF Finished, vars, waiterVars, callVars, brokerVars, loopVars, CallInv, CallTypeOK,
      PendingExact, Registered, CorrelatedReply, Bookkeeping, Begun
<1>2. QED
  BY <1>1, InvokeStep, CloseStep, ConsumeRepliesStep, ProviderStep DEF Next

(* Whether the process has panicked is a Boolean. *)
LEMMA PanicPart ==
  ASSUME panicked \in BOOLEAN, Next
  PROVE  panicked' \in BOOLEAN
<1>1. CASE Finished
  BY <1>1 DEF Finished, vars
<1>2. ASSUME NEW c \in Calls, Invoke(c)
      PROVE  panicked' \in BOOLEAN
  BY <1>2
  DEF Invoke, InvokeStart, InvokeStartFails, InvokeReadChannel, InvokeNoChannel,
      InvokeEncodeFails, InvokeRegister, InvokePublish, InvokePublishFails, InvokeReceive,
      InvokeReceiveNil, InvokeTimeout, InvokeCanceled, InvokeCleanup
<1>3. ASSUME NEW k \in Closers, Close(k)
      PROVE  panicked' \in BOOLEAN
  BY <1>3 DEF Close, CloseDrain
<1>4. ASSUME NEW g \in Conns, ConsumeReplies(g)
      PROVE  panicked' \in BOOLEAN
  BY <1>4 DEF ConsumeReplies, DropReply, TakeReply, SendReply, LoopStops
<1>5. CASE Broker
  BY <1>5 DEF Broker, ProviderReplies
<1>6. QED
  BY <1>1, <1>2, <1>3, <1>4, <1>5 DEF Next

(* IInv in the parts the lemmas are about. *)
LEMMA IInvParts ==
  IInv <=> ConnInv /\ CallInv /\ ReplyLoopAlive /\ panicked \in BOOLEAN
  BY DEF IInv, TypeOK, CallInv, CallTypeOK, ConnInv

(* Every step keeps the inductive invariant. *)
LEMMA NextInv ==
  ASSUME IInv, [Next]_vars
  PROVE  IInv'
<1>1. ConnInv /\ CallInv /\ ReplyLoopAlive /\ panicked \in BOOLEAN
  BY IInvParts
<1>2. CASE Next
  <2>1. ConnInv'
    BY <1>1, <1>2, ConnPart
  <2>2. CallInv'
    BY <1>1, <1>2, CallPart
  <2>3. ReplyLoopAlive'
    BY <1>1, <1>2, LoopPart DEF CallInv
  <2>4. panicked' \in BOOLEAN
    BY <1>1, <1>2, PanicPart
  <2>5. QED
    BY <2>1, <2>2, <2>3, <2>4
    DEF IInv, TypeOK, CallInv, CallTypeOK, ConnInv
<1>3. CASE UNCHANGED vars
  BY <1>3
  DEF vars, connVars, closerVars, waiterVars, callVars, brokerVars, loopVars,
      IInv, TypeOK, ConnInv, ConnTypeOK, NoOrphanConnection, CurrentConnection,
      HeldConnections, Closing, PendingExact, Registered, CorrelatedReply, ReplyLoopAlive,
      Bookkeeping, Begun
<1>4. QED
  BY <1>2, <1>3

(* IInv is an invariant of every instance of the specification. *)
THEOREM Invariance == Spec => []IInv
  BY InitInv, NextInv, PTL DEF Spec

(* Every variable keeps its type, and a waiter its capacity of one. *)
THEOREM TypeCorrect == Spec => []TypeOK
<1>1. IInv => TypeOK
  BY DEF IInv
<1>2. QED
  BY <1>1, Invariance, PTL

(* The pending map is exact: no path out of Invoke leaves an entry behind and
   none of its waiters is closed, whatever Closes and reconnections do. *)
THEOREM PendingIsExact == Spec => []PendingExact
<1>1. IInv => PendingExact
  BY DEF IInv
<1>2. QED
  BY <1>1, Invariance, PTL

(* No reply ever reaches a call it does not answer. *)
THEOREM RepliesAreCorrelated == Spec => []CorrelatedReply
<1>1. IInv => CorrelatedReply
  BY DEF IInv
<1>2. QED
  BY <1>1, Invariance, PTL

(* A started transport with a live channel has a running reply consumer. *)
THEOREM ReplyLoopStaysAlive == Spec => []ReplyLoopAlive
<1>1. IInv => ReplyLoopAlive
  BY DEF IInv
<1>2. QED
  BY <1>1, Invariance, PTL

(* The transport leaks no connection: one that is open is in use, or a Close that
   has taken it will close it. *)
THEOREM NoConnectionIsLeaked == Spec => []NoOrphanConnection
<1>1. IInv => NoOrphanConnection
  BY DEF IInv, ConnInv
<1>2. QED
  BY <1>1, Invariance, PTL

(* A started transport is on the connection dialed last, and the Close of an
   older one never cancels its consumers. *)
THEOREM ClosesReachTheirOwn == Spec => []CurrentConnection
<1>1. IInv => CurrentConnection
  BY DEF IInv, ConnInv
<1>2. QED
  BY <1>1, Invariance, PTL

-----------------------------------------------------------------------------
(* The Close calls that have taken a connection and not drained t.pending yet. *)
Undrained(k) == closerPc[k] \in {"swapped", "cancelled", "wire_closed"}

(* No Close leaves a call behind: an Invoke that waits does so on the
   transport's own connection, or its waiter is closed, or a Close that has
   taken its connection is still to drain t.pending. *)
NoStrandedCall ==
    \A c \in Calls :
        pc[c] = "waiting" =>
            \/ c \in closed
            \/ started /\ chOf[c] = channel
            \/ \E k \in Closers : Undrained(k) /\ holds[k] = chOf[c]

(* An Invoke comes to wait only by a publish on a channel that is open: its
   connection is the transport's own, or held by a Close that has not closed
   the channel, and so has not drained either. *)
LEMMA WaitingBegins ==
  ASSUME IInv, LiveChannels, NoStrandedCall, NEW c \in Calls, Invoke(c)
  PROVE  NoStrandedCall'
<1> USE DEF NoStrandedCall, Undrained, closerVars
<1>0. pc \in [Calls -> Pcs] /\ chOf \in [Calls -> ConnsOrNil] /\ ConnInv
  BY DEF IInv, TypeOK
<1>1. CASE InvokeStart(c)
  BY <1>0, <1>1 DEF InvokeStart, Goto, AlreadyStarted, Dial, connVars, waiterVars
<1>2. CASE InvokeReadChannel(c)
  BY <1>0, <1>2 DEF InvokeReadChannel, Goto, connVars, waiterVars
<1>3. CASE InvokePublish(c)
  <2>1. chOf[c] \in connOpen
    BY <1>3 DEF InvokePublish, LiveChannels
  <2>2. \/ started /\ chOf[c] = channel
        \/ \E k \in Closers : Undrained(k) /\ holds[k] = chOf[c]
    BY <1>0, <2>1 DEF ConnInv, NoOrphanConnection, Closing
  <2>3. QED
    BY <1>0, <1>3, <2>2 DEF InvokePublish, Goto, connVars, waiterVars
<1>4. CASE ~(InvokeStart(c) \/ InvokeReadChannel(c) \/ InvokePublish(c))
  BY <1>0, <1>4
  DEF Invoke, InvokeStartFails, StartFails, InvokeNoChannel, InvokeEncodeFails,
      InvokeRegister, InvokePublishFails, InvokeReceive, InvokeReceiveNil, InvokeTimeout,
      InvokeCanceled, InvokeCleanup, Leave, Goto, connVars, waiterVars
<1>5. QED
  BY <1>1, <1>2, <1>3, <1>4

(* A Close takes over the calls of the connection it takes, and its last step
   closes the waiter of every call that waits. *)
LEMMA WaitingShutDown ==
  ASSUME IInv, NoStrandedCall, NEW k \in Closers, Close(k)
  PROVE  NoStrandedCall'
<1> USE DEF NoStrandedCall, Undrained, callVars, waiterVars, connVars
<1>0. closerPc \in [Closers -> CloserPcs] /\ holds \in [Closers -> ConnsOrNil]
  BY DEF IInv, ConnInv, ConnTypeOK
<1>1. CASE CloseNotStarted(k) /\ UNCHANGED <<waiterVars, callVars>>
  BY <1>0, <1>1 DEF CloseNotStarted
<1>2. CASE CloseSwap(k) /\ UNCHANGED <<waiterVars, callVars>>
  BY <1>0, <1>2 DEF CloseSwap
<1>3. CASE (CloseCancel(k) \/ CloseWire(k)) /\ UNCHANGED <<waiterVars, callVars>>
  BY <1>0, <1>3 DEF CloseCancel, CloseWire
<1>4. CASE CloseDrain(k)
  <2>1. \A c \in Calls : pc[c] = "waiting" => c \in closed \/ c \in pending
    BY DEF IInv, PendingExact, Registered
  <2>2. QED
    BY <1>4, <2>1 DEF CloseDrain
<1>5. QED
  BY <1>1, <1>2, <1>3, <1>4 DEF Close

(* No call is stranded by a Close, whatever connection it was issued on, at
   whatever point of its own the Close found it, and whatever reconnections and
   other Closes there were between: this is what CloseReleasesCalls needs, and
   it holds of every number of them. It rests on the order of Close, which
   closes the channel before it drains. *)
THEOREM NoCallIsStranded == Spec => []NoStrandedCall
<1>1. Init => IInv /\ LiveChannels /\ NoStrandedCall
  BY InitInv DEF Init, ConnInit, LiveChannels, NoStrandedCall
<1>2. ASSUME IInv, LiveChannels, NoStrandedCall, [Next]_vars
      PROVE  LiveChannels' /\ NoStrandedCall'
  <2> USE <1>2
  <2>1. LiveChannels'
    BY ConnSteps, LiveChannelsStep DEF IInv
  <2>2. ASSUME NEW g \in Conns, ConsumeReplies(g)
        PROVE  NoStrandedCall'
    BY <2>2
    DEF ConsumeReplies, DropReply, TakeReply, SendReply, LoopStops, NoStrandedCall, Undrained,
        closerVars, connVars, callVars, waiterVars
  <2>3. CASE Broker
    <3>1. pc' = pc /\ chOf' = chOf /\ closed' = closed /\ closerPc' = closerPc /\ holds' = holds
      BY <2>3 DEF Broker, ProviderReplies, ChannelLost, ConnectionLost, closerVars, callVars, waiterVars
    <3>2. UNCHANGED <<started, channel>>
      BY <2>3 DEF Broker, ProviderReplies, ChannelLost, ConnectionLost, connVars
    <3>3. QED
      BY <2>1, <3>1, <3>2 DEF NoStrandedCall, Undrained
  <2>4. CASE UNCHANGED vars
    BY <2>1, <2>4 DEF vars, NoStrandedCall, Undrained, closerVars, connVars, callVars, waiterVars
  <2>5. QED
    BY <2>1, <2>2, <2>3, <2>4, WaitingBegins, WaitingShutDown DEF Next, Finished
<1>3. QED
  BY <1>1, <1>2, Invariance, PTL DEF Spec

-----------------------------------------------------------------------------
(* An Invoke that succeeds with nothing, and a panic, come only of a Close that
   has taken a connection and come to its end. *)
HarmNeedsAClose ==
    panicked \/ (\E c \in Calls : outcome[c] = "nil_reply") =>
        \E k \in Closers : closerPc[k] = "returned" /\ holds[k] # Nil

(* What makes it inductive: waiters are closed by such a Close alone. *)
ClosedByClose ==
    /\ \A k \in Closers : Undrained(k) => holds[k] # Nil
    /\ closed # {} \/ panicked =>
        \E k \in Closers : closerPc[k] = "returned" /\ holds[k] # Nil

(* Only Close's drain closes waiters, and a panic is a send to a closed one. *)
LEMMA ClosedByCloseStep ==
  ASSUME IInv, ClosedByClose, [Next]_vars
  PROVE  ClosedByClose'
<1> USE DEF ClosedByClose, Undrained, closerVars, waiterVars
<1>0. closerPc \in [Closers -> CloserPcs] /\ holds \in [Closers -> ConnsOrNil]
  BY DEF IInv, ConnInv, ConnTypeOK
<1>1. ASSUME NEW c \in Calls, Invoke(c)
      PROVE  ClosedByClose'
  BY <1>1
  DEF Invoke, InvokeStart, InvokeStartFails, InvokeReadChannel, InvokeNoChannel,
      InvokeEncodeFails, InvokeRegister, InvokePublish, InvokePublishFails, InvokeReceive,
      InvokeReceiveNil, InvokeTimeout, InvokeCanceled, InvokeCleanup
<1>2. ASSUME NEW k \in Closers, Close(k)
      PROVE  ClosedByClose'
  <2>1. CASE CloseNotStarted(k) /\ UNCHANGED <<waiterVars, panicked>>
    BY <1>0, <2>1 DEF CloseNotStarted
  <2>2. CASE CloseSwap(k) /\ UNCHANGED <<waiterVars, panicked>>
    <3>1. channel # Nil
      BY <2>2 DEF CloseSwap, IInv, ConnInv, CurrentConnection
    <3>2. QED
      BY <1>0, <2>2, <3>1 DEF CloseSwap
  <2>3. CASE (CloseCancel(k) \/ CloseWire(k)) /\ UNCHANGED <<waiterVars, panicked>>
    BY <1>0, <2>3 DEF CloseCancel, CloseWire
  <2>4. CASE CloseDrain(k)
    BY <1>0, <2>4 DEF CloseDrain, CloseReturns
  <2>5. QED
    BY <1>2, <2>1, <2>2, <2>3, <2>4 DEF Close
<1>3. ASSUME NEW g \in Conns, ConsumeReplies(g)
      PROVE  ClosedByClose'
  BY <1>3 DEF ConsumeReplies, DropReply, TakeReply, SendReply, LoopStops
<1>4. CASE Broker
  <2>1. UNCHANGED <<closerPc, holds, closed, panicked>>
    BY <1>4 DEF Broker, ProviderReplies, ChannelLost, ConnectionLost
  <2>2. QED
    BY <2>1
<1>5. CASE UNCHANGED vars
  BY <1>5 DEF vars
<1>6. QED
  BY <1>1, <1>2, <1>3, <1>4, <1>5 DEF Next, Finished

(* The two ways in which Close does not keep its word, a nil reply without an
   error and a panic of the reply consumer, need a Close that found the
   transport started and has drained t.pending: no loss of a connection, no
   late or second reply and no reconnection brings them about. *)
THEOREM OnlyClosesHarm == Spec => []HarmNeedsAClose
<1>1. Init => ClosedByClose
  BY DEF Init, ConnInit, ClosedByClose, Undrained
<1>2. IInv /\ ClosedByClose /\ [Next]_vars => ClosedByClose'
  BY ClosedByCloseStep
<1>3. IInv /\ ClosedByClose => HarmNeedsAClose
  BY DEF IInv, Bookkeeping, ClosedByClose, HarmNeedsAClose
<1>4. QED
  BY <1>1, <1>2, <1>3, Invariance, PTL DEF Spec

-----------------------------------------------------------------------------
(* The first reply wins: what a waiter holds is only ever received. *)
THEOREM FirstReplyAlwaysWins == Spec => FirstReplyWins
<1>1. ASSUME IInv, Next, NEW c \in Calls, buffer[c] # {}
      PROVE  buffer'[c] \in {buffer[c], {}}
  <2> USE <1>1 DEF waiterVars
  <2>0. buffer \in [Calls -> Optional(Replies)]
    BY DEF IInv, TypeOK
  <2>1. ASSUME NEW d \in Calls, Invoke(d)
        PROVE  buffer'[c] \in {buffer[c], {}}
    BY <2>0, <2>1
    DEF Invoke, InvokeStart, InvokeStartFails, InvokeReadChannel, InvokeNoChannel,
        InvokeEncodeFails, InvokeRegister, InvokePublish, InvokePublishFails, InvokeReceive,
        InvokeReceiveNil, InvokeTimeout, InvokeCanceled, InvokeCleanup
  <2>2. ASSUME NEW k \in Closers, Close(k)
        PROVE  buffer'[c] \in {buffer[c], {}}
    BY <2>2 DEF Close, CloseDrain
  <2>3. ASSUME NEW g \in Conns, ConsumeReplies(g)
        PROVE  buffer'[c] \in {buffer[c], {}}
    BY <2>0, <2>3 DEF ConsumeReplies, DropReply, TakeReply, SendReply, LoopStops
  <2>4. CASE Broker
    BY <2>4 DEF Broker, ProviderReplies
  <2>5. CASE Finished
    BY <2>5 DEF Finished, vars
  <2>6. QED
    BY <2>1, <2>2, <2>3, <2>4, <2>5 DEF Next
<1>2. ASSUME IInv, [Next]_vars
      PROVE  [\A c \in Calls : buffer[c] # {} => buffer'[c] \in {buffer[c], {}}]_vars
  BY <1>1, <1>2
<1>3. QED
  BY <1>2, Invariance, PTL DEF Spec, FirstReplyWins

-----------------------------------------------------------------------------
(***************************************************************************)
(* The refinement.  Most steps move a call within its outstanding time and *)
(* are invisible to the contract; the others are its actions.              *)
(***************************************************************************)

(* The contract's view of the calls follows pc, outcome and result. *)
LEMMA ViewUnchanged ==
  ASSUME UNCHANGED <<pc, outcome, result>>
  PROVE  UNCHANGED <<Status, Outcome, Result>>
  BY DEF Status, Outcome, Result

(* A call that moves while it is outstanding looks the same. *)
LEMMA ViewOutstanding ==
  ASSUME CallTypeOK, NEW c \in Calls,
         NEW to \in Pcs,
         pc' = [pc EXCEPT ![c] = to],
         pc[c] \notin {"idle", "returned"}, to \notin {"idle", "returned"},
         \A d \in Calls : d # c => outcome'[d] = outcome[d] /\ result'[d] = result[d]
  PROVE  UNCHANGED <<Status, Outcome, Result>>
<1> USE DEF CallTypeOK
<1>1. ASSUME NEW d \in Calls
      PROVE  /\ pc'[d] = IF d = c THEN to ELSE pc[d]
             /\ d # c => outcome'[d] = outcome[d] /\ result'[d] = result[d]
  OBVIOUS
<1>2. UNCHANGED Status
  BY <1>1 DEF Status
<1>3. UNCHANGED Outcome
  BY <1>1 DEF Outcome
<1>4. UNCHANGED Result
  BY <1>1 DEF Result
<1>5. QED
  BY <1>2, <1>3, <1>4

(* A call that is issued becomes outstanding. *)
LEMMA ViewIssued ==
  ASSUME CallTypeOK, NEW c \in Calls,
         pc' = [pc EXCEPT ![c] = "channel"], pc[c] = "idle",
         UNCHANGED <<outcome, result>>
  PROVE  Status' = [Status EXCEPT ![c] = "outstanding"] /\ UNCHANGED <<Outcome, Result>>
<1> USE DEF CallTypeOK
<1>1. \A d \in Calls : pc'[d] = IF d = c THEN "channel" ELSE pc[d]
  OBVIOUS
<1>2. Status' = [Status EXCEPT ![c] = "outstanding"]
  BY <1>1 DEF Status
<1>3. UNCHANGED Outcome
  BY <1>1 DEF Outcome
<1>4. UNCHANGED Result
  BY <1>1 DEF Result
<1>5. QED
  BY <1>2, <1>3, <1>4

(* A call that returns shows its outcome and its result. *)
LEMMA ViewReturned ==
  ASSUME CallTypeOK, NEW c \in Calls, NEW o,
         pc' = [pc EXCEPT ![c] = "returned"], pc[c] # "returned",
         outcome'[c] = o,
         \A d \in Calls : d # c => outcome'[d] = outcome[d],
         UNCHANGED result
  PROVE  /\ Status[c] # "returned"
         /\ Status' = [Status EXCEPT ![c] = "returned"]
         /\ Outcome' = [Outcome EXCEPT ![c] = o]
         /\ Result' = [Result EXCEPT ![c] = result[c]]
         /\ Result[c] = {}
<1> USE DEF CallTypeOK
<1>1. \A d \in Calls : pc'[d] = IF d = c THEN "returned" ELSE pc[d]
  OBVIOUS
<1>2. Status[c] # "returned" /\ Status' = [Status EXCEPT ![c] = "returned"]
  BY <1>1 DEF Status
<1>3. Outcome' = [Outcome EXCEPT ![c] = o]
  BY <1>1 DEF Outcome
<1>4. Result' = [Result EXCEPT ![c] = result[c]] /\ Result[c] = {}
  BY <1>1 DEF Result
<1>5. QED
  BY <1>2, <1>3, <1>4

(* The initial states are initial states of the contract. *)
LEMMA InitRefines == Init => Contract!Init
  BY DEF Init, Contract!Init, Status, Outcome, Result

(* A step of an Invoke issues its call, returns it, or is not seen. *)
LEMMA InvokeRefines ==
  ASSUME CallInv, ~panicked, NEW c \in Calls, Invoke(c)
  PROVE  [Contract!Next]_(Contract!vars)
<1> USE DEF CallInv, Goto, Leave
<1>1. CASE InvokeStart(c)
  <2>1. Status' = [Status EXCEPT ![c] = "outstanding"] /\ UNCHANGED <<Outcome, Result>>
    BY <1>1, ViewIssued DEF InvokeStart
  <2>2. Status[c] = "idle"
    BY <1>1 DEF InvokeStart, Status
  <2>3. UNCHANGED <<sent, closed, panicked>>
    BY <1>1 DEF InvokeStart, brokerVars, waiterVars
  <2>4. Contract!Issue(c)
    BY <2>1, <2>2, <2>3 DEF Contract!Issue
  <2>5. QED
    BY <2>4 DEF Contract!Next
<1>2. CASE InvokeStartFails(c) \/ InvokeNoChannel(c) \/ InvokeEncodeFails(c)
  <2>1. /\ pc' = [pc EXCEPT ![c] = "returned"]
        /\ pc[c] \in {"idle", "channel", "register"}
        /\ outcome' = [outcome EXCEPT ![c] = "transport_error"]
        /\ UNCHANGED <<result, sent, closed, panicked>>
    BY <1>2 DEF InvokeStartFails, InvokeNoChannel, InvokeEncodeFails, brokerVars, waiterVars
  <2>2. result[c] = {}
    BY <2>1 DEF Bookkeeping
  <2>3. /\ Status[c] # "returned"
        /\ Status' = [Status EXCEPT ![c] = "returned"]
        /\ Outcome' = [Outcome EXCEPT ![c] = "transport_error"]
        /\ Result' = [Result EXCEPT ![c] = result[c]]
        /\ Result[c] = {}
    BY <2>1, ViewReturned DEF CallTypeOK
  <2>4. UNCHANGED Result
    BY <2>2, <2>3 DEF Result
  <2>5. Contract!ReturnError(c)
    BY <2>1, <2>3, <2>4 DEF Contract!ReturnError, Contract!Return, Contract!Errors
  <2>6. QED
    BY <2>5 DEF Contract!Next
<1>3. CASE InvokeCleanup(c)
  <2>1. /\ pc' = [pc EXCEPT ![c] = "returned"]
        /\ pc[c] = "cleanup"
        /\ UNCHANGED <<outcome, result, sent, closed, panicked>>
    BY <1>3 DEF InvokeCleanup, brokerVars
  <2>2. /\ Status[c] # "returned"
        /\ Status' = [Status EXCEPT ![c] = "returned"]
        /\ Outcome' = [Outcome EXCEPT ![c] = outcome[c]]
        /\ Result' = [Result EXCEPT ![c] = result[c]]
        /\ Result[c] = {}
    BY <2>1, ViewReturned
  <2>3. outcome[c] \in Outcomes /\ outcome[c] # "none"
    BY <2>1 DEF Bookkeeping, CallTypeOK
  <2>4. outcome[c] # "reply" => UNCHANGED Result
    <3>1. outcome[c] # "reply" => result[c] = {}
      BY DEF Bookkeeping
    <3>2. QED
      BY <2>2, <3>1 DEF Result
  <2>5. CASE outcome[c] = "reply"
    <3>1. PICK a \in Replies : result[c] = {a}
      BY <2>5 DEF Bookkeeping, CallTypeOK, Optional
    <3>2. a \in sent /\ Contract!CallOf(a) = c
      BY <3>1 DEF CorrelatedReply, CallOf, Contract!CallOf
    <3>3. Contract!ReturnReply(c)
      BY <2>1, <2>2, <2>5, <3>1, <3>2 DEF Contract!ReturnReply, Contract!Return
    <3>4. QED
      BY <3>3 DEF Contract!Next
  <2>6. CASE outcome[c] = "nil_reply"
    <3>1. c \in closed
      BY <2>6 DEF Bookkeeping
    <3>2. Contract!ReturnNothing(c)
      BY <2>1, <2>2, <2>4, <2>6, <3>1 DEF Contract!ReturnNothing, Contract!Return
    <3>3. QED
      BY <3>2 DEF Contract!Next
  <2>7. CASE outcome[c] \in {"timeout", "canceled", "transport_error"}
    <3>1. Contract!ReturnError(c)
      BY <2>1, <2>2, <2>4, <2>7 DEF Contract!ReturnError, Contract!Return, Contract!Errors
    <3>2. QED
      BY <3>1 DEF Contract!Next
  <2>8. QED
    BY <2>3, <2>5, <2>6, <2>7 DEF Outcomes
<1>4. CASE \/ InvokeReadChannel(c) \/ InvokeRegister(c)
           \/ InvokePublish(c) \/ InvokePublishFails(c)
           \/ InvokeReceive(c) \/ InvokeReceiveNil(c) \/ InvokeTimeout(c) \/ InvokeCanceled(c)
  <2> USE DEF InvokeReadChannel, InvokeRegister, InvokePublish, InvokePublishFails,
              InvokeReceive, InvokeReceiveNil, InvokeTimeout, InvokeCanceled,
              waiterVars, brokerVars
  <2>1. PICK to \in {"register", "publish", "waiting", "cleanup"} :
          /\ pc' = [pc EXCEPT ![c] = to]
          /\ pc[c] \notin {"idle", "returned"}
    BY <1>4
  <2>2. \A d \in Calls : d # c => outcome'[d] = outcome[d] /\ result'[d] = result[d]
    BY <1>4 DEF CallTypeOK
  <2>3. UNCHANGED <<Status, Outcome, Result>>
    BY <2>1, <2>2, ViewOutstanding DEF Pcs
  <2>4. UNCHANGED <<sent, closed, panicked>>
    BY <1>4
  <2>5. QED
    BY <2>3, <2>4 DEF Contract!vars
<1>5. QED
  BY <1>1, <1>2, <1>3, <1>4 DEF Invoke

(* The drain of a Close shuts down the calls that are registered; the other
   steps of Close are not seen. *)
LEMMA CloseRefines ==
  ASSUME CallInv, panicked = FALSE, ~panicked, NEW k \in Closers, Close(k)
  PROVE  [Contract!Next]_(Contract!vars)
<1>1. CASE CloseDrain(k)
  <2>1. UNCHANGED <<pc, outcome, result, sent>>
    BY <1>1 DEF CloseDrain, callVars, brokerVars
  <2>2. UNCHANGED <<Status, Outcome, Result>>
    BY <2>1, ViewUnchanged
  <2>3. closed' = closed \cup pending /\ panicked' = panicked
    <3>1. pending \cap closed = {}
      BY DEF CallInv, PendingExact
    <3>2. panicked' = FALSE
      BY <1>1, <3>1 DEF CloseDrain
    <3>3. QED
      BY <1>1, <3>2 DEF CloseDrain
  <2>4. pending \in SUBSET Calls
    BY DEF CallInv, CallTypeOK
  <2>5. \A c \in pending : Status[c] = "outstanding" /\ c \notin closed
    BY DEF CallInv, CallTypeOK, PendingExact, Registered, Status
  <2>6. Contract!Shutdown(pending)
    BY <2>1, <2>2, <2>3, <2>5 DEF Contract!Shutdown
  <2>7. QED
    BY <2>4, <2>6 DEF Contract!Next
<1>2. CASE UNCHANGED <<waiterVars, callVars, brokerVars, loopVars, panicked>>
  <2>1. UNCHANGED <<pc, outcome, result, sent, closed, panicked>>
    BY <1>2 DEF waiterVars, callVars, brokerVars
  <2>2. QED
    BY <2>1, ViewUnchanged DEF Contract!vars
<1>3. QED
  BY <1>1, <1>2 DEF Close

(* The reply consumer is not seen, until it sends on a closed waiter. *)
LEMMA ConsumeRepliesRefines ==
  ASSUME CallInv, ~panicked, NEW g \in Conns, ConsumeReplies(g)
  PROVE  [Contract!Next]_(Contract!vars)
<1>1. UNCHANGED <<pc, outcome, result, sent, closed>>
  BY DEF ConsumeReplies, DropReply, TakeReply, SendReply, LoopStops, callVars, waiterVars,
         brokerVars
<1>2. UNCHANGED <<Status, Outcome, Result>>
  BY <1>1, ViewUnchanged
<1>3. CASE SendReply(g)
  <2>1. PICK c \in Calls, r \in Replies :
          /\ hand[g] = {<<c, r>>}
          /\ (c \in closed /\ panicked' = TRUE) \/ UNCHANGED panicked
    BY <1>3 DEF SendReply
  <2>2. CASE c \in closed /\ panicked' = TRUE
    <3>1. <<c, r>> \in hand[g]
      BY <2>1
    <3>2. r \in sent /\ Contract!CallOf(r) = c
      BY <3>1 DEF CallInv, CorrelatedReply, CallOf, Contract!CallOf
    <3>3. Contract!Crash
      BY <1>1, <1>2, <2>2, <3>2 DEF Contract!Crash
    <3>4. QED
      BY <3>3 DEF Contract!Next
  <2>3. CASE UNCHANGED panicked
    BY <1>1, <1>2, <2>3 DEF Contract!vars
  <2>4. QED
    BY <2>1, <2>2, <2>3
<1>4. CASE ~SendReply(g)
  <2>1. UNCHANGED panicked
    BY <1>4 DEF ConsumeReplies, DropReply, TakeReply, LoopStops
  <2>2. QED
    BY <1>1, <1>2, <2>1 DEF Contract!vars
<1>5. QED
  BY <1>3, <1>4

(* Providers answer calls that are outstanding, or have returned. *)
LEMMA BrokerRefines ==
  ASSUME CallInv, ~panicked, Broker
  PROVE  [Contract!Next]_(Contract!vars)
<1>1. CASE \E r \in Replies : ProviderReplies(r)
  <2>1. PICK r \in Replies : ProviderReplies(r)
    BY <1>1
  <2>2. UNCHANGED <<pc, outcome, result, closed, panicked>>
    BY <2>1 DEF ProviderReplies, callVars, waiterVars
  <2>3. UNCHANGED <<Status, Outcome, Result>>
    BY <2>2, ViewUnchanged
  <2>4. Status[Contract!CallOf(r)] # "idle"
    BY <2>1 DEF ProviderReplies, CallInv, CallTypeOK, Bookkeeping, Begun, Status, CallOf,
                Contract!CallOf, Replies
  <2>5. Contract!Answer(r)
    BY <2>1, <2>2, <2>3, <2>4 DEF ProviderReplies, Contract!Answer
  <2>6. QED
    BY <2>5 DEF Contract!Next, Contract!Replies, Replies
<1>2. CASE UNCHANGED <<waiterVars, callVars, brokerVars, loopVars, panicked>>
  <2>1. UNCHANGED <<pc, outcome, result, sent, closed, panicked>>
    BY <1>2 DEF waiterVars, callVars, brokerVars
  <2>2. QED
    BY <2>1, ViewUnchanged DEF Contract!vars
<1>3. QED
  BY <1>1, <1>2 DEF Broker

(* Every step is a step of the contract or is not seen by it. *)
LEMMA NextRefines ==
  ASSUME IInv, [Next]_vars
  PROVE  [Contract!Next]_(Contract!vars)
<1>1. CallInv /\ panicked \in BOOLEAN
  BY IInvParts
<1>2. CASE Finished \/ UNCHANGED vars
  <2>1. UNCHANGED <<pc, outcome, result, sent, closed, panicked>>
    BY <1>2 DEF Finished, vars, callVars, waiterVars, brokerVars
  <2>2. QED
    BY <2>1, ViewUnchanged DEF Contract!vars
<1>3. CASE ~panicked
  <2>1. panicked = FALSE
    BY <1>1, <1>3
  <2>2. QED
    BY <1>1, <1>2, <1>3, <2>1, InvokeRefines, CloseRefines, ConsumeRepliesRefines, BrokerRefines
    DEF Next
<1>4. QED
  BY <1>2, <1>3 DEF Next

(* Invoke over connections, waiters and goroutines implements the contract,
   for any number of calls, replies, connections and Closes. *)
THEOREM Implementation == Spec => ImplementsContract
<1>1. IInv /\ [Next]_vars => [Contract!Next]_(Contract!vars)
  BY NextRefines
<1>2. QED
  BY InitRefines, <1>1, Invariance, PTL DEF Spec, ImplementsContract, Contract!Spec
=============================================================================
