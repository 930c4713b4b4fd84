-------------------------- MODULE ConnectionProofs --------------------------
(***************************************************************************)
(* The broker connection of the transport, for any number of connections   *)
(* and of Close calls: every step of t's connection fields keeps ConnInv.  *)
(* The modules that put these steps into the actions of their callers cite *)
(* the lemmas for the part of their invariants that is about them.         *)
(*                                                                         *)
(* t.started is a Boolean and the rest is arithmetic on generations: the   *)
(* type of t.started has a step of its own throughout.                     *)
(***************************************************************************)
EXTENDS Connection, TLAPS

(* The types of everything but t.started. *)
ConnNumbersOK ==
    /\ dialed \in ConnsOrNil
    /\ channel \in ConnsOrNil
    /\ chOpen \subseteq Conns
    /\ connOpen \subseteq Conns
    /\ cancelled \subseteq Conns
    /\ closerPc \in [Closers -> CloserPcs]
    /\ holds \in [Closers -> ConnsOrNil]

(* A transport that has never been started has no connection. *)
LEMMA ConnInitInv == ConnInit => ConnInv
<1> SUFFICES ASSUME ConnInit
             PROVE  ConnInv
  OBVIOUS
<1> USE MaxConnsAssumption DEF ConnInit, Nil, Conns, ConnsOrNil, CloserPcs
<1>1. started \in BOOLEAN
  OBVIOUS
<1>2. ConnNumbersOK
  BY DEF ConnNumbersOK
<1>3. NoOrphanConnection
  BY DEF NoOrphanConnection
<1>4. CurrentConnection
  BY DEF CurrentConnection
<1>5. HeldConnections
  BY DEF HeldConnections
<1>6. QED
  BY <1>1, <1>2, <1>3, <1>4, <1>5 DEF ConnInv, ConnTypeOK, ConnNumbersOK

(* A Start that changes nothing. *)
LEMMA StartStep ==
  ASSUME ConnInv, (AlreadyStarted \/ StartFails) /\ UNCHANGED closerVars
  PROVE  ConnInv'
<1> USE MaxConnsAssumption
    DEF ConnInv, ConnTypeOK, CurrentConnection, HeldConnections, AlreadyStarted, StartFails,
        connVars, closerVars, Nil, Conns, ConnsOrNil, CloserPcs, Closing
<1>1. started' \in BOOLEAN
  OBVIOUS
<1>2. ConnNumbersOK'
  BY DEF ConnNumbersOK
<1>3. NoOrphanConnection'
  BY DEF NoOrphanConnection
<1>4. CurrentConnection'
  OBVIOUS
<1>5. cancelled' \subseteq 1..dialed'
  OBVIOUS
<1>6. ASSUME NEW j \in Closers
      PROVE  /\ holds'[j] \in 0..dialed'
             /\ closerPc'[j] = "swapped" => holds'[j] # Nil
             /\ started' => holds'[j] # channel'
  BY <1>6
<1>7. HeldConnections'
  BY <1>5, <1>6
<1>8. QED
  BY <1>1, <1>2, <1>3, <1>4, <1>7 DEF ConnNumbersOK

(* Start connects: no older connection is left, except with a Close. *)
LEMMA DialStep ==
  ASSUME ConnInv, Dial /\ UNCHANGED closerVars
  PROVE  ConnInv'
<1> USE MaxConnsAssumption
    DEF ConnInv, ConnTypeOK, CurrentConnection, HeldConnections, Dial,
        connVars, closerVars, Nil, Conns, ConnsOrNil, CloserPcs, Closing
<1>1. started' \in BOOLEAN
  OBVIOUS
<1>2. ConnNumbersOK'
  BY DEF ConnNumbersOK
<1>3. NoOrphanConnection'
  BY DEF NoOrphanConnection
<1>4. CurrentConnection'
  OBVIOUS
<1>5. cancelled' \subseteq 1..dialed'
  OBVIOUS
<1>6. ASSUME NEW j \in Closers
      PROVE  /\ holds'[j] \in 0..dialed'
             /\ closerPc'[j] = "swapped" => holds'[j] # Nil
             /\ started' => holds'[j] # channel'
  BY <1>6
<1>7. HeldConnections'
  BY <1>5, <1>6
<1>8. QED
  BY <1>1, <1>2, <1>3, <1>4, <1>7 DEF ConnNumbersOK

(* A Close with nothing to close. *)
LEMMA CloseNotStartedStep ==
  ASSUME ConnInv, NEW k \in Closers, CloseNotStarted(k)
  PROVE  ConnInv'
<1> USE MaxConnsAssumption
    DEF ConnInv, ConnTypeOK, CurrentConnection, HeldConnections, CloseNotStarted,
        connVars, closerVars, Nil, Conns, ConnsOrNil, CloserPcs, Closing
<1>1. started' \in BOOLEAN
  OBVIOUS
<1>2. ConnNumbersOK'
  BY DEF ConnNumbersOK
<1>3. NoOrphanConnection'
  BY DEF NoOrphanConnection
<1>4. CurrentConnection'
  OBVIOUS
<1>5. cancelled' \subseteq 1..dialed'
  OBVIOUS
<1>6. ASSUME NEW j \in Closers
      PROVE  /\ holds'[j] \in 0..dialed'
             /\ closerPc'[j] = "swapped" => holds'[j] # Nil
             /\ started' => holds'[j] # channel'
  BY <1>6
<1>7. HeldConnections'
  BY <1>5, <1>6
<1>8. QED
  BY <1>1, <1>2, <1>3, <1>4, <1>7 DEF ConnNumbersOK

(* Close takes the connection out of t and becomes answerable for it. *)
LEMMA CloseSwapStep ==
  ASSUME ConnInv, NEW k \in Closers, CloseSwap(k)
  PROVE  ConnInv'
<1> USE MaxConnsAssumption
    DEF ConnInv, ConnTypeOK, CurrentConnection, HeldConnections, CloseSwap,
        connVars, closerVars, Nil, Conns, ConnsOrNil, CloserPcs, Closing
<1>1. started' \in BOOLEAN
  OBVIOUS
<1>2. ConnNumbersOK'
  BY DEF ConnNumbersOK
<1>3. NoOrphanConnection'
  BY DEF NoOrphanConnection
<1>4. CurrentConnection'
  OBVIOUS
<1>5. cancelled' \subseteq 1..dialed'
  OBVIOUS
<1>6. ASSUME NEW j \in Closers
      PROVE  /\ holds'[j] \in 0..dialed'
             /\ closerPc'[j] = "swapped" => holds'[j] # Nil
             /\ started' => holds'[j] # channel'
  BY <1>6
<1>7. HeldConnections'
  BY <1>5, <1>6
<1>8. QED
  BY <1>1, <1>2, <1>3, <1>4, <1>7 DEF ConnNumbersOK

(* Close cancels the context of the connection it holds, never the current one. *)
LEMMA CloseCancelStep ==
  ASSUME ConnInv, NEW k \in Closers, CloseCancel(k)
  PROVE  ConnInv'
<1>1. holds[k] \in 1..dialed
  <2>1. holds[k] \in 0..dialed
    BY DEF ConnInv, HeldConnections
  <2>2. holds[k] # 0
    BY DEF ConnInv, HeldConnections, CloseCancel, Nil
  <2>3. QED
    BY <2>1, <2>2
<1>2. started => holds[k] # channel
  BY DEF ConnInv, HeldConnections
<1>3. /\ closerPc' = [closerPc EXCEPT ![k] = "cancelled"]
      /\ cancelled' = cancelled \cup {holds[k]}
      /\ UNCHANGED <<dialed, started, channel, chOpen, connOpen, holds>>
  BY DEF CloseCancel
<1>4. started' \in BOOLEAN
  BY <1>3 DEF ConnInv, ConnTypeOK
<1>5. ConnNumbersOK'
  <2>1. dialed \in 0..MaxConns
    BY DEF ConnInv, ConnTypeOK, ConnsOrNil
  <2>2. holds[k] \in 1..MaxConns
    BY <1>1, <2>1, MaxConnsAssumption
  <2>3. QED
    BY <1>3, <2>2 DEF ConnInv, ConnTypeOK, ConnNumbersOK, Conns, CloserPcs
<1>6. NoOrphanConnection'
  <2>1. \A j \in Closers : Closing(j) => Closing(j)' /\ holds'[j] = holds[j]
    BY <1>3 DEF ConnInv, ConnTypeOK, Closing
  <2>2. QED
    BY <2>1, <1>3, Zenon DEF ConnInv, NoOrphanConnection
<1>7. CurrentConnection'
  <2>1. CurrentConnection
    BY DEF ConnInv
  <2>2. QED
    BY <1>2, <1>3, <2>1 DEF CurrentConnection
<1>8. HeldConnections'
  <2>1. \A j \in Closers : closerPc'[j] = "swapped" => closerPc[j] = "swapped"
    BY <1>3 DEF ConnInv, ConnTypeOK
  <2>2. cancelled' \subseteq 1..dialed'
    BY <1>1, <1>3 DEF ConnInv, HeldConnections
  <2>3. ASSUME NEW j \in Closers
        PROVE  /\ holds'[j] \in 0..dialed'
               /\ closerPc'[j] = "swapped" => holds'[j] # Nil
               /\ started' => holds'[j] # channel'
    <3>1. holds' = holds /\ dialed' = dialed /\ started' = started /\ channel' = channel
      BY <1>3
    <3>2. /\ holds[j] \in 0..dialed
          /\ closerPc[j] = "swapped" => holds[j] # Nil
          /\ started => holds[j] # channel
      BY DEF ConnInv, HeldConnections
    <3>3. QED
      BY <2>1, <3>1, <3>2, Zenon
  <2>4. QED
    BY <2>2, <2>3, Zenon DEF HeldConnections
<1>9. QED
  BY <1>4, <1>5, <1>6, <1>7, <1>8 DEF ConnInv, ConnTypeOK, ConnNumbersOK

(* Close closes the connection it holds. *)
LEMMA CloseWireStep ==
  ASSUME ConnInv, NEW k \in Closers, CloseWire(k)
  PROVE  ConnInv'
<1> USE MaxConnsAssumption
    DEF ConnInv, ConnTypeOK, CurrentConnection, HeldConnections, CloseWire,
        connVars, closerVars, Nil, Conns, ConnsOrNil, CloserPcs, Closing
<1>1. started' \in BOOLEAN
  OBVIOUS
<1>2. ConnNumbersOK'
  BY DEF ConnNumbersOK
<1>3. NoOrphanConnection'
  BY DEF NoOrphanConnection
<1>4. CurrentConnection'
  OBVIOUS
<1>5. cancelled' \subseteq 1..dialed'
  OBVIOUS
<1>6. ASSUME NEW j \in Closers
      PROVE  /\ holds'[j] \in 0..dialed'
             /\ closerPc'[j] = "swapped" => holds'[j] # Nil
             /\ started' => holds'[j] # channel'
  BY <1>6
<1>7. HeldConnections'
  BY <1>5, <1>6
<1>8. QED
  BY <1>1, <1>2, <1>3, <1>4, <1>7 DEF ConnNumbersOK

(* Close returns. *)
LEMMA CloseReturnsStep ==
  ASSUME ConnInv, NEW k \in Closers, CloseReturns(k)
  PROVE  ConnInv'
<1> USE MaxConnsAssumption
    DEF ConnInv, ConnTypeOK, CurrentConnection, HeldConnections, CloseReturns,
        connVars, closerVars, Nil, Conns, ConnsOrNil, CloserPcs, Closing
<1>1. started' \in BOOLEAN
  OBVIOUS
<1>2. ConnNumbersOK'
  BY DEF ConnNumbersOK
<1>3. NoOrphanConnection'
  BY DEF NoOrphanConnection
<1>4. CurrentConnection'
  OBVIOUS
<1>5. cancelled' \subseteq 1..dialed'
  OBVIOUS
<1>6. ASSUME NEW j \in Closers
      PROVE  /\ holds'[j] \in 0..dialed'
             /\ closerPc'[j] = "swapped" => holds'[j] # Nil
             /\ started' => holds'[j] # channel'
  BY <1>6
<1>7. HeldConnections'
  BY <1>5, <1>6
<1>8. QED
  BY <1>1, <1>2, <1>3, <1>4, <1>7 DEF ConnNumbersOK

(* A channel or a connection is lost. *)
LEMMA BrokerStep ==
  ASSUME ConnInv, NEW g \in Conns, ChannelLost(g) \/ ConnectionLost(g)
  PROVE  ConnInv'
<1> USE MaxConnsAssumption
    DEF ConnInv, ConnTypeOK, CurrentConnection, HeldConnections, ChannelLost, ConnectionLost,
        connVars, closerVars, Nil, Conns, ConnsOrNil, CloserPcs, Closing
<1>1. started' \in BOOLEAN
  OBVIOUS
<1>2. ConnNumbersOK'
  BY DEF ConnNumbersOK
<1>3. NoOrphanConnection'
  BY DEF NoOrphanConnection
<1>4. CurrentConnection'
  OBVIOUS
<1>5. cancelled' \subseteq 1..dialed'
  OBVIOUS
<1>6. ASSUME NEW j \in Closers
      PROVE  /\ holds'[j] \in 0..dialed'
             /\ closerPc'[j] = "swapped" => holds'[j] # Nil
             /\ started' => holds'[j] # channel'
  BY <1>6
<1>7. HeldConnections'
  BY <1>5, <1>6
<1>8. QED
  BY <1>1, <1>2, <1>3, <1>4, <1>7 DEF ConnNumbersOK

(* Every step of Start, of Close and of the broker keeps the invariant. *)
LEMMA ConnStep ==
  ASSUME ConnInv, ConnNext
  PROVE  ConnInv'
  BY StartStep, DialStep, CloseNotStartedStep, CloseSwapStep, CloseCancelStep, CloseWireStep,
     CloseReturnsStep, BrokerStep
  DEF ConnNext

(* A step of something else keeps it, too. *)
LEMMA ConnStutter ==
  ASSUME ConnInv, UNCHANGED <<connVars, closerVars>>
  PROVE  ConnInv'
  BY DEF ConnInv, ConnTypeOK, NoOrphanConnection, CurrentConnection, HeldConnections,
         connVars, closerVars, Closing

(* A live channel's connection is open, and its consumer context is cancelled
   only by a Close that is about to close the channel. *)
LiveChannels ==
    /\ chOpen \subseteq connOpen
    /\ \A g \in chOpen \cap cancelled :
        \E k \in Closers : closerPc[k] = "cancelled" /\ holds[k] = g

(* A context is cancelled by the Close that holds its connection, which stays
   in "cancelled" until it has closed the channel. *)
LEMMA LiveChannelsStep ==
  ASSUME ConnInv, LiveChannels, ConnNext \/ UNCHANGED <<connVars, closerVars>>
  PROVE  LiveChannels'
<1> USE DEF LiveChannels, connVars, closerVars
<1>1. CASE (AlreadyStarted \/ StartFails) /\ UNCHANGED closerVars
  BY <1>1 DEF AlreadyStarted, StartFails
<1>2. CASE Dial /\ UNCHANGED closerVars
  BY <1>2 DEF Dial, ConnInv, HeldConnections, ConnTypeOK, ConnsOrNil
<1>3. ASSUME NEW k \in Closers, CloseNotStarted(k) \/ CloseReturns(k) \/ CloseSwap(k)
      PROVE LiveChannels'
  BY <1>3 DEF CloseNotStarted, CloseReturns, CloseSwap, ConnInv, ConnTypeOK
<1>4. ASSUME NEW k \in Closers, CloseCancel(k)
      PROVE LiveChannels'
  BY <1>4 DEF CloseCancel, ConnInv, ConnTypeOK
<1>5. ASSUME NEW k \in Closers, CloseWire(k)
      PROVE LiveChannels'
  BY <1>5 DEF CloseWire, ConnInv, ConnTypeOK
<1>6. ASSUME NEW g \in Conns, ChannelLost(g) \/ ConnectionLost(g)
      PROVE LiveChannels'
  BY <1>6 DEF ChannelLost, ConnectionLost
<1>7. CASE UNCHANGED <<connVars, closerVars>>
  BY <1>7
<1>8. QED
  BY <1>1, <1>2, <1>3, <1>4, <1>5, <1>6, <1>7 DEF ConnNext

(* Generations only grow. *)
LEMMA DialedGrows ==
  ASSUME ConnInv, ConnNext \/ UNCHANGED <<connVars, closerVars>>
  PROVE  dialed \in Nat /\ dialed' \in Nat /\ dialed <= dialed'
  BY MaxConnsAssumption
  DEF ConnInv, ConnTypeOK, ConnsOrNil, connVars, ConnNext, AlreadyStarted, Dial, StartFails,
      CloseNotStarted, CloseSwap, CloseCancel, CloseWire, CloseReturns, ChannelLost, ConnectionLost
=============================================================================
