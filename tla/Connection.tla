----------------------------- MODULE Connection -----------------------------
(***************************************************************************)
(* The broker connection of rabbitMQTransport (rabbitmq.go): the fields    *)
(* guarded by t.mu, Start, and the part of Close that tears a connection   *)
(* down.                                                                   *)
(*                                                                         *)
(* Start assigns t.conn, t.ch, t.consumerCtx and t.consumerCancel in one   *)
(* critical section and Close clears them in one critical section, so one  *)
(* number, the generation of the connection, stands for all four; Nil is   *)
(* Go's nil.  Generations are numbered in the order they are dialed.       *)
(*                                                                         *)
(* This module has no Next: the modules that EXTEND it put its operators   *)
(* into the actions of the callers of Start and Close.                     *)
(***************************************************************************)
EXTENDS Naturals

CONSTANTS
    MaxConns,   \* bound: how many connections may be dialed
    Closers     \* the calls of (*rabbitMQTransport).Close

ASSUME MaxConnsAssumption == MaxConns \in Nat \ {0}

Nil == 0
Conns == 1..MaxConns
ConnsOrNil == 0..MaxConns

VARIABLES
    dialed,     \* how many connections were dialed: the last generation
    started,    \* t.started
    channel,    \* t.ch (and t.conn, t.consumerCtx, t.consumerCancel)
    chOpen,     \* connections whose AMQP channel the broker still serves
    connOpen,   \* connections whose TCP connection is still open
    cancelled,  \* connections whose consumerCtx is cancelled
    closerPc,   \* where each Close call is
    holds       \* the connection a Close call took out of t

connVars == <<dialed, started, channel, chOpen, connOpen, cancelled>>
closerVars == <<closerPc, holds>>

CloserPcs == {"idle", "swapped", "cancelled", "wire_closed", "returned"}

ConnTypeOK ==
    /\ started \in BOOLEAN
    /\ dialed \in ConnsOrNil
    /\ channel \in ConnsOrNil
    /\ chOpen \subseteq Conns
    /\ connOpen \subseteq Conns
    /\ cancelled \subseteq Conns
    /\ closerPc \in [Closers -> CloserPcs]
    /\ holds \in [Closers -> ConnsOrNil]

ConnInit ==
    /\ dialed = 0
    /\ started = FALSE
    /\ channel = Nil
    /\ chOpen = {}
    /\ connOpen = {}
    /\ cancelled = {}
    /\ closerPc = [k \in Closers |-> "idle"]
    /\ holds = [k \in Closers |-> Nil]

-----------------------------------------------------------------------------
(***************************************************************************)
(* Start, under t.mu for its whole length, so one step.  It returns at     *)
(* once on a started transport; otherwise it dials, opens the channel and  *)
(* installs both, or fails and leaves no connection behind (every error    *)
(* path after the dial closes the connection it opened).                   *)
(***************************************************************************)
AlreadyStarted ==
    /\ started
    /\ UNCHANGED connVars

(* MUTATION: Start without the check of t.started. *)
DialAgain ==
    /\ dialed < MaxConns
    /\ dialed' = dialed + 1
    /\ channel' = dialed + 1
    /\ chOpen' = chOpen \cup {dialed + 1}
    /\ connOpen' = connOpen \cup {dialed + 1}
    /\ started' = TRUE
    /\ UNCHANGED cancelled

Dial ==
    /\ ~started
    /\ dialed < MaxConns
    /\ dialed' = dialed + 1
    /\ channel' = dialed + 1
    /\ chOpen' = chOpen \cup {dialed + 1}
    /\ connOpen' = connOpen \cup {dialed + 1}
    /\ started' = TRUE
    /\ UNCHANGED cancelled

StartFails ==
    /\ ~started
    /\ UNCHANGED connVars

-----------------------------------------------------------------------------
(* Close on a transport that is not started returns before it does anything. *)
CloseNotStarted(k) ==
    /\ closerPc[k] = "idle"
    /\ ~started
    /\ closerPc' = [closerPc EXCEPT ![k] = "returned"]
    /\ UNCHANGED <<connVars, holds>>

(* The critical section of Close: the connection is taken out of t, which
   may be started again as soon as t.mu is released. *)
CloseSwap(k) ==
    /\ closerPc[k] = "idle"
    /\ started
    /\ closerPc' = [closerPc EXCEPT ![k] = "swapped"]
    /\ holds' = [holds EXCEPT ![k] = channel]
    /\ channel' = Nil
    /\ started' = FALSE
    /\ UNCHANGED <<dialed, chOpen, connOpen, cancelled>>

(* MUTATION: Close cancels whatever consumer context t holds by now, not the
   one it took in its critical section. *)
CancelCurrent(k) ==
    /\ closerPc[k] = "swapped"
    /\ closerPc' = [closerPc EXCEPT ![k] = "cancelled"]
    /\ cancelled' = cancelled \cup ({channel} \ {Nil})
    /\ UNCHANGED <<dialed, started, channel, chOpen, connOpen, holds>>

(* cancel() of the connection's consumer context. *)
CloseCancel(k) ==
    /\ closerPc[k] = "swapped"
    /\ closerPc' = [closerPc EXCEPT ![k] = "cancelled"]
    /\ cancelled' = cancelled \cup {holds[k]}
    /\ UNCHANGED <<dialed, started, channel, chOpen, connOpen, holds>>

(* ch.Close() and then conn.Close(); an error of either is only returned. *)
CloseWire(k) ==
    /\ closerPc[k] = "cancelled"
    /\ closerPc' = [closerPc EXCEPT ![k] = "wire_closed"]
    /\ chOpen' = chOpen \ {holds[k]}
    /\ connOpen' = connOpen \ {holds[k]}
    /\ UNCHANGED <<dialed, started, channel, cancelled, holds>>

(* Close returns; what it does to the pending invokes before is in
   ReplyMatching. *)
CloseReturns(k) ==
    /\ closerPc[k] = "wire_closed"
    /\ closerPc' = [closerPc EXCEPT ![k] = "returned"]
    /\ UNCHANGED <<connVars, holds>>

-----------------------------------------------------------------------------
(* The broker's side. A channel exception (a passive declare of a queue that
   does not exist, an invalid expiration) ends the channel and leaves the
   connection open; a lost connection ends both. Nothing in t changes. *)
ChannelLost(g) ==
    /\ g \in chOpen
    /\ chOpen' = chOpen \ {g}
    /\ UNCHANGED <<dialed, started, channel, connOpen, cancelled, closerVars>>

ConnectionLost(g) ==
    /\ g \in connOpen
    /\ chOpen' = chOpen \ {g}
    /\ connOpen' = connOpen \ {g}
    /\ UNCHANGED <<dialed, started, channel, cancelled, closerVars>>

(* Every step of these variables, of whatever caller. *)
ConnNext ==
    \/ (AlreadyStarted \/ Dial \/ StartFails) /\ UNCHANGED closerVars
    \/ \E k \in Closers :
        \/ CloseNotStarted(k) \/ CloseSwap(k) \/ CloseCancel(k) \/ CloseWire(k)
        \/ CloseReturns(k)
    \/ \E g \in Conns : ChannelLost(g) \/ ConnectionLost(g)

-----------------------------------------------------------------------------
(* The Close calls that have taken a connection and not closed it yet. *)
Closing(k) == closerPc[k] \in {"swapped", "cancelled"}

(* No broker connection is ever leaked: an open connection is the one the
   transport uses, or one that a Close call in progress still holds and will
   close. It is the mutual exclusion of Start and Close on t.mu, and the
   `if t.started` of Start, that give it. *)
NoOrphanConnection ==
    \A g \in connOpen :
        \/ started /\ channel = g
        \/ \E k \in Closers : Closing(k) /\ holds[k] = g

(* The transport is started exactly when it has a channel, that channel is of
   the connection dialed last, and its consumer context is not cancelled: a
   Close of an older connection never reaches the current one. *)
CurrentConnection ==
    /\ started <=> channel # Nil
    /\ started => channel = dialed
    /\ started => channel \notin cancelled

(* What makes the two inductive: connections are numbered as they are dialed,
   and no Close holds the connection the transport uses. *)
HeldConnections ==
    /\ cancelled \subseteq 1..dialed
    /\ \A k \in Closers :
        /\ holds[k] \in 0..dialed
        /\ closerPc[k] = "swapped" => holds[k] # Nil
        /\ started => holds[k] # channel

ConnInv == ConnTypeOK /\ NoOrphanConnection /\ CurrentConnection /\ HeldConnections
=============================================================================
