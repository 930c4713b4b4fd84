--------------------------- MODULE InvokeContract ---------------------------
(***************************************************************************)
(* What Invoke (client.go, transport.go) promises its callers, without     *)
(* connections, channels, waiters or goroutines: every call that is issued *)
(* returns at most once, with an answer that some provider gave to that    *)
(* very call or with an error.  Closing the transport marks calls as shut  *)
(* down; only those may come back with no reply and no error, and only an  *)
(* answer that races such a shutdown may bring the process down.           *)
(***************************************************************************)
EXTENDS Naturals

CONSTANTS
    Calls,      \* the Invoke calls; a call is named by its message id
    MaxReplies  \* bound: how many answers a call may be given

Replies == Calls \X (1..MaxReplies)
CallOf(a) == a[1]

VARIABLES
    status,     \* of each call
    outcome,    \* how each returned call ended
    result,     \* the answers each returned call was given: none or one
    answered,   \* the answers given so far
    shutdown,   \* the calls that were outstanding when a Close failed them
    crashed     \* the process has panicked

vars == <<status, outcome, result, answered, shutdown, crashed>>

Errors == {"timeout", "canceled", "transport_error"}

Init ==
    /\ status = [c \in Calls |-> "idle"]
    /\ outcome = [c \in Calls |-> "none"]
    /\ result = [c \in Calls |-> {}]
    /\ answered = {}
    /\ shutdown = {}
    /\ crashed = FALSE

Issue(c) ==
    /\ status[c] = "idle"
    /\ status' = [status EXCEPT ![c] = "outstanding"]
    /\ UNCHANGED <<outcome, result, answered, shutdown, crashed>>

Answer(a) ==
    /\ a \notin answered
    /\ status[CallOf(a)] # "idle"
    /\ answered' = answered \cup {a}
    /\ UNCHANGED <<status, outcome, result, shutdown, crashed>>

Shutdown(S) ==
    /\ \A c \in S : status[c] = "outstanding" /\ c \notin shutdown
    /\ shutdown' = shutdown \cup S
    /\ UNCHANGED <<status, outcome, result, answered, crashed>>

Return(c, o) ==
    /\ status[c] # "returned"
    /\ status' = [status EXCEPT ![c] = "returned"]
    /\ outcome' = [outcome EXCEPT ![c] = o]
    /\ UNCHANGED <<answered, shutdown, crashed>>

ReturnReply(c) ==
    \E a \in answered :
        /\ CallOf(a) = c
        /\ result' = [result EXCEPT ![c] = {a}]
        /\ Return(c, "reply")

ReturnNothing(c) ==
    /\ c \in shutdown
    /\ Return(c, "nil_reply")
    /\ UNCHANGED result

ReturnError(c) ==
    /\ \E o \in Errors : Return(c, o)
    /\ UNCHANGED result

Crash ==
    /\ \E a \in answered : CallOf(a) \in shutdown
    /\ crashed' = TRUE
    /\ UNCHANGED <<status, outcome, result, answered, shutdown>>

Next ==
    /\ ~crashed
    /\ \/ \E c \in Calls : Issue(c) \/ ReturnReply(c) \/ ReturnNothing(c) \/ ReturnError(c)
       \/ \E a \in Replies : Answer(a)
       \/ \E S \in SUBSET Calls : Shutdown(S)
       \/ Crash

Spec == Init /\ [][Next]_vars
=============================================================================
