---------------------------- MODULE ServedQueue ----------------------------
(***************************************************************************)
(* What a plugin's queues promise whoever puts a message on one, without   *)
(* connections, channels, prefetch windows or goroutines: the message is   *)
(* attempted, perhaps more than once; an attempt runs its handler to the   *)
(* end, answers once, with what that handler returned, and then settles    *)
(* the message for good.  Deliveries implements it.                        *)
(***************************************************************************)
CONSTANTS
    Messages,
    Attempts    \* of each message

VARIABLES
    wants,      \* what each message wants: an answer, a handler, or nothing
    tried,      \* how the handler of each attempt ended
    answers,    \* the attempts that were answered, and what the answer says
    settled,    \* the attempts that settled their message
    shut        \* the attempts that a shutdown has cut off from their answers

vars == <<wants, tried, answers, settled, shut>>

Wants == {"answer", "handler", "nothing"}
Ends == {"result", "unencodable", "error"}

Init ==
    /\ wants \in [Messages -> Wants]
    /\ tried = [d \in Messages \X Attempts |-> "not"]
    /\ answers = {}
    /\ settled = {}
    /\ shut = {}

(* An attempt may still be under way when a later one has settled the message,
   but never its own. *)
Try(m, a) ==
    /\ tried[<<m, a>>] = "not"
    /\ wants[m] # "nothing"
    /\ <<m, a>> \notin settled
    /\ \E end \in Ends : tried' = [tried EXCEPT ![<<m, a>>] = end]
    /\ UNCHANGED <<wants, answers, settled, shut>>

Unanswered(m, a) == \A answer \in answers : answer[1] # <<m, a>>

(* Once for an attempt, and not after it has settled the message. *)
Answer(m, a) ==
    /\ tried[<<m, a>>] \in {"result", "error"}
    /\ wants[m] = "answer"
    /\ <<m, a>> \notin settled
    /\ Unanswered(m, a)
    /\ answers' = answers \cup {<<<<m, a>>, IF tried[<<m, a>>] = "error" THEN "failed" ELSE "ok">>}
    /\ UNCHANGED <<wants, tried, settled, shut>>

(* Once for a message, by an attempt that has done all that it can for it. *)
Settle(m, a) ==
    /\ \A b \in Attempts : <<m, b>> \notin settled
    /\ wants[m] # "nothing" => tried[<<m, a>>] # "not"
    /\ wants[m] = "answer" =>
        ~Unanswered(m, a) \/ tried[<<m, a>>] = "unencodable" \/ a \in shut
    /\ settled' = settled \cup {<<m, a>>}
    /\ UNCHANGED <<wants, tried, answers, shut>>

ShutDown(a) ==
    /\ a \notin shut
    /\ shut' = shut \cup {a}
    /\ UNCHANGED <<wants, tried, answers, settled>>

Next ==
    \/ \E m \in Messages, a \in Attempts : Try(m, a) \/ Answer(m, a) \/ Settle(m, a)
    \/ \E a \in Attempts : ShutDown(a)

Spec == Init /\ [][Next]_vars
=============================================================================
