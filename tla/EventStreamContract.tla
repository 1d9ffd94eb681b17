-------------------------- MODULE EventStreamContract --------------------------
(***************************************************************************)
(* What an event stream promises to those who use it, with no queue, no    *)
(* waiters and no wake-ups: accepted events are numbered, every event goes *)
(* to at most one consumer, a consumer receives them in order, a closed    *)
(* stream accepts nothing, and its result is settled at most once.         *)
(***************************************************************************)
EXTENDS Naturals

CONSTANT Consumers

VARIABLES
    accepted,    \* number of events accepted
    closed,      \* no further event is accepted
    result,      \* "pending", or who settled it
    received,    \* the events each consumer was given
    over         \* consumers that were told the stream is over

vars == <<accepted, closed, result, received, over>>

Init ==
    /\ accepted = 0
    /\ closed = FALSE
    /\ result = "pending"
    /\ received = [c \in Consumers |-> {}]
    /\ over = {}

Accept(isLast) ==
    /\ ~closed
    /\ accepted' = accepted + 1
    /\ closed' = isLast
    /\ result' = IF isLast THEN "event" ELSE result
    /\ UNCHANGED <<received, over>>

Close ==
    /\ closed' = TRUE
    /\ result' \in {result, IF result = "pending" THEN "end" ELSE result}
    /\ UNCHANGED <<accepted, received, over>>

Receive(c, e) ==
    /\ c \notin over
    /\ \A d \in Consumers : e \notin received[d]
    /\ \A d \in received[c] : d < e
    /\ received' = [received EXCEPT ![c] = @ \cup {e}]
    /\ UNCHANGED <<accepted, closed, result, over>>

Finish(c) ==
    /\ closed
    /\ over' = over \cup {c}
    /\ UNCHANGED <<accepted, closed, result, received>>

Next ==
    \/ \E isLast \in BOOLEAN : Accept(isLast)
    \/ Close
    \/ \E c \in Consumers : Finish(c) \/ \E e \in 1..accepted : Receive(c, e)

Spec == Init /\ [][Next]_vars
===============================================================================
