------------------------------ MODULE EventStream ------------------------------
(***************************************************************************)
(* The generic push/pull stream of packages/ai/src/utils/event-stream.ts.  *)
(* Every LLM response and every agent run is published through one of      *)
(* these: producers push events and end the stream, consumers iterate over *)
(* it with for-await, and anybody may await result().                      *)
(*                                                                         *)
(* Everything runs on one JavaScript thread, so an action is the code that *)
(* runs between two awaits.  An event is the number of its accepted push:  *)
(* the properties need its identity and its order, never its payload.      *)
(***************************************************************************)
EXTENDS Naturals, Sequences

CONSTANTS
    Consumers,     \* the for-await loops over the stream
    MaxEvents      \* bound on accepted pushes, so that a run is finite

ASSUME MaxEventsAssumption == MaxEvents \in Nat

VARIABLES
    queue,       \* events no consumer asked for yet (this.queue)
    waiting,     \* consumers whose iterator is suspended in `await new Promise` (this.waiting)
    done,        \* this.done
    result,      \* finalResultPromise: "pending", or who resolved it
    pc,          \* where each consumer's async generator stands
    slot,        \* value a woken consumer was resolved with; EndMark is {done: true}
    accepted,    \* history: how many pushes were accepted
    complete,    \* history: an accepted event satisfied isComplete
    got          \* history: the events each consumer's loop body received

vars == <<queue, waiting, done, result, pc, slot, accepted, complete, got>>

EndMark == 0

Results == {"pending", "event", "end"}

\* running: in the loop body, about to call next(); returned: the iterator
\* reported the end; left: the loop body broke out or returned.
PCs == {"running", "waiting", "woken", "returned", "left"}

Init ==
    /\ queue = <<>>
    /\ waiting = <<>>
    /\ done = FALSE
    /\ result = "pending"
    /\ pc = [c \in Consumers |-> "running"]
    /\ slot = [c \in Consumers |-> EndMark]
    /\ accepted = 0
    /\ complete = FALSE
    /\ got = [c \in Consumers |-> {}]

-------------------------------------------------------------------------------
(* Variants of the code, each with one plausible mistake. *)

IgnorePushBuggy == FALSE                     \* push() without its early return
HandBuggy(e) ==                              \* always queue, never wake a waiter
    /\ queue' = Append(queue, e)
    /\ UNCHANGED <<waiting, pc, slot>>
NotifyAllBuggy ==                            \* end() wakes one waiter, forgets the rest
    /\ waiting' = <<>>
    /\ pc' = [c \in Consumers |-> IF waiting # <<>> /\ c = Head(waiting) THEN "woken" ELSE pc[c]]
    /\ slot' = [c \in Consumers |-> IF waiting # <<>> /\ c = Head(waiting) THEN EndMark ELSE slot[c]]
TakeQueuedBuggy(c) ==                        \* pops from the wrong end
    /\ queue # <<>>
    /\ queue' = SubSeq(queue, 1, Len(queue) - 1)
    /\ got' = [got EXCEPT ![c] = @ \cup {queue[Len(queue)]}]
    /\ UNCHANGED <<waiting, pc>>

-------------------------------------------------------------------------------
(* Producers. *)

\* The event handed to push(): its number in push order.
NewEvent == accepted + 1

\* `if (this.done) return;`
IgnorePush == done

\* A promise keeps the first value it is resolved with.
Settle(by) == IF result = "pending" THEN by ELSE result

\* Deliver to the longest-waiting consumer, or queue the event.
Hand(e) ==
    \/ /\ waiting # <<>>
       /\ waiting' = Tail(waiting)
       /\ pc' = [pc EXCEPT ![Head(waiting)] = "woken"]
       /\ slot' = [slot EXCEPT ![Head(waiting)] = e]
       /\ UNCHANGED queue
    \/ /\ waiting = <<>>
       /\ queue' = Append(queue, e)
       /\ UNCHANGED <<waiting, pc, slot>>

\* push(event); isLast is isComplete(event).  An ignored push changes nothing.
Push(isLast) ==
    /\ accepted < MaxEvents
    /\ ~IgnorePush
    /\ done' = (done \/ isLast)
    /\ result' = IF isLast THEN Settle("event") ELSE result
    /\ accepted' = accepted + 1
    /\ complete' = (complete \/ isLast)
    /\ Hand(NewEvent)
    /\ UNCHANGED got

\* The while loop of end(): every waiter gets {done: true}.
NotifyAll ==
    LET woken == {waiting[i] : i \in DOMAIN waiting}
    IN  /\ waiting' = <<>>
        /\ pc' = [c \in Consumers |-> IF c \in woken THEN "woken" ELSE pc[c]]
        /\ slot' = [c \in Consumers |-> IF c \in woken THEN EndMark ELSE slot[c]]

\* end(result?): hasResult says whether a result was passed.
End(hasResult) ==
    /\ done' = TRUE
    /\ result' = IF hasResult THEN Settle("end") ELSE result
    /\ NotifyAll
    /\ UNCHANGED <<queue, accepted, complete, got>>

-------------------------------------------------------------------------------
(* Consumers: one turn of the generator's while loop. *)

TakeQueued(c) ==
    /\ queue # <<>>
    /\ queue' = Tail(queue)
    /\ got' = [got EXCEPT ![c] = @ \cup {Head(queue)}]
    /\ UNCHANGED <<waiting, pc>>

ReachEnd(c) ==
    /\ queue = <<>>
    /\ done
    /\ pc' = [pc EXCEPT ![c] = "returned"]
    /\ UNCHANGED <<queue, waiting, got>>

StartWaiting(c) ==
    /\ queue = <<>>
    /\ ~done
    /\ waiting' = Append(waiting, c)
    /\ pc' = [pc EXCEPT ![c] = "waiting"]
    /\ UNCHANGED <<queue, got>>

Pull(c) ==
    /\ pc[c] = "running"
    /\ TakeQueued(c) \/ ReachEnd(c) \/ StartWaiting(c)
    /\ UNCHANGED <<done, result, slot, accepted, complete>>

\* The promise resolved earlier by push() or end() is picked up.
Resume(c) ==
    /\ pc[c] = "woken"
    /\ \/ /\ slot[c] = EndMark
          /\ pc' = [pc EXCEPT ![c] = "returned"]
          /\ UNCHANGED got
       \/ /\ slot[c] # EndMark
          /\ pc' = [pc EXCEPT ![c] = "running"]
          /\ got' = [got EXCEPT ![c] = @ \cup {slot[c]}]
    /\ slot' = [slot EXCEPT ![c] = EndMark]
    /\ UNCHANGED <<queue, waiting, done, result, accepted, complete>>

\* The loop body leaves the loop, as streamAssistantResponse does once it has
\* handled the response's last event.
Leave(c) ==
    /\ pc[c] = "running"
    /\ pc' = [pc EXCEPT ![c] = "left"]
    /\ UNCHANGED <<queue, waiting, done, result, slot, accepted, complete, got>>

Next ==
    \/ \E isLast \in BOOLEAN : Push(isLast)
    \/ \E hasResult \in BOOLEAN : End(hasResult)
    \/ \E c \in Consumers : Pull(c) \/ Resume(c) \/ Leave(c)

Spec == Init /\ [][Next]_vars

\* Generators always run on; every producer of the repository ends its stream,
\* on its normal path and in its catch block.  One end() is enough: no consumer
\* starts to wait after it.
Fairness ==
    /\ WF_vars(\E hasResult \in BOOLEAN : End(hasResult))
    /\ \A c \in Consumers : WF_vars(Pull(c)) /\ WF_vars(Resume(c))

FairSpec == Spec /\ Fairness

-------------------------------------------------------------------------------
(* Properties. *)

Events == 1..accepted

\* Events no longer in the queue: received, or on their way to a woken consumer.
Taken == accepted - Len(queue)

InFlight(c) == IF pc[c] = "woken" /\ slot[c] # EndMark THEN {slot[c]} ELSE {}

\* What consumer c received or was already resolved with.
Owned(c) == got[c] \cup InFlight(c)

\* Every variable keeps the type event-stream.ts gives it.
TypeOK ==
    /\ queue \in Seq(Nat \ {EndMark})
    /\ waiting \in Seq(Consumers)
    /\ done \in BOOLEAN
    /\ result \in Results
    /\ pc \in [Consumers -> PCs]
    /\ slot \in [Consumers -> Nat]
    /\ accepted \in Nat
    /\ complete \in BOOLEAN
    /\ got \in [Consumers -> SUBSET Nat]

\* The queue holds the newest accepted events, oldest first: whatever the
\* consumers do, push order is the order in which events are handed out.
QueueIsSuffix ==
    /\ Len(queue) <= accepted
    /\ \A i \in DOMAIN queue : queue[i] = Taken + i

\* Each accepted event that left the queue went to exactly one consumer: none
\* is lost between push() and the loop body and none is handed out twice.
ExactlyOnce ==
    /\ \A c \in Consumers : Owned(c) \subseteq 1..Taken
    /\ \A e \in 1..Taken : \E c \in Consumers : e \in Owned(c)
    /\ \A c, d \in Consumers : c # d => Owned(c) \cap Owned(d) = {}

\* A consumer sleeps only while there is nothing for it: push() and the
\* iterator never leave a waiter asleep beside a queued event.
NoSleepOnFullQueue == waiting # <<>> => queue = <<>>

\* The waiting list holds each sleeping consumer once, and nobody else: a
\* wake-up is never spent on a consumer that is not asleep.
WaitersAsleep ==
    /\ \A i, j \in DOMAIN waiting : waiting[i] = waiting[j] => i = j
    /\ \A c \in Consumers : pc[c] = "waiting" <=> \E i \in DOMAIN waiting : waiting[i] = c

\* The iterator of c reported, or was told to report, the end of the stream.
EndReported(c) == pc[c] = "returned" \/ (pc[c] = "woken" /\ slot[c] = EndMark)

\* An iterator reports the end only of a stream that is done and when every
\* accepted event was taken, even if end() was called with events queued.
EndOnlyWhenDrained == \A c \in Consumers : EndReported(c) => done /\ queue = <<>>

\* result() is the complete event's value as soon as one was accepted: neither
\* a later nor an earlier end(result) can replace it.
ResultFromEvent == (result = "event") <=> complete

\* A consumer that was resolved with an event received only older ones.
SlotIsNewest ==
    \A c \in Consumers : pc[c] = "woken" => \A e \in InFlight(c), d \in got[c] : d < e

\* The inductive invariant of EventStreamProofs: the properties above together.
StreamInv ==
    /\ TypeOK
    /\ QueueIsSuffix
    /\ ExactlyOnce
    /\ NoSleepOnFullQueue
    /\ WaitersAsleep
    /\ EndOnlyWhenDrained
    /\ ResultFromEvent
    /\ result # "pending" => done
    /\ SlotIsNewest

\* A consumer's loop body sees events in push order.
InOrder ==
    [][\A c \in Consumers : \A e \in got'[c] \ got[c], d \in got[c] : d < e]_vars

FrozenStep ==
    /\ done => accepted' = accepted
    /\ result # "pending" => result' = result

\* Once the stream is done no event is accepted any more, and the promise
\* behind result() keeps the value it was first resolved with.
Frozen == [][FrozenStep]_vars

\* Every loop over an ended stream terminates: no consumer sleeps for ever,
\* not even when several wait and one complete event wakes a single one.
LoopsEnd == \A c \in Consumers : <>(pc[c] \in {"returned", "left"})

\* Every accepted event reaches a loop body unless a consumer walked away.
AllDelivered ==
    \A e \in 1..MaxEvents :
        e \in Events ~> \/ \E c \in Consumers : e \in got[c]
                        \/ \E c \in Consumers : pc[c] = "left"

\* A stream serves its loops to the end: each ends, with all that was pushed.
LoopsServed == LoopsEnd /\ AllDelivered

-------------------------------------------------------------------------------
(* Refinement: what the stream's users see of it. *)

Contract ==
    INSTANCE EventStreamContract
    WITH closed <- done,
         received <- got,
         over <- {c \in Consumers : pc[c] = "returned"}

\* The code keeps the contract of EventStreamContract: each step of push, end
\* and the iterator is one of its steps or invisible to it.
ImplementsContract == Contract!Spec
===============================================================================
