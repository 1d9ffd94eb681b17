--------------------------- MODULE EventStreamProofs ---------------------------
(***************************************************************************)
(* StreamInv is inductive for every set of consumers and every bound on    *)
(* the number of events, and with it the safety properties of EventStream. *)
(***************************************************************************)
EXTENDS EventStream, SequenceTheorems, TLAPS

USE DEF EndMark

LEMMA InitInv == Init => StreamInv
<1> SUFFICES ASSUME Init PROVE StreamInv
  OBVIOUS
<1>1. TypeOK
  <2>1. queue \in Seq(Nat \ {EndMark}) /\ waiting \in Seq(Consumers)
    BY EmptySeq DEF Init
  <2>2. done \in BOOLEAN /\ complete \in BOOLEAN /\ accepted \in Nat /\ result \in Results
    BY DEF Init, Results
  <2>3. pc \in [Consumers -> PCs] /\ slot \in [Consumers -> Nat] /\ got \in [Consumers -> SUBSET Nat]
    BY DEF Init, PCs
  <2> QED
    BY <2>1, <2>2, <2>3 DEF TypeOK
<1>2. \A c \in Consumers : Owned(c) = {} /\ InFlight(c) = {} /\ pc[c] = "running"
  BY DEF Init, Owned, InFlight
<1>3. Taken = 0 /\ Len(queue) = 0 /\ DOMAIN queue = {} /\ DOMAIN waiting = {}
  <2>1. Len(<<>>) = 0 /\ DOMAIN <<>> = {}
    OBVIOUS
  <2>2. Len(queue) = 0 /\ DOMAIN queue = {} /\ DOMAIN waiting = {}
    BY <2>1, Zenon DEF Init
  <2>3. accepted = 0
    BY DEF Init
  <2>4. Taken = 0
    BY <2>2, <2>3 DEF Taken
  <2> QED
    BY <2>2, <2>4
<1>4. QueueIsSuffix /\ ExactlyOnce /\ NoSleepOnFullQueue /\ WaitersAsleep
  BY <1>2, <1>3 DEF Init, QueueIsSuffix, ExactlyOnce, NoSleepOnFullQueue, WaitersAsleep
<1>5. EndOnlyWhenDrained /\ ResultFromEvent /\ SlotIsNewest /\ (result # "pending" => done)
  BY <1>2 DEF Init, EndOnlyWhenDrained, EndReported, ResultFromEvent, SlotIsNewest
<1> QED
  BY <1>1, <1>4, <1>5 DEF StreamInv

\* Leaving touches nothing the invariant speaks of except that c stops running.
LEMMA LeaveInv ==
    ASSUME StreamInv, NEW c \in Consumers, Leave(c)
    PROVE  StreamInv'
<1>1. TypeOK'
  BY DEF StreamInv, TypeOK, Leave, PCs
<1>2. \A d \in Consumers :
          /\ InFlight(d)' = InFlight(d)
          /\ Owned(d)' = Owned(d)
          /\ EndReported(d)' = EndReported(d)
          /\ pc[d] = "waiting" <=> pc'[d] = "waiting"
          /\ pc[d] = "woken" <=> pc'[d] = "woken"
  BY DEF StreamInv, TypeOK, Leave, InFlight, Owned, EndReported
<1>3. (QueueIsSuffix /\ ExactlyOnce /\ NoSleepOnFullQueue /\ WaitersAsleep)'
  BY <1>2 DEF StreamInv, Leave, QueueIsSuffix, Taken, ExactlyOnce, NoSleepOnFullQueue, WaitersAsleep
<1>4. (EndOnlyWhenDrained /\ ResultFromEvent /\ SlotIsNewest /\ (result # "pending" => done))'
  BY <1>2 DEF StreamInv, Leave, EndOnlyWhenDrained, ResultFromEvent, SlotIsNewest
<1> QED
  BY <1>1, <1>3, <1>4 DEF StreamInv

LEMMA ResumeInv ==
    ASSUME StreamInv, NEW c \in Consumers, Resume(c)
    PROVE  StreamInv'
<1>1. TypeOK'
  <2>1. pc' \in [Consumers -> PCs] /\ slot' \in [Consumers -> Nat]
    BY DEF StreamInv, TypeOK, Resume, PCs
  <2>2. got' \in [Consumers -> SUBSET Nat]
    <3>1. got[c] \cup {slot[c]} \in SUBSET Nat
      BY DEF StreamInv, TypeOK
    <3>2. got' = got \/ got' = [got EXCEPT ![c] = got[c] \cup {slot[c]}]
      BY DEF Resume
    <3> QED
      BY <3>1, <3>2 DEF StreamInv, TypeOK
  <2> QED
    BY <2>1, <2>2 DEF StreamInv, TypeOK, Resume
<1>2. \A d \in Consumers :
          /\ Owned(d)' = Owned(d)
          /\ EndReported(d)' = EndReported(d)
          /\ pc[d] = "waiting" <=> pc'[d] = "waiting"
          /\ d # c => pc'[d] = pc[d] /\ InFlight(d)' = InFlight(d) /\ got'[d] = got[d]
  BY DEF StreamInv, TypeOK, Resume, InFlight, Owned, EndReported
<1>3. pc'[c] # "woken"
  BY DEF StreamInv, TypeOK, Resume
<1>4. (QueueIsSuffix /\ ExactlyOnce /\ NoSleepOnFullQueue /\ WaitersAsleep)'
  BY <1>2 DEF StreamInv, Resume, QueueIsSuffix, Taken, ExactlyOnce, NoSleepOnFullQueue, WaitersAsleep
<1>5. (EndOnlyWhenDrained /\ ResultFromEvent /\ SlotIsNewest /\ (result # "pending" => done))'
  BY <1>2, <1>3 DEF StreamInv, Resume, EndOnlyWhenDrained, ResultFromEvent, SlotIsNewest
<1> QED
  BY <1>1, <1>4, <1>5 DEF StreamInv

LEMMA EndInv ==
    ASSUME StreamInv, NEW hasResult \in BOOLEAN, End(hasResult)
    PROVE  StreamInv'
<1> DEFINE Asleep == {waiting[i] : i \in DOMAIN waiting}
<1>1. Asleep = {c \in Consumers : pc[c] = "waiting"}
  BY DEF StreamInv, TypeOK, WaitersAsleep
<1>2. TypeOK'
  BY DEF StreamInv, TypeOK, End, NotifyAll, Settle, PCs, Results
<1>3. \A c \in Consumers :
          /\ InFlight(c)' = InFlight(c)
          /\ Owned(c)' = Owned(c)
          /\ pc'[c] # "waiting"
          /\ pc[c] # "waiting" => pc'[c] = pc[c] /\ EndReported(c)' = EndReported(c)
          /\ pc[c] = "waiting" => InFlight(c)' = {}
  BY <1>1 DEF StreamInv, TypeOK, End, NotifyAll, InFlight, Owned, EndReported
<1>4. DOMAIN waiting' = {} /\ waiting' = <<>>
  BY DEF End, NotifyAll
<1>5. (QueueIsSuffix /\ ExactlyOnce /\ NoSleepOnFullQueue /\ WaitersAsleep)'
  BY <1>3, <1>4 DEF StreamInv, End, QueueIsSuffix, Taken, ExactlyOnce, NoSleepOnFullQueue, WaitersAsleep
<1>6. (ResultFromEvent /\ (result # "pending" => done))'
  BY DEF StreamInv, TypeOK, End, Settle, ResultFromEvent
<1>7. SlotIsNewest'
  BY <1>3 DEF StreamInv, End, SlotIsNewest
<1>8. EndOnlyWhenDrained'
  <2> SUFFICES ASSUME NEW c \in Consumers, EndReported(c)' PROVE queue' = <<>>
    BY DEF End, EndOnlyWhenDrained
  <2>1. CASE pc[c] = "waiting"
    <3>1. waiting # <<>>
      BY <1>1, <2>1
    <3> QED
      BY <3>1 DEF StreamInv, NoSleepOnFullQueue, End
  <2>2. CASE pc[c] # "waiting"
    BY <1>3, <2>2 DEF StreamInv, EndOnlyWhenDrained, End
  <2> QED
    BY <2>1, <2>2
<1> QED
  BY <1>2, <1>5, <1>6, <1>7, <1>8 DEF StreamInv
LEMMA PullInv ==
    ASSUME StreamInv, NEW c \in Consumers, Pull(c)
    PROVE  StreamInv'
<1>1. queue \in Seq(Nat \ {EndMark}) /\ waiting \in Seq(Consumers) /\ Len(queue) \in Nat
  BY LenProperties DEF StreamInv, TypeOK
<1>2. CASE TakeQueued(c)
  <2> DEFINE e == Head(queue)
  <2>1. /\ queue # <<>> /\ Len(queue) > 0 /\ waiting = <<>>
        /\ Tail(queue) \in Seq(Nat \ {EndMark}) /\ Len(Tail(queue)) = Len(queue) - 1
        /\ \A i \in 1..Len(Tail(queue)) : Tail(queue)[i] = queue[i + 1]
        /\ e = queue[1] /\ e \in Nat /\ e # EndMark
    BY <1>1, <1>2, HeadTailProperties DEF TakeQueued, StreamInv, NoSleepOnFullQueue
  <2>2. e = Taken + 1 /\ Taken' = Taken + 1 /\ Taken \in Nat
    BY <1>1, <1>2, <2>1 DEF StreamInv, TypeOK, QueueIsSuffix, Taken, Pull, TakeQueued
  <2>3. TypeOK'
    <3>1. got[c] \cup {e} \in SUBSET Nat
      BY <2>1 DEF StreamInv, TypeOK
    <3>2. got' \in [Consumers -> SUBSET Nat]
      BY <1>2, <3>1 DEF StreamInv, TypeOK, TakeQueued
    <3> QED
      BY <1>2, <2>1, <3>2 DEF StreamInv, TypeOK, Pull, TakeQueued
  <2>4. /\ \A d \in Consumers : InFlight(d)' = InFlight(d) /\ EndReported(d)' = EndReported(d)
        /\ \A d \in Consumers \ {c} : Owned(d)' = Owned(d)
        /\ Owned(c)' = Owned(c) \cup {e}
        /\ \A d \in Consumers \ {c} : got'[d] = got[d]
    BY <1>2 DEF StreamInv, TypeOK, Pull, TakeQueued, InFlight, Owned, EndReported
  <2>5. QueueIsSuffix'
    BY <1>1, <1>2, <2>1, <2>2 DEF StreamInv, TypeOK, QueueIsSuffix, Taken, Pull, TakeQueued
  <2>6. ExactlyOnce'
    BY <2>2, <2>4 DEF StreamInv, ExactlyOnce
  <2>7. (NoSleepOnFullQueue /\ WaitersAsleep)'
    BY <1>2, <2>1 DEF StreamInv, NoSleepOnFullQueue, WaitersAsleep, Pull, TakeQueued
  <2>8. (EndOnlyWhenDrained /\ ResultFromEvent /\ SlotIsNewest /\ (result # "pending" => done))'
    BY <1>2, <2>1, <2>4 DEF StreamInv, EndOnlyWhenDrained, ResultFromEvent, SlotIsNewest, Pull, TakeQueued
  <2> QED
    BY <2>3, <2>5, <2>6, <2>7, <2>8 DEF StreamInv
<1>3. CASE ReachEnd(c)
  <2>1. TypeOK'
    BY <1>3 DEF StreamInv, TypeOK, Pull, ReachEnd, PCs
  <2>2. \A d \in Consumers :
            /\ InFlight(d)' = InFlight(d)
            /\ Owned(d)' = Owned(d)
            /\ pc[d] = "waiting" <=> pc'[d] = "waiting"
            /\ pc[d] = "woken" <=> pc'[d] = "woken"
    BY <1>3 DEF StreamInv, TypeOK, Pull, ReachEnd, InFlight, Owned
  <2>3. (QueueIsSuffix /\ ExactlyOnce /\ NoSleepOnFullQueue /\ WaitersAsleep)'
    BY <1>3, <2>2
    DEF StreamInv, Pull, ReachEnd, QueueIsSuffix, Taken, ExactlyOnce, NoSleepOnFullQueue, WaitersAsleep
  <2>4. (EndOnlyWhenDrained /\ ResultFromEvent /\ SlotIsNewest /\ (result # "pending" => done))'
    BY <1>3, <2>2 DEF StreamInv, Pull, ReachEnd, EndOnlyWhenDrained, ResultFromEvent, SlotIsNewest
  <2> QED
    BY <2>1, <2>3, <2>4 DEF StreamInv
<1>4. CASE StartWaiting(c)
  <2>1. /\ waiting' \in Seq(Consumers) /\ Len(waiting') = Len(waiting) + 1
        /\ \A i \in 1..Len(waiting) : waiting'[i] = waiting[i]
        /\ waiting'[Len(waiting) + 1] = c
        /\ DOMAIN waiting' = 1..(Len(waiting) + 1) /\ DOMAIN waiting = 1..Len(waiting)
        /\ Len(waiting) \in Nat
    BY <1>1, <1>4, AppendProperties, LenProperties DEF StartWaiting
  <2>2. TypeOK'
    BY <1>4, <2>1 DEF StreamInv, TypeOK, Pull, StartWaiting, PCs
  <2>3. \A d \in Consumers :
            /\ InFlight(d)' = InFlight(d)
            /\ Owned(d)' = Owned(d)
            /\ EndReported(d)' = EndReported(d)
            /\ pc[d] = "woken" <=> pc'[d] = "woken"
            /\ d # c => pc'[d] = pc[d]
    BY <1>4 DEF StreamInv, TypeOK, Pull, StartWaiting, InFlight, Owned, EndReported
  <2>4. (QueueIsSuffix /\ ExactlyOnce /\ NoSleepOnFullQueue)'
    BY <1>4, <2>3 DEF StreamInv, Pull, StartWaiting, QueueIsSuffix, Taken, ExactlyOnce, NoSleepOnFullQueue
  <2>5. WaitersAsleep'
    <3>1. pc[c] = "running" /\ pc'[c] = "waiting"
      BY <1>4 DEF StreamInv, TypeOK, Pull, StartWaiting
    <3>2. \A i \in 1..Len(waiting) : waiting[i] # c
      BY <2>1, <3>1 DEF StreamInv, WaitersAsleep
    <3> QED
      BY <2>1, <2>3, <3>1, <3>2 DEF StreamInv, WaitersAsleep
  <2>6. (EndOnlyWhenDrained /\ ResultFromEvent /\ SlotIsNewest /\ (result # "pending" => done))'
    BY <1>4, <2>3 DEF StreamInv, Pull, StartWaiting, EndOnlyWhenDrained, ResultFromEvent, SlotIsNewest
  <2> QED
    BY <2>2, <2>4, <2>5, <2>6 DEF StreamInv
<1> QED
  BY <1>2, <1>3, <1>4 DEF Pull
LEMMA PushInv ==
    ASSUME StreamInv, NEW isLast \in BOOLEAN, Push(isLast)
    PROVE  StreamInv'
<1>0. PICK e \in Nat : e = NewEvent
  BY DEF StreamInv, TypeOK, NewEvent
<1>1. /\ queue \in Seq(Nat \ {EndMark}) /\ waiting \in Seq(Consumers)
      /\ Len(queue) \in Nat /\ Len(waiting) \in Nat
  BY LenProperties DEF StreamInv, TypeOK
<1>2. ~done /\ e # EndMark /\ e = accepted + 1 /\ accepted' = accepted + 1 /\ Hand(e)
  BY <1>0 DEF StreamInv, TypeOK, Push, IgnorePush, NewEvent
<1>3. \A c \in Consumers : ~EndReported(c)
  BY <1>2 DEF StreamInv, EndOnlyWhenDrained
<1>4. (ResultFromEvent /\ (result # "pending" => done))' /\ result' \in Results /\ done' \in BOOLEAN
      /\ complete' \in BOOLEAN
  <2>1. ~complete /\ result = "pending"
    BY <1>2 DEF StreamInv, ResultFromEvent
  <2>2. CASE isLast
    BY <2>1, <2>2 DEF Push, Settle, ResultFromEvent, Results
  <2>3. CASE ~isLast
    BY <2>1, <2>3 DEF StreamInv, TypeOK, Push, ResultFromEvent, Results
  <2> QED
    BY <2>2, <2>3
<1>5. CASE waiting # <<>>
  <2>0. PICK c \in Consumers : c = Head(waiting)
    BY <1>1, <1>5, HeadTailProperties
  <2>1. /\ c = waiting[1] /\ Len(waiting) > 0
        /\ Tail(waiting) \in Seq(Consumers) /\ Len(Tail(waiting)) = Len(waiting) - 1
        /\ \A i \in 1..Len(Tail(waiting)) : Tail(waiting)[i] = waiting[i + 1]
        /\ DOMAIN Tail(waiting) = 1..(Len(waiting) - 1) /\ DOMAIN waiting = 1..Len(waiting)
    BY <1>1, <1>5, <2>0, HeadTailProperties, LenProperties
  <2>2. /\ waiting' = Tail(waiting) /\ pc' = [pc EXCEPT ![c] = "woken"]
        /\ slot' = [slot EXCEPT ![c] = e] /\ queue' = queue /\ queue = <<>> /\ got' = got
    BY <1>2, <1>5, <2>0 DEF Push, Hand, StreamInv, NoSleepOnFullQueue
  <2>3. TypeOK'
    BY <1>2, <1>4, <2>1, <2>2 DEF StreamInv, TypeOK, PCs
  <2>4. pc[c] = "waiting"
    BY <2>1 DEF StreamInv, WaitersAsleep
  <2>5. /\ \A d \in Consumers \ {c} :
              /\ pc'[d] = pc[d]
              /\ InFlight(d)' = InFlight(d)
              /\ Owned(d)' = Owned(d)
              /\ EndReported(d)' = EndReported(d)
        /\ InFlight(c)' = {e}
        /\ Owned(c)' = Owned(c) \cup {e}
        /\ ~EndReported(c)' /\ pc'[c] = "woken"
    BY <1>2, <2>1, <2>2, <2>4 DEF StreamInv, TypeOK, InFlight, Owned, EndReported
  <2>6. Taken \in Nat /\ e = Taken + 1 /\ Taken' = Taken + 1
    <3>1. Len(queue) = 0
      BY <2>2
    <3> QED
      BY <1>2, <2>2, <3>1 DEF StreamInv, TypeOK, Taken
  <2>7. QueueIsSuffix'
    BY <1>2, <2>2, <2>6 DEF StreamInv, TypeOK, QueueIsSuffix
  <2>8. ExactlyOnce'
    BY <2>1, <2>5, <2>6 DEF StreamInv, ExactlyOnce
  <2>9. NoSleepOnFullQueue'
    BY <2>2 DEF NoSleepOnFullQueue
  <2>10. WaitersAsleep'
    <3>1. \A i \in DOMAIN waiting' : waiting'[i] = waiting[i + 1] /\ i + 1 \in DOMAIN waiting
      BY <1>1, <2>1, <2>2
    <3>2. \A i \in DOMAIN waiting : i # 1 => i - 1 \in DOMAIN waiting' /\ waiting'[i - 1] = waiting[i]
      BY <1>1, <2>1, <2>2
    <3>3. \A i, j \in DOMAIN waiting' : waiting'[i] = waiting'[j] => i = j
      BY <1>1, <2>1, <2>2, <3>1 DEF StreamInv, WaitersAsleep
    <3>4. \A i \in DOMAIN waiting' : waiting'[i] # c
      BY <1>1, <2>1, <2>2, <3>1 DEF StreamInv, WaitersAsleep
    <3>5. \A d \in Consumers \ {c} :
              (\E i \in DOMAIN waiting : waiting[i] = d) <=> (\E i \in DOMAIN waiting' : waiting'[i] = d)
      BY <2>1, <3>1, <3>2
    <3> QED
      BY <2>1, <2>5, <3>3, <3>4, <3>5 DEF StreamInv, WaitersAsleep
  <2>11. EndOnlyWhenDrained'
    BY <1>3, <2>1, <2>5 DEF EndOnlyWhenDrained
  <2>12. SlotIsNewest'
    <3>1. \A d \in got[c] : d < e
      BY <2>1, <2>6 DEF StreamInv, ExactlyOnce, Owned
    <3> QED
      BY <2>1, <2>2, <2>5, <3>1 DEF StreamInv, SlotIsNewest
  <2> QED
    BY <1>4, <2>3, <2>7, <2>8, <2>9, <2>10, <2>11, <2>12 DEF StreamInv
<1>6. CASE waiting = <<>>
  <2>1. queue' = Append(queue, e) /\ waiting' = waiting /\ pc' = pc /\ slot' = slot /\ got' = got
    BY <1>2, <1>6 DEF Push, Hand
  <2>2. /\ queue' \in Seq(Nat \ {EndMark}) /\ Len(queue') = Len(queue) + 1
        /\ \A i \in 1..Len(queue) : queue'[i] = queue[i]
        /\ queue'[Len(queue) + 1] = e
        /\ DOMAIN queue' = 1..(Len(queue) + 1) /\ DOMAIN queue = 1..Len(queue)
    BY <1>1, <1>2, <2>1, AppendProperties, LenProperties
  <2>3. TypeOK'
    BY <1>2, <1>4, <2>1, <2>2 DEF StreamInv, TypeOK
  <2>4. Taken' = Taken /\ Taken \in Nat /\ e = Taken + Len(queue) + 1
    BY <1>1, <1>2, <2>2 DEF StreamInv, TypeOK, QueueIsSuffix, Taken
  <2>5. QueueIsSuffix'
    <3>1. Len(queue') <= accepted'
      BY <1>1, <1>2, <2>2 DEF StreamInv, TypeOK, QueueIsSuffix
    <3>2. ASSUME NEW i \in 1..(Len(queue) + 1) PROVE queue'[i] = Taken + i
      <4>1. CASE i = Len(queue) + 1
        BY <1>1, <2>2, <2>4, <4>1
      <4>2. CASE i \in 1..Len(queue)
        BY <2>2, <4>2 DEF StreamInv, QueueIsSuffix
      <4> QED
        BY <1>1, <4>1, <4>2
    <3> QED
      BY <2>2, <2>4, <3>1, <3>2 DEF QueueIsSuffix
  <2>6. \A d \in Consumers :
            InFlight(d)' = InFlight(d) /\ Owned(d)' = Owned(d) /\ EndReported(d)' = EndReported(d)
    BY <2>1 DEF InFlight, Owned, EndReported
  <2>7. (ExactlyOnce /\ NoSleepOnFullQueue /\ WaitersAsleep)'
    BY <1>6, <2>1, <2>4, <2>6 DEF StreamInv, ExactlyOnce, NoSleepOnFullQueue, WaitersAsleep
  <2>8. (EndOnlyWhenDrained /\ SlotIsNewest)'
    BY <1>3, <2>1, <2>6 DEF StreamInv, EndOnlyWhenDrained, SlotIsNewest
  <2> QED
    BY <1>4, <2>3, <2>5, <2>7, <2>8 DEF StreamInv
<1> QED
  BY <1>5, <1>6

LEMMA StutterInv == StreamInv /\ UNCHANGED vars => StreamInv'
BY DEF vars, StreamInv, TypeOK, QueueIsSuffix, Taken, ExactlyOnce, NoSleepOnFullQueue,
   WaitersAsleep, EndOnlyWhenDrained, EndReported, ResultFromEvent, SlotIsNewest, Owned, InFlight

LEMMA NextInv == StreamInv /\ [Next]_vars => StreamInv'
<1> SUFFICES ASSUME StreamInv, [Next]_vars PROVE StreamInv'
  OBVIOUS
<1>1. CASE Next
  BY <1>1, PushInv, EndInv, PullInv, ResumeInv, LeaveInv DEF Next
<1>2. CASE UNCHANGED vars
  BY <1>2, StutterInv
<1> QED
  BY <1>1, <1>2

\* Whatever the consumers and producers do, StreamInv holds in every reachable
\* state: nothing is lost, duplicated or reordered, and no waiter is stranded
\* beside a queued event.
THEOREM StreamInvariant == Spec => []StreamInv
<1>1. Init => StreamInv
  BY InitInv
<1>2. StreamInv /\ [Next]_vars => StreamInv'
  BY NextInv
<1> QED
  BY <1>1, <1>2, PTL DEF Spec

\* The variables of an event stream keep their types.
THEOREM TypeCorrect == Spec => []TypeOK
<1>1. StreamInv => TypeOK
  BY DEF StreamInv
<1> QED
  BY <1>1, StreamInvariant, PTL

\* Every accepted event is either still queued, at its place in push order, or
\* was handed to exactly one consumer.
THEOREM ExactlyOnceHolds == Spec => [](QueueIsSuffix /\ ExactlyOnce)
<1>1. StreamInv => QueueIsSuffix /\ ExactlyOnce
  BY DEF StreamInv
<1> QED
  BY <1>1, StreamInvariant, PTL

\* No consumer sleeps beside a queued event, and none is told that the stream
\* ended while events are queued.
THEOREM WakeUpsHold == Spec => [](NoSleepOnFullQueue /\ WaitersAsleep /\ EndOnlyWhenDrained)
<1>1. StreamInv => NoSleepOnFullQueue /\ WaitersAsleep /\ EndOnlyWhenDrained
  BY DEF StreamInv
<1> QED
  BY <1>1, StreamInvariant, PTL

\* result() is the complete event's value from the moment one is accepted.
THEOREM ResultHolds == Spec => []ResultFromEvent
<1>1. StreamInv => ResultFromEvent
  BY DEF StreamInv
<1> QED
  BY <1>1, StreamInvariant, PTL

LEMMA StepInOrder ==
    ASSUME StreamInv, [Next]_vars, NEW c \in Consumers, NEW e \in got'[c] \ got[c], NEW d \in got[c]
    PROVE  d < e
<1>1. got # got'
  OBVIOUS
<1>2. PICK b \in Consumers : Pull(b) \/ Resume(b)
  BY <1>1 DEF Next, vars, Push, End, Leave
<1>3. CASE Pull(b)
  <2>1. TakeQueued(b)
    BY <1>1, <1>3 DEF Pull, ReachEnd, StartWaiting
  <2>2. b = c /\ e = Head(queue) /\ queue # <<>>
    BY <2>1 DEF StreamInv, TypeOK, TakeQueued
  <2>3. Head(queue) = queue[1] /\ 1 \in DOMAIN queue /\ Len(queue) \in Nat
    BY <2>2, HeadTailProperties, LenProperties DEF StreamInv, TypeOK
  <2>4. e = Taken + 1 /\ Taken \in Nat /\ d \in 1..Taken
    BY <2>2, <2>3 DEF StreamInv, TypeOK, QueueIsSuffix, ExactlyOnce, Owned, Taken
  <2> QED
    BY <2>4
<1>4. CASE Resume(b)
  <2>1. b = c /\ e = slot[c] /\ slot[c] # EndMark /\ pc[c] = "woken"
    BY <1>1, <1>4 DEF StreamInv, TypeOK, Resume
  <2> QED
    BY <2>1 DEF StreamInv, SlotIsNewest, InFlight
<1> QED
  BY <1>2, <1>3, <1>4

\* A consumer's loop body sees the events it receives in push order.
THEOREM InOrderHolds == Spec => InOrder
<1>1. StreamInv /\ [Next]_vars =>
          [\A c \in Consumers : \A e \in got'[c] \ got[c], d \in got[c] : d < e]_vars
  BY StepInOrder
<1> QED
  BY <1>1, StreamInvariant, PTL DEF Spec, InOrder

\* A done stream accepts nothing more, and a settled result never changes.
THEOREM FrozenHolds == Spec => Frozen
<1>1. StreamInv /\ [Next]_vars => [FrozenStep]_vars
  <2> SUFFICES ASSUME StreamInv, Next PROVE FrozenStep
    OBVIOUS
  <2>1. ASSUME NEW isLast \in BOOLEAN, Push(isLast) PROVE ~done /\ result = "pending"
    BY <2>1 DEF Push, IgnorePush, StreamInv
  <2>2. ASSUME NEW hasResult \in BOOLEAN, End(hasResult)
        PROVE  accepted' = accepted /\ (result # "pending" => result' = result)
    BY <2>2 DEF End, Settle
  <2>3. ASSUME NEW c \in Consumers, Pull(c) \/ Resume(c) \/ Leave(c)
        PROVE  accepted' = accepted /\ result' = result
    BY <2>3 DEF Pull, Resume, Leave
  <2> QED
    BY <2>1, <2>2, <2>3 DEF Next, FrozenStep
<1> QED
  BY <1>1, StreamInvariant, PTL DEF Spec, Frozen

-------------------------------------------------------------------------------
(* The stream implements EventStreamContract. *)

LEMMA InitRefines == Init => Contract!Init
<1> SUFFICES ASSUME Init PROVE Contract!Init
  OBVIOUS
<1>1. {c \in Consumers : pc[c] = "returned"} = {}
  BY DEF Init
<1> QED
  BY <1>1 DEF Init, Contract!Init

\* push() is an Accept: a stream that is not done has an unsettled result.
LEMMA PushRefines ==
    ASSUME StreamInv, NEW isLast \in BOOLEAN, Push(isLast)
    PROVE  Contract!Accept(isLast)
<1>1. ~done /\ result = "pending"
  BY DEF Push, IgnorePush, StreamInv
<1>2. accepted' = accepted + 1 /\ done' = isLast /\ got' = got
  BY <1>1 DEF Push
<1>3. result' = IF isLast THEN "event" ELSE result
  BY <1>1 DEF Push, Settle
<1>4. \A c \in Consumers : pc'[c] = "returned" <=> pc[c] = "returned"
  <2>1. CASE waiting # <<>>
    <3>1. Head(waiting) = waiting[1] /\ 1 \in DOMAIN waiting /\ Head(waiting) \in Consumers
      BY <2>1, HeadTailProperties, LenProperties DEF StreamInv, TypeOK
    <3>2. pc[Head(waiting)] = "waiting"
      BY <3>1 DEF StreamInv, WaitersAsleep
    <3>3. pc' = [pc EXCEPT ![Head(waiting)] = "woken"]
      BY <2>1 DEF Push, Hand
    <3> QED
      BY <3>1, <3>2, <3>3 DEF StreamInv, TypeOK
  <2>2. CASE waiting = <<>>
    BY <2>2 DEF Push, Hand
  <2> QED
    BY <2>1, <2>2
<1> QED
  BY <1>1, <1>2, <1>3, <1>4 DEF Contract!Accept

\* end() is a Close: the consumers it wakes have not returned yet.
LEMMA EndRefines ==
    ASSUME StreamInv, NEW hasResult \in BOOLEAN, End(hasResult)
    PROVE  Contract!Close
<1>1. done' = TRUE /\ accepted' = accepted /\ got' = got
  BY DEF End
<1>2. result' \in {result, IF result = "pending" THEN "end" ELSE result}
  BY DEF End, Settle
<1>3. \A c \in Consumers : pc'[c] = "returned" <=> pc[c] = "returned"
  <2>1. \A c \in Consumers :
            c \in {waiting[i] : i \in DOMAIN waiting} => pc[c] = "waiting"
    BY DEF StreamInv, WaitersAsleep
  <2> QED
    BY <2>1 DEF End, NotifyAll
<1> QED
  BY <1>1, <1>2, <1>3 DEF Contract!Close

\* An iterator that leaves its loop or goes to sleep is invisible; one that
\* takes an event is a Receive, one that reports the end a Finish.
LEMMA PullRefines ==
    ASSUME StreamInv, NEW c \in Consumers, Pull(c)
    PROVE  Contract!Next \/ UNCHANGED Contract!vars
<1>1. /\ accepted' = accepted /\ done' = done /\ result' = result
      /\ pc[c] = "running" /\ pc \in [Consumers -> PCs]
  BY DEF Pull, StreamInv, TypeOK
<1>2. CASE TakeQueued(c)
  <2> DEFINE e == Head(queue)
  <2>1. queue # <<>> /\ Head(queue) = queue[1] /\ 1 \in DOMAIN queue /\ Len(queue) \in Nat \ {0}
    BY <1>2, HeadTailProperties, LenProperties, EmptySeq DEF TakeQueued, StreamInv, TypeOK
  <2>2. e = Taken + 1 /\ Taken \in Nat /\ e \in 1..accepted
    BY <2>1 DEF StreamInv, TypeOK, QueueIsSuffix, Taken
  <2>3. \A d \in Consumers : \A f \in got[d] : f < e
    BY <2>2 DEF StreamInv, ExactlyOnce, Owned
  <2>4. \A d \in Consumers : e \notin got[d]
    <3>1. e \in Nat /\ ~(e < e)
      BY <2>2
    <3> HIDE DEF e
    <3> QED
      BY <2>3, <3>1
  <2>5. Contract!Receive(c, e)
    BY <1>1, <1>2, <2>3, <2>4 DEF TakeQueued, Contract!Receive
  <2> QED
    BY <2>2, <2>5 DEF Contract!Next
<1>3. CASE ReachEnd(c)
  <2>1. done /\ got' = got /\ pc' = [pc EXCEPT ![c] = "returned"]
    BY <1>3 DEF ReachEnd
  <2>2. Contract!Finish(c)
    BY <1>1, <2>1 DEF Contract!Finish
  <2> QED
    BY <2>2 DEF Contract!Next
<1>4. CASE StartWaiting(c)
  <2>1. got' = got /\ \A d \in Consumers : pc'[d] = "returned" <=> pc[d] = "returned"
    BY <1>1, <1>4 DEF StartWaiting
  <2> QED
    BY <1>1, <2>1 DEF Contract!vars
<1> QED
  BY <1>2, <1>3, <1>4 DEF Pull

LEMMA ResumeRefines ==
    ASSUME StreamInv, NEW c \in Consumers, Resume(c)
    PROVE  Contract!Next
<1>1. /\ accepted' = accepted /\ done' = done /\ result' = result
      /\ pc[c] = "woken" /\ pc \in [Consumers -> PCs]
  BY DEF Resume, StreamInv, TypeOK
<1>2. CASE slot[c] = EndMark
  <2>1. done
    BY <1>1, <1>2 DEF StreamInv, EndOnlyWhenDrained, EndReported
  <2>2. got' = got /\ pc' = [pc EXCEPT ![c] = "returned"]
    BY <1>2 DEF Resume
  <2>3. Contract!Finish(c)
    BY <1>1, <2>1, <2>2 DEF Contract!Finish
  <2> QED
    BY <2>3 DEF Contract!Next
<1>3. CASE slot[c] # EndMark
  <2> DEFINE e == slot[c]
  <2>1. InFlight(c) = {e} /\ Owned(c) = got[c] \cup {e}
    BY <1>1, <1>3 DEF InFlight, Owned
  <2>2. e \in 1..Taken /\ Taken \in Nat /\ Taken <= accepted /\ accepted \in Nat
    <3>1. Len(queue) \in Nat
      BY LenProperties DEF StreamInv, TypeOK
    <3> QED
      BY <2>1, <3>1 DEF StreamInv, TypeOK, QueueIsSuffix, ExactlyOnce, Taken
  <2>3. \A f \in got[c] : f < e
    BY <1>1, <2>1 DEF StreamInv, SlotIsNewest
  <2>4. \A d \in Consumers : e \notin got[d]
    <3>1. e \notin got[c]
      BY <2>2, <2>3
    <3>2. \A d \in Consumers \ {c} : e \notin got[d]
      BY <2>1 DEF StreamInv, ExactlyOnce, Owned
    <3> QED
      BY <3>1, <3>2
  <2>5. got' = [got EXCEPT ![c] = @ \cup {e}] /\ pc' = [pc EXCEPT ![c] = "running"]
    BY <1>3 DEF Resume
  <2>6. Contract!Receive(c, e)
    BY <1>1, <2>3, <2>4, <2>5 DEF Contract!Receive
  <2>7. e \in 1..accepted
    BY <2>2
  <2> QED
    BY <2>6, <2>7 DEF Contract!Next
<1> QED
  BY <1>2, <1>3

\* The stream of event-stream.ts keeps the contract its users rely on: every
\* step of push(), end() and the iterators maps to a step of the contract.
THEOREM StreamImplementsContract == Spec => ImplementsContract
<1>1. StreamInv /\ [Next]_vars => [Contract!Next]_(Contract!vars)
  <2> SUFFICES ASSUME StreamInv, [Next]_vars
               PROVE  Contract!Next \/ UNCHANGED Contract!vars
    OBVIOUS
  <2>1. ASSUME NEW isLast \in BOOLEAN, Push(isLast) PROVE Contract!Next
    BY <2>1, PushRefines DEF Contract!Next
  <2>2. ASSUME NEW hasResult \in BOOLEAN, End(hasResult) PROVE Contract!Next
    BY <2>2, EndRefines DEF Contract!Next
  <2>3. ASSUME NEW c \in Consumers, Leave(c) PROVE UNCHANGED Contract!vars
    <3>1. /\ accepted' = accepted /\ done' = done /\ result' = result /\ got' = got
          /\ \A d \in Consumers : pc'[d] = "returned" <=> pc[d] = "returned"
      BY <2>3 DEF Leave, StreamInv, TypeOK
    <3> QED
      BY <3>1 DEF Contract!vars
  <2>4. CASE UNCHANGED vars
    BY <2>4 DEF vars, Contract!vars
  <2> QED
    BY <2>1, <2>2, <2>3, <2>4, PullRefines, ResumeRefines DEF Next
<1> QED
  BY <1>1, InitRefines, StreamInvariant, PTL DEF Spec, ImplementsContract, Contract!Spec
===============================================================================
