------------------------------- MODULE AgentProofs -------------------------------
(***************************************************************************)
(* The agent and its loops, for every number of run slots, every bound on  *)
(* the inputs and the responses, and both queue modes.                     *)
(***************************************************************************)
EXTENDS Agent, SequenceLemmas, TLAPS

(* What is polled, and the events of messages and tools.                      *)

LEMMA PollType ==
    ASSUME NEW queue \in Seq(UserMessages), NEW mode
    PROVE  /\ Popped(queue, mode) \in Seq(UserMessages)
           /\ Rest(queue, mode) \in Seq(UserMessages)
<1>1. CASE mode = "one-at-a-time" /\ queue # <<>>
  <2>1. Head(queue) \in UserMessages /\ Tail(queue) \in Seq(UserMessages)
    BY <1>1, HeadTailProperties
  <2>2. <<Head(queue)>> \in Seq(UserMessages)
    BY <2>1
  <2> QED
    BY <1>1, <2>1, <2>2 DEF Popped, Rest
<1>2. CASE ~(mode = "one-at-a-time" /\ queue # <<>>)
  <2>1. Popped(queue, mode) = queue /\ Rest(queue, mode) = <<>>
    BY <1>2 DEF Popped, Rest
  <2> QED
    BY <2>1
<1> QED
  BY <1>1, <1>2

LEMMA Subsets ==
    /\ UserMessages \subseteq MessageSet /\ AssistantMessages \subseteq MessageSet
    /\ ToolResults \subseteq MessageSet
    /\ TurnStart \in EventSet /\ TurnEnd \in EventSet /\ AgentEnd \in EventSet
    /\ Event("agent_start", None) \in EventSet
    /\ \A call \in ToolCalls : ToolStart(call) \in EventSet /\ ToolEnd(call) \in EventSet
    /\ \A m \in MessageSet : Event("message_start", m) \in EventSet /\ Event("message_end", m) \in EventSet
    /\ Partial \in AssistantMessages
<1>1. MaxCalls \in Nat
  BY LoopAssumption
<1>2. Partial \in AssistantMessages
  BY <1>1 DEF Partial, Message, AssistantMessages
<1> QED
  BY <1>2 DEF MessageSet, EventSet, TurnStart, TurnEnd, AgentEnd, Event, ToolStart, ToolEnd, Message

\* The two events of a message, at their places.
LEMMA AnnounceShape ==
    ASSUME NEW ms \in Seq(MessageSet)
    PROVE  /\ Announce(ms) \in Seq(EventSet)
           /\ Len(Announce(ms)) = 2 * Len(ms)
           /\ \A i \in 1..Len(ms) :
                  /\ Announce(ms)[2 * i - 1] = Event("message_start", ms[i])
                  /\ Announce(ms)[2 * i] = Event("message_end", ms[i])
           /\ \A k \in 1..(2 * Len(ms)) : \E i \in 1..Len(ms) : k = 2 * i - 1 \/ k = 2 * i
<1>1. Len(ms) \in Nat
  OBVIOUS
<1>2. \A k \in 1..(2 * Len(ms)) : \E i \in 1..Len(ms) : k = 2 * i - 1 \/ k = 2 * i
  <2> SUFFICES ASSUME NEW k \in 1..(2 * Len(ms))
               PROVE  \E i \in 1..Len(ms) : k = 2 * i - 1 \/ k = 2 * i
    OBVIOUS
  <2>1. (k + 1) \div 2 \in 1..Len(ms) /\ (k = 2 * ((k + 1) \div 2) - 1 \/ k = 2 * ((k + 1) \div 2))
    BY <1>1
  <2> QED
    BY <2>1
<1>3. \A k \in 1..(2 * Len(ms)) :
          Announce(ms)[k] = Event(IF k % 2 = 1 THEN "message_start" ELSE "message_end", ms[(k + 1) \div 2])
  BY DEF Announce
<1>4. \A i \in 1..Len(ms) :
          /\ Announce(ms)[2 * i - 1] = Event("message_start", ms[i])
          /\ Announce(ms)[2 * i] = Event("message_end", ms[i])
  <2> SUFFICES ASSUME NEW i \in 1..Len(ms)
               PROVE  /\ Announce(ms)[2 * i - 1] = Event("message_start", ms[i])
                      /\ Announce(ms)[2 * i] = Event("message_end", ms[i])
    OBVIOUS
  <2>1. 2 * i - 1 \in 1..(2 * Len(ms)) /\ 2 * i \in 1..(2 * Len(ms))
    BY <1>1
  <2>2. (2 * i - 1) % 2 = 1 /\ (2 * i - 1 + 1) \div 2 = i
    OBVIOUS
  <2>3. (2 * i) % 2 = 0 /\ (2 * i + 1) \div 2 = i
    OBVIOUS
  <2> QED
    BY <1>3, <2>1, <2>2, <2>3
<1>5. \A k \in 1..(2 * Len(ms)) : Announce(ms)[k] \in EventSet
  <2> SUFFICES ASSUME NEW k \in 1..(2 * Len(ms)) PROVE Announce(ms)[k] \in EventSet
    OBVIOUS
  <2>1. PICK i \in 1..Len(ms) : k = 2 * i - 1 \/ k = 2 * i
    BY <1>2
  <2>2. ms[i] \in MessageSet
    OBVIOUS
  <2>3. Event("message_start", ms[i]) \in EventSet /\ Event("message_end", ms[i]) \in EventSet
    BY <2>2, Subsets
  <2> QED
    BY <1>4, <2>1, <2>3
<1>6. Announce(ms) \in Seq(EventSet) /\ Len(Announce(ms)) = 2 * Len(ms)
  <2>1. 2 * Len(ms) \in Nat
    BY <1>1
  <2>2. Announce(ms) = [k \in 1..(2 * Len(ms)) |-> Announce(ms)[k]]
    BY DEF Announce
  <2> HIDE DEF Announce
  <2> QED
    BY <1>5, <2>1, <2>2
<1> QED
  BY <1>2, <1>4, <1>6

LEMMA ToolEventsType ==
    ASSUME NEW call \in ToolCalls, NEW result \in MessageSet
    PROVE  ToolEvents(call, result) \in Seq(EventSet)
<1>1. /\ ToolEnd(call) \in EventSet
      /\ Event("message_start", result) \in EventSet /\ Event("message_end", result) \in EventSet
  BY Subsets
<1> QED
  BY <1>1 DEF ToolEvents

LEMMA SkippedType ==
    ASSUME NEW call \in ToolCalls
    PROVE  /\ Skipped(call) \in ToolResults /\ Skipped(call) \in MessageSet
           /\ SkipEvents(call) \in Seq(EventSet)
<1>1. Skipped(call) \in ToolResults
  BY DEF Skipped, Message, ToolResults
<1>2. /\ Skipped(call) \in MessageSet /\ ToolStart(call) \in EventSet /\ ToolEnd(call) \in EventSet
      /\ Event("message_start", Skipped(call)) \in EventSet
      /\ Event("message_end", Skipped(call)) \in EventSet
  BY <1>1, Subsets
<1> QED
  BY <1>1, <1>2 DEF SkipEvents

\* The four events of each skipped call, at their places.
LEMMA AllSkippedShape ==
    ASSUME NEW calls \in Seq(ToolCalls)
    PROVE  /\ AllSkipped(calls) \in Seq(EventSet)
           /\ Len(AllSkipped(calls)) = 4 * Len(calls)
           /\ \A i \in 1..Len(calls) :
                  /\ AllSkipped(calls)[4 * i - 3] = ToolStart(calls[i])
                  /\ AllSkipped(calls)[4 * i - 2] = ToolEnd(calls[i])
                  /\ AllSkipped(calls)[4 * i - 1] = Event("message_start", Skipped(calls[i]))
                  /\ AllSkipped(calls)[4 * i] = Event("message_end", Skipped(calls[i]))
           /\ \A k \in 1..(4 * Len(calls)) : \E i \in 1..Len(calls) :
                  k = 4 * i - 3 \/ k = 4 * i - 2 \/ k = 4 * i - 1 \/ k = 4 * i
<1>1. Len(calls) \in Nat
  OBVIOUS
<1>2. \A k \in 1..(4 * Len(calls)) : \E i \in 1..Len(calls) :
          k = 4 * i - 3 \/ k = 4 * i - 2 \/ k = 4 * i - 1 \/ k = 4 * i
  <2> SUFFICES ASSUME NEW k \in 1..(4 * Len(calls))
               PROVE  \E i \in 1..Len(calls) : k = 4 * i - 3 \/ k = 4 * i - 2 \/ k = 4 * i - 1 \/ k = 4 * i
    OBVIOUS
  <2>1. /\ (k + 3) \div 4 \in 1..Len(calls)
        /\ \/ k = 4 * ((k + 3) \div 4) - 3 \/ k = 4 * ((k + 3) \div 4) - 2
           \/ k = 4 * ((k + 3) \div 4) - 1 \/ k = 4 * ((k + 3) \div 4)
    BY <1>1
  <2> QED
    BY <2>1
<1>3. \A k \in 1..(4 * Len(calls)) :
          AllSkipped(calls)[k] = SkipEvents(calls[(k + 3) \div 4])[((k + 3) % 4) + 1]
  BY DEF AllSkipped
<1>4. \A i \in 1..Len(calls) :
          /\ AllSkipped(calls)[4 * i - 3] = SkipEvents(calls[i])[1]
          /\ AllSkipped(calls)[4 * i - 2] = SkipEvents(calls[i])[2]
          /\ AllSkipped(calls)[4 * i - 1] = SkipEvents(calls[i])[3]
          /\ AllSkipped(calls)[4 * i] = SkipEvents(calls[i])[4]
  <2> SUFFICES ASSUME NEW i \in 1..Len(calls)
               PROVE  /\ AllSkipped(calls)[4 * i - 3] = SkipEvents(calls[i])[1]
                      /\ AllSkipped(calls)[4 * i - 2] = SkipEvents(calls[i])[2]
                      /\ AllSkipped(calls)[4 * i - 1] = SkipEvents(calls[i])[3]
                      /\ AllSkipped(calls)[4 * i] = SkipEvents(calls[i])[4]
    OBVIOUS
  <2>1. /\ 4 * i - 3 \in 1..(4 * Len(calls)) /\ 4 * i - 2 \in 1..(4 * Len(calls))
        /\ 4 * i - 1 \in 1..(4 * Len(calls)) /\ 4 * i \in 1..(4 * Len(calls))
    BY <1>1
  <2>2. /\ (4 * i - 3 + 3) \div 4 = i /\ (4 * i - 2 + 3) \div 4 = i
        /\ (4 * i - 1 + 3) \div 4 = i /\ (4 * i + 3) \div 4 = i
    OBVIOUS
  <2>3. /\ ((4 * i - 3 + 3) % 4) + 1 = 1 /\ ((4 * i - 2 + 3) % 4) + 1 = 2
        /\ ((4 * i - 1 + 3) % 4) + 1 = 3 /\ ((4 * i + 3) % 4) + 1 = 4
    OBVIOUS
  <2> QED
    BY <1>3, <2>1, <2>2, <2>3
<1>5. \A i \in 1..Len(calls) :
          /\ AllSkipped(calls)[4 * i - 3] = ToolStart(calls[i])
          /\ AllSkipped(calls)[4 * i - 2] = ToolEnd(calls[i])
          /\ AllSkipped(calls)[4 * i - 1] = Event("message_start", Skipped(calls[i]))
          /\ AllSkipped(calls)[4 * i] = Event("message_end", Skipped(calls[i]))
  BY <1>4 DEF SkipEvents
<1>6. \A k \in 1..(4 * Len(calls)) : AllSkipped(calls)[k] \in EventSet
  <2> SUFFICES ASSUME NEW k \in 1..(4 * Len(calls)) PROVE AllSkipped(calls)[k] \in EventSet
    OBVIOUS
  <2>1. PICK i \in 1..Len(calls) : k = 4 * i - 3 \/ k = 4 * i - 2 \/ k = 4 * i - 1 \/ k = 4 * i
    BY <1>2
  <2>2. calls[i] \in ToolCalls
    OBVIOUS
  <2>3. /\ Skipped(calls[i]) \in MessageSet
        /\ ToolStart(calls[i]) \in EventSet /\ ToolEnd(calls[i]) \in EventSet
    BY <2>2, SkippedType, Subsets
  <2>4. /\ Event("message_start", Skipped(calls[i])) \in EventSet
        /\ Event("message_end", Skipped(calls[i])) \in EventSet
    BY <2>3, Subsets
  <2> QED
    BY <1>5, <2>1, <2>3, <2>4
<1>7. AllSkipped(calls) \in Seq(EventSet) /\ Len(AllSkipped(calls)) = 4 * Len(calls)
  <2>1. 4 * Len(calls) \in Nat
    BY <1>1
  <2>2. AllSkipped(calls) = [k \in 1..(4 * Len(calls)) |-> AllSkipped(calls)[k]]
    BY DEF AllSkipped
  <2> HIDE DEF AllSkipped
  <2> QED
    BY <1>6, <2>1, <2>2
<1> QED
  BY <1>2, <1>5, <1>7

-------------------------------------------------------------------------------
(* Paths through the event grammar.  A place is a phase with the calls whose  *)
(* execution is open there: the one being executed, and none elsewhere.       *)

Phases == {"idle", "between", "asking", "input", "response", "answered", "tool", "toolEnd", "result"}

Place(p, open) == [phase |-> p, open |-> open]

Places ==
    {Place(p, {}) : p \in Phases \ {"tool"}} \cup {Place("tool", {call}) : call \in ToolCalls}

After(place, event) == Place(NextPhase(place.phase, event), OpenCalls(place.open, event))

Grammatical == {<<place, event, After(place, event)>> : place \in Places, event \in EventSet}

\* The events lead from one place to another, through places of the grammar only.
Path(from, events, to) == Leads(Grammatical, Places, from, events, to)

LEMMA PathBy ==
    ASSUME NEW events \in Seq(EventSet), NEW path \in [1..(Len(events) + 1) -> Places],
           \A i \in 1..Len(events) : path[i + 1] = After(path[i], events[i])
    PROVE  Path(path[1], events, path[Len(events) + 1])
<1>1. \A i \in 1..Len(events) : events[i] \in EventSet /\ path[i] \in Places
  OBVIOUS
<1>2. \A i \in 1..Len(events) : <<path[i], events[i], path[i + 1]>> \in Grammatical
  BY <1>1 DEF Grammatical
<1> QED
  BY <1>2 DEF Path, Leads

LEMMA PathEmpty ==
    ASSUME NEW place \in Places
    PROVE  Path(place, <<>>, place)
BY LeadsEmpty DEF Path

LEMMA PathOne ==
    ASSUME NEW place \in Places, NEW event \in EventSet, After(place, event) \in Places
    PROVE  Path(place, <<event>>, After(place, event))
<1>1. <<place, event, After(place, event)>> \in Grammatical
  BY DEF Grammatical
<1> QED
  BY <1>1, LeadsOne DEF Path

\* One path after another.
LEMMA PathConcat ==
    ASSUME NEW S, NEW s \in Seq(S), NEW t \in Seq(S), NEW a, NEW b, NEW c,
           Path(a, s, b), Path(b, t, c)
    PROVE  Path(a, s \o t, c)
BY LeadsConcat DEF Path

\* What is left of a path after its first event.
LEMMA PathTail ==
    ASSUME NEW S, NEW s \in Seq(S), s # <<>>, NEW a, NEW b, Path(a, s, b)
    PROVE  /\ a \in Places /\ After(a, Head(s)) \in Places
           /\ Path(After(a, Head(s)), Tail(s), b)
<1>1. PICK next \in Places : /\ a \in Places /\ <<a, Head(s), next>> \in Grammatical
                             /\ Path(next, Tail(s), b)
  BY LeadsTail DEF Path
<1>2. next = After(a, Head(s))
  BY <1>1 DEF Grammatical
<1> QED
  BY <1>1, <1>2

LEMMA PathEnds ==
    ASSUME NEW a, NEW b, Path(a, <<>>, b)
    PROVE  a \in Places /\ b = a
BY LeadsEnds DEF Path

-------------------------------------------------------------------------------
(* The paths of the loop's own sequences of events.                           *)

LEMMA PlacesOf ==
    /\ \A p \in Phases \ {"tool"} : Place(p, {}) \in Places
    /\ \A call \in ToolCalls : Place("tool", {call}) \in Places
  BY DEF Places

\* Each event where the loop pushes it.
LEMMA Steps ==
    /\ After(Place("idle", {}), Event("agent_start", None)) = Place("between", {})
    /\ After(Place("between", {}), TurnStart) = Place("asking", {})
    /\ After(Place("between", {}), AgentEnd) = Place("idle", {})
    /\ After(Place("answered", {}), TurnEnd) = Place("between", {})
    /\ \A m \in UserMessages : After(Place("asking", {}), Event("message_start", m)) = Place("input", {})
    /\ \A m \in UserMessages : After(Place("input", {}), Event("message_end", m)) = Place("asking", {})
    /\ \A m \in AssistantMessages : After(Place("asking", {}), Event("message_start", m)) = Place("response", {})
    /\ \A m \in AssistantMessages : After(Place("response", {}), Event("message_end", m)) = Place("answered", {})
    /\ \A call \in ToolCalls : After(Place("answered", {}), ToolStart(call)) = Place("tool", {call})
    /\ \A call \in ToolCalls : After(Place("tool", {call}), ToolEnd(call)) = Place("toolEnd", {})
    /\ \A m \in ToolResults : After(Place("toolEnd", {}), Event("message_start", m)) = Place("result", {})
    /\ \A m \in ToolResults : After(Place("result", {}), Event("message_end", m)) = Place("answered", {})
<1>1. /\ After(Place("idle", {}), Event("agent_start", None)) = Place("between", {})
      /\ After(Place("between", {}), TurnStart) = Place("asking", {})
      /\ After(Place("between", {}), AgentEnd) = Place("idle", {})
      /\ After(Place("answered", {}), TurnEnd) = Place("between", {})
  BY DEF After, Place, NextPhase, OpenCalls, Event, TurnStart, TurnEnd, AgentEnd
<1>2. \A m \in UserMessages : After(Place("asking", {}), Event("message_start", m)) = Place("input", {})
  BY DEF After, Place, NextPhase, OpenCalls, Event, UserMessages
<1>3. \A m \in UserMessages : After(Place("input", {}), Event("message_end", m)) = Place("asking", {})
  BY DEF After, Place, NextPhase, OpenCalls, Event, UserMessages
<1>4. \A m \in AssistantMessages : After(Place("asking", {}), Event("message_start", m)) = Place("response", {})
  BY DEF After, Place, NextPhase, OpenCalls, Event, AssistantMessages
<1>5. \A m \in AssistantMessages : After(Place("response", {}), Event("message_end", m)) = Place("answered", {})
  BY DEF After, Place, NextPhase, OpenCalls, Event, AssistantMessages
<1>6. \A call \in ToolCalls : After(Place("answered", {}), ToolStart(call)) = Place("tool", {call})
  BY DEF After, Place, NextPhase, OpenCalls, Event, ToolStart, Message
<1>7. \A call \in ToolCalls : After(Place("tool", {call}), ToolEnd(call)) = Place("toolEnd", {})
  BY DEF After, Place, NextPhase, OpenCalls, Event, ToolEnd, Message
<1>8. \A m \in ToolResults : After(Place("toolEnd", {}), Event("message_start", m)) = Place("result", {})
  BY DEF After, Place, NextPhase, OpenCalls, Event, ToolResults
<1>9. \A m \in ToolResults : After(Place("result", {}), Event("message_end", m)) = Place("answered", {})
  BY DEF After, Place, NextPhase, OpenCalls, Event, ToolResults
<1> QED
  BY <1>1, <1>2, <1>3, <1>4, <1>5, <1>6, <1>7, <1>8, <1>9

\* Announcing the user's messages stays before the response of a turn.
LEMMA AnnouncePath ==
    ASSUME NEW ms \in Seq(UserMessages)
    PROVE  Path(Place("asking", {}), Announce(ms), Place("asking", {}))
<1> DEFINE n == Len(ms)  asking == Place("asking", {})  input == Place("input", {})
           path == [k \in 1..(2 * n + 1) |-> IF k % 2 = 1 THEN asking ELSE input]
<1>1. n \in Nat /\ ms \in Seq(MessageSet)
  BY Subsets, SeqMonotonic
<1>2. asking \in Places /\ input \in Places
  BY PlacesOf DEF Phases
<1>3. /\ Len(Announce(ms)) = 2 * n
      /\ \A i \in 1..n : /\ Announce(ms)[2 * i - 1] = Event("message_start", ms[i])
                         /\ Announce(ms)[2 * i] = Event("message_end", ms[i])
      /\ \A k \in 1..(2 * n) : \E i \in 1..n : k = 2 * i - 1 \/ k = 2 * i
  BY <1>1, AnnounceShape
<1>4. \A i \in 1..n : /\ After(asking, Event("message_start", ms[i])) = input
                      /\ After(input, Event("message_end", ms[i])) = asking
  BY Steps
<1> HIDE DEF n, asking, input
<1>5. path \in [1..(2 * n + 1) -> Places]
  BY <1>2
<1>6. path[1] = asking /\ path[2 * n + 1] = asking
  <2>1. 1 \in 1..(2 * n + 1) /\ 2 * n + 1 \in 1..(2 * n + 1) /\ 1 % 2 = 1 /\ (2 * n + 1) % 2 = 1
    BY <1>1
  <2> QED
    BY <2>1
<1>7. \A k \in 1..(2 * n) : path[k + 1] = After(path[k], Announce(ms)[k])
  <2> SUFFICES ASSUME NEW k \in 1..(2 * n) PROVE path[k + 1] = After(path[k], Announce(ms)[k])
    OBVIOUS
  <2>1. k \in 1..(2 * n + 1) /\ k + 1 \in 1..(2 * n + 1)
    BY <1>1
  <2>2. PICK i \in 1..n : k = 2 * i - 1 \/ k = 2 * i
    BY <1>3
  <2>3. CASE k = 2 * i - 1
    <3>1. k % 2 = 1 /\ (k + 1) % 2 # 1
      BY <2>3
    <3>2. path[k] = asking /\ path[k + 1] = input
      BY <2>1, <3>1
    <3> HIDE DEF path
    <3> QED
      BY <1>3, <1>4, <2>3, <3>2
  <2>4. CASE k = 2 * i
    <3>1. k % 2 # 1 /\ (k + 1) % 2 = 1
      BY <2>4
    <3>2. path[k] = input /\ path[k + 1] = asking
      BY <2>1, <3>1
    <3> HIDE DEF path
    <3> QED
      BY <1>3, <1>4, <2>4, <3>2
  <2> QED
    BY <2>2, <2>3, <2>4
<1> HIDE DEF path
<1>8. Path(asking, Announce(ms), asking)
  <2>1. Announce(ms) \in Seq(EventSet)
    BY <1>1, AnnounceShape
  <2> QED
    BY <1>3, <1>5, <1>6, <1>7, <2>1, PathBy
<1> QED
  BY <1>8 DEF asking

\* A tool that ran: its end, then its result.
LEMMA ToolEventsPath ==
    ASSUME NEW call \in ToolCalls, NEW result \in ToolResults
    PROVE  Path(Place("tool", {call}), ToolEvents(call, result), Place("answered", {}))
<1> DEFINE tool == Place("tool", {call})  ended == Place("toolEnd", {})
           given == Place("result", {})  answered == Place("answered", {})
           path == [k \in 1..4 |-> IF k = 1 THEN tool ELSE IF k = 2 THEN ended
                                   ELSE IF k = 3 THEN given ELSE answered]
           events == ToolEvents(call, result)
<1>1. tool \in Places /\ ended \in Places /\ given \in Places /\ answered \in Places
  BY PlacesOf DEF Phases
<1>2. /\ Len(events) = 3 /\ events[1] = ToolEnd(call)
      /\ events[2] = Event("message_start", result) /\ events[3] = Event("message_end", result)
  BY DEF ToolEvents
<1>3. /\ After(tool, events[1]) = ended /\ After(ended, events[2]) = given
      /\ After(given, events[3]) = answered
  BY <1>2, Steps
<1> HIDE DEF tool, ended, given, answered, events
<1>4. /\ path \in [1..4 -> Places]
      /\ path[1] = tool /\ path[2] = ended /\ path[3] = given /\ path[4] = answered
  BY <1>1
<1> HIDE DEF path
<1>5. \A i \in 1..3 : path[i + 1] = After(path[i], events[i])
  <2>1. path[1 + 1] = ended /\ path[2 + 1] = given /\ path[3 + 1] = answered
    BY <1>4
  <2>2. \A i \in 1..3 : i = 1 \/ i = 2 \/ i = 3
    OBVIOUS
  <2> QED
    BY <1>3, <1>4, <2>1, <2>2
<1>6. Path(tool, events, answered)
  <2>1. Len(events) + 1 = 4
    BY <1>2
  <2>2. events \in Seq(EventSet)
    BY Subsets, ToolEventsType DEF events
  <2> QED
    BY <1>2, <1>4, <1>5, <2>1, <2>2, PathBy
<1> QED
  BY <1>6 DEF tool, events, answered

\* Skipped calls look to a listener like calls that ran, one after the other.
LEMMA AllSkippedPath ==
    ASSUME NEW calls \in Seq(ToolCalls)
    PROVE  Path(Place("answered", {}), AllSkipped(calls), Place("answered", {}))
<1> DEFINE n == Len(calls)  events == AllSkipped(calls)  tool(i) == Place("tool", {calls[i]})
           ended == Place("toolEnd", {})  given == Place("result", {})  answered == Place("answered", {})
           path == [k \in 1..(4 * n + 1) |-> IF k % 4 = 1 THEN answered
                                             ELSE IF k % 4 = 2 THEN tool((k + 2) \div 4)
                                             ELSE IF k % 4 = 3 THEN ended ELSE given]
<1>1. n \in Nat
  OBVIOUS
<1>2. ended \in Places /\ given \in Places /\ answered \in Places /\ \A i \in 1..n : tool(i) \in Places
  BY PlacesOf DEF Phases
<1>3. /\ Len(events) = 4 * n
      /\ \A i \in 1..n : /\ events[4 * i - 3] = ToolStart(calls[i])
                         /\ events[4 * i - 2] = ToolEnd(calls[i])
                         /\ events[4 * i - 1] = Event("message_start", Skipped(calls[i]))
                         /\ events[4 * i] = Event("message_end", Skipped(calls[i]))
      /\ \A k \in 1..(4 * n) : \E i \in 1..n :
             k = 4 * i - 3 \/ k = 4 * i - 2 \/ k = 4 * i - 1 \/ k = 4 * i
  BY AllSkippedShape
<1>4. \A i \in 1..n : /\ After(answered, ToolStart(calls[i])) = tool(i)
                      /\ After(tool(i), ToolEnd(calls[i])) = ended
                      /\ After(ended, Event("message_start", Skipped(calls[i]))) = given
                      /\ After(given, Event("message_end", Skipped(calls[i]))) = answered
  <2> SUFFICES ASSUME NEW i \in 1..n
               PROVE  /\ After(answered, ToolStart(calls[i])) = tool(i)
                      /\ After(tool(i), ToolEnd(calls[i])) = ended
                      /\ After(ended, Event("message_start", Skipped(calls[i]))) = given
                      /\ After(given, Event("message_end", Skipped(calls[i]))) = answered
    OBVIOUS
  <2>1. calls[i] \in ToolCalls
    OBVIOUS
  <2>2. Skipped(calls[i]) \in ToolResults
    BY <2>1, SkippedType
  <2> QED
    BY <2>1, <2>2, Steps
<1> HIDE DEF n, events, tool, ended, given, answered
<1>5. path \in [1..(4 * n + 1) -> Places]
  <2> SUFFICES ASSUME NEW k \in 1..(4 * n + 1) PROVE path[k] \in Places
    BY Zenon
  <2>1. k % 4 = 2 => (k + 2) \div 4 \in 1..n
    BY <1>1
  <2> QED
    BY <1>2, <2>1
<1>6. path[1] = answered /\ path[4 * n + 1] = answered
  <2>1. 1 \in 1..(4 * n + 1) /\ 4 * n + 1 \in 1..(4 * n + 1) /\ 1 % 4 = 1 /\ (4 * n + 1) % 4 = 1
    BY <1>1
  <2> QED
    BY <2>1
<1>7. \A k \in 1..(4 * n) : path[k + 1] = After(path[k], events[k])
  <2> SUFFICES ASSUME NEW k \in 1..(4 * n) PROVE path[k + 1] = After(path[k], events[k])
    OBVIOUS
  <2>1. k \in 1..(4 * n + 1) /\ k + 1 \in 1..(4 * n + 1)
    BY <1>1
  <2>2. PICK i \in 1..n : k = 4 * i - 3 \/ k = 4 * i - 2 \/ k = 4 * i - 1 \/ k = 4 * i
    BY <1>3
  <2>3. CASE k = 4 * i - 3
    <3>1. k % 4 = 1 /\ (k + 1) % 4 = 2 /\ ((k + 1) + 2) \div 4 = i
      BY <2>3
    <3>2. path[k] = answered /\ path[k + 1] = tool(i)
      BY <2>1, <3>1
    <3> HIDE DEF path
    <3> QED
      BY <1>3, <1>4, <2>3, <3>2
  <2>4. CASE k = 4 * i - 2
    <3>1. k % 4 = 2 /\ (k + 1) % 4 = 3 /\ (k + 2) \div 4 = i
      BY <2>4
    <3>2. path[k] = tool(i) /\ path[k + 1] = ended
      BY <2>1, <3>1
    <3> HIDE DEF path
    <3> QED
      BY <1>3, <1>4, <2>4, <3>2
  <2>5. CASE k = 4 * i - 1
    <3>1. k % 4 = 3 /\ (k + 1) % 4 = 0
      BY <2>5
    <3>2. path[k] = ended /\ path[k + 1] = given
      BY <2>1, <3>1
    <3> HIDE DEF path
    <3> QED
      BY <1>3, <1>4, <2>5, <3>2
  <2>6. CASE k = 4 * i
    <3>1. k % 4 = 0 /\ (k + 1) % 4 = 1
      BY <2>6
    <3>2. path[k] = given /\ path[k + 1] = answered
      BY <2>1, <3>1
    <3> HIDE DEF path
    <3> QED
      BY <1>3, <1>4, <2>6, <3>2
  <2> QED
    BY <2>2, <2>3, <2>4, <2>5, <2>6
<1> HIDE DEF path
<1>8. Path(answered, events, answered)
  <2>1. events \in Seq(EventSet)
    BY AllSkippedShape DEF events
  <2> QED
    BY <1>3, <1>5, <1>6, <1>7, <2>1, PathBy
<1> QED
  BY <1>8 DEF answered, events

-------------------------------------------------------------------------------
(* A step of a loop: what it pushes leads from where the events so far end to *)
(* where the loop stands next.                                                *)

\* Where in the grammar the events of a loop end.
Target(l) ==
    IF \/ l.pc \in {"request", "crashed"}
       \/ l.pc = "polled" /\ l.first
       \/ l.pc = "response" /\ ~l.partial
    THEN Place("asking", {})
    ELSE IF l.pc = "response" THEN Place("response", {})
    ELSE IF l.pc \in {"polled", "followUp"} THEN Place("between", {})
    ELSE IF l.pc \in {"responded", "toolPolled", "toolsDone"} THEN Place("answered", {})
    ELSE IF l.pc = "tool" THEN Place("tool", {l.call})
    ELSE Place("idle", {})

\* What the locals of a loop have to do with each other.
LoopShape(l) ==
    /\ l \in LoopSet
    /\ l.partial => l.pc = "response" /\ l.context # <<>>
    /\ l.pc \in {"responded", "tool", "toolPolled", "toolsDone"} =>
           l.context # <<>> /\ Last(l.context) \in AssistantMessages
    /\ l.pc \in {"tool", "toolPolled"} => l.call \in 1..Last(l.context).n
    /\ l.first => l.pc = "none" \/ (l.pc = "polled" /\ l.hasMore)

LoopsTyped ==
    /\ loop \in [Runs -> LoopSet] /\ \A r \in Runs : LoopShape(loop[r])
    /\ stream \in [Runs -> Seq(EventSet)]
    /\ aborted \in [Runs -> BOOLEAN]
    /\ steeringQueue \in Seq(UserMessages) /\ followUpQueue \in Seq(UserMessages)

Pushed(r, events) ==
    /\ events \in Seq(EventSet)
    /\ stream' = [stream EXCEPT ![r] = stream[r] \o events]
    /\ Path(Target(loop[r]), events, Target(loop'[r]))
    /\ \A i \in 1..Len(events) : events[i].type = "agent_end" => loop'[r].pc = "ended"

Moves(r) ==
    /\ loop' \in [Runs -> LoopSet] /\ LoopShape(loop'[r])
    /\ \A q \in Runs \ {r} : loop'[q] = loop[q]
    /\ loop[r].pc \notin {"none", "ended", "crashed"} /\ loop'[r].pc # "none"
    /\ aborted' = aborted
    /\ steeringQueue' \in Seq(UserMessages) /\ followUpQueue' \in Seq(UserMessages)
    /\ \E events : Pushed(r, events)

LEMMA PushNothing ==
    ASSUME LoopsTyped, NEW r \in Runs, UNCHANGED stream, Target(loop'[r]) = Target(loop[r]),
           Target(loop[r]) \in Places
    PROVE  \E events : Pushed(r, events)
<1> DEFINE none == <<>>
<1>1. none \in Seq(EventSet) /\ Len(none) = 0 /\ stream[r] \o none = stream[r]
  BY ConcatEmptySeq DEF LoopsTyped
<1>2. stream' = [stream EXCEPT ![r] = stream[r] \o none]
  BY <1>1 DEF LoopsTyped
<1>3. Path(Target(loop[r]), none, Target(loop'[r]))
  BY PathEmpty
<1> HIDE DEF none
<1>4. \A i \in 1..Len(none) : none[i].type = "agent_end" => loop'[r].pc = "ended"
  BY <1>1
<1>5. Pushed(r, none)
  BY <1>1, <1>2, <1>3, <1>4, Zenon DEF Pushed
<1> QED
  BY <1>5

LEMMA TargetPlace ==
    ASSUME NEW l, LoopShape(l)
    PROVE  Target(l) \in Places
<1>1. l.pc = "tool" => l.call \in ToolCalls
  <2>1. l.pc = "tool" => Last(l.context).n \in 0..MaxCalls
    BY DEF LoopShape, AssistantMessages
  <2>2. MaxCalls \in Nat
    BY LoopAssumption
  <2>3. l.pc = "tool" => l.call \in 1..Last(l.context).n
    BY DEF LoopShape
  <2> QED
    BY <2>1, <2>2, <2>3 DEF ToolCalls
<1>2. l.pc # "tool" => Target(l) \in {Place(p, {}) : p \in Phases \ {"tool"}}
  BY DEF Target, Phases
<1>3. l.pc = "tool" => Target(l) = Place("tool", {l.call})
  BY DEF Target
<1> QED
  BY <1>1, <1>2, <1>3, PlacesOf DEF Places

LEMMA RequestMoves ==
    ASSUME LoopsTyped, NEW r \in Runs, Request(r)
    PROVE  Moves(r)
<1> DEFINE l == loop[r]
<1>1. l \in LoopSet /\ LoopShape(l) /\ l.pc = "request" /\ ~l.partial /\ aborted[r] \in BOOLEAN
  BY DEF LoopsTyped, LoopShape, Request
<1>2. /\ loop' = [loop EXCEPT ![r] = [l EXCEPT !.pc = "response", !.signalled = aborted[r]]]
      /\ UNCHANGED <<stream, aborted, steeringQueue, followUpQueue>>
  BY DEF Request
<1>3. loop'[r] = [l EXCEPT !.pc = "response", !.signalled = aborted[r]]
  BY <1>2 DEF LoopsTyped
<1>4. loop'[r] \in LoopSet /\ \A q \in Runs \ {r} : loop'[q] = loop[q]
  BY <1>1, <1>2, <1>3 DEF LoopsTyped, LoopSet, LoopPCs
<1>5. LoopShape(loop'[r])
  BY <1>1, <1>3, <1>4 DEF LoopShape, LoopSet
<1>6. Target(loop'[r]) = Target(l) /\ Target(l) \in Places
  BY <1>1, <1>3, TargetPlace DEF Target, LoopSet
<1>7. \E events : Pushed(r, events)
  BY <1>2, <1>6, PushNothing
<1> QED
  BY <1>1, <1>2, <1>3, <1>4, <1>5, <1>7 DEF Moves, LoopsTyped, LoopSet

LEMMA RequestThrowsMoves ==
    ASSUME LoopsTyped, NEW r \in Runs, RequestThrows(r)
    PROVE  Moves(r)
<1> DEFINE l == loop[r]
<1>1. l \in LoopSet /\ LoopShape(l) /\ l.pc = "request" /\ ~l.partial
  BY DEF LoopsTyped, LoopShape, RequestThrows
<1>2. /\ loop' = [loop EXCEPT ![r] = [l EXCEPT !.pc = "crashed"]]
      /\ UNCHANGED <<stream, aborted, steeringQueue, followUpQueue>>
  BY DEF RequestThrows
<1>3. loop'[r] = [l EXCEPT !.pc = "crashed"]
  BY <1>2 DEF LoopsTyped
<1>4. loop'[r] \in LoopSet /\ \A q \in Runs \ {r} : loop'[q] = loop[q]
  BY <1>1, <1>2, <1>3 DEF LoopsTyped, LoopSet, LoopPCs
<1>5. LoopShape(loop'[r])
  BY <1>1, <1>3, <1>4 DEF LoopShape, LoopSet
<1>6. Target(loop'[r]) = Target(l) /\ Target(l) \in Places
  BY <1>1, <1>3, TargetPlace DEF Target, LoopSet
<1>7. \E events : Pushed(r, events)
  BY <1>2, <1>6, PushNothing
<1> QED
  BY <1>1, <1>2, <1>3, <1>4, <1>5, <1>7 DEF Moves, LoopsTyped, LoopSet

LEMMA PollFollowUpMoves ==
    ASSUME LoopsTyped, NEW r \in Runs, PollFollowUp(r)
    PROVE  Moves(r)
<1> DEFINE l == loop[r]
           polled == Popped(followUpQueue, FollowUpMode)
<1>1. l \in LoopSet /\ LoopShape(l) /\ l.pc = "polled" /\ ~l.first
  BY DEF LoopsTyped, LoopShape, PollFollowUp
<1>2. polled \in Seq(UserMessages) /\ Rest(followUpQueue, FollowUpMode) \in Seq(UserMessages)
  BY PollType DEF LoopsTyped
<1> HIDE DEF polled
<1>3. /\ loop' = [loop EXCEPT ![r] = [l EXCEPT !.pc = "followUp", !.pending = polled]]
      /\ UNCHANGED <<stream, aborted, steeringQueue>>
      /\ followUpQueue' \in Seq(UserMessages)
  BY <1>2 DEF PollFollowUp, polled
<1>4. loop'[r] = [l EXCEPT !.pc = "followUp", !.pending = polled]
  BY <1>3 DEF LoopsTyped
<1>5. loop'[r] \in LoopSet /\ \A q \in Runs \ {r} : loop'[q] = loop[q]
  BY <1>1, <1>2, <1>3, <1>4 DEF LoopsTyped, LoopSet, LoopPCs
<1>6. LoopShape(loop'[r])
  BY <1>1, <1>4, <1>5 DEF LoopShape, LoopSet
<1>7. Target(loop'[r]) = Target(l) /\ Target(l) \in Places
  BY <1>1, <1>4, TargetPlace DEF Target, LoopSet
<1>8. \E events : Pushed(r, events)
  BY <1>3, <1>7, PushNothing
<1> QED
  BY <1>1, <1>3, <1>4, <1>5, <1>6, <1>8 DEF Moves, LoopsTyped, LoopSet

\* A push of one event.
LEMMA PushOne ==
    ASSUME LoopsTyped, NEW r \in Runs, NEW event \in EventSet, Push(r, <<event>>),
           Target(loop[r]) \in Places, Target(loop'[r]) = After(Target(loop[r]), event),
           Target(loop'[r]) \in Places,
           event.type = "agent_end" => loop'[r].pc = "ended"
    PROVE  \E events : Pushed(r, events)
<1> DEFINE one == <<event>>
<1>1. one \in Seq(EventSet) /\ Len(one) = 1 /\ one[1] = event
  OBVIOUS
<1>2. stream' = [stream EXCEPT ![r] = stream[r] \o one]
  BY DEF Push
<1>3. Path(Target(loop[r]), one, Target(loop'[r]))
  BY PathOne
<1> HIDE DEF one
<1>4. \A i \in 1..Len(one) : one[i].type = "agent_end" => loop'[r].pc = "ended"
  BY <1>1
<1>5. Pushed(r, one)
  BY <1>1, <1>2, <1>3, <1>4, Zenon DEF Pushed
<1> QED
  BY <1>5

LEMMA ResponseStartMoves ==
    ASSUME LoopsTyped, NEW r \in Runs, ResponseStart(r)
    PROVE  Moves(r)
<1> DEFINE l == loop[r]
           context == Append(l.context, Partial)
<1>1. l \in LoopSet /\ LoopShape(l) /\ l.pc = "response" /\ ~l.partial
  BY DEF LoopsTyped, LoopShape, ResponseStart
<1>2. context \in Seq(MessageSet) /\ context # <<>>
  <2>1. l.context \in Seq(MessageSet) /\ Partial \in MessageSet
    BY <1>1, Subsets DEF LoopSet
  <2> QED
    BY <2>1, AppendProperties
<1> HIDE DEF context
<1>3. /\ loop' = [loop EXCEPT ![r] = [l EXCEPT !.partial = TRUE, !.context = context]]
      /\ UNCHANGED <<aborted, steeringQueue, followUpQueue>>
      /\ Push(r, <<Event("message_start", Partial)>>)
  BY DEF ResponseStart, context
<1>4. loop'[r] = [l EXCEPT !.partial = TRUE, !.context = context]
  BY <1>3 DEF LoopsTyped
<1>5. loop'[r] \in LoopSet /\ \A q \in Runs \ {r} : loop'[q] = loop[q]
  BY <1>1, <1>2, <1>3, <1>4 DEF LoopsTyped, LoopSet, LoopPCs
<1>6. LoopShape(loop'[r])
  BY <1>1, <1>2, <1>4, <1>5 DEF LoopShape, LoopSet
<1>7. Target(l) = Place("asking", {}) /\ Target(loop'[r]) = Place("response", {})
  BY <1>1, <1>4 DEF Target, LoopSet
<1>8. \E events : Pushed(r, events)
  <2>1. Event("message_start", Partial) \in EventSet
    BY Subsets
  <2>2. Target(loop'[r]) = After(Target(l), Event("message_start", Partial))
    BY <1>7, Steps, Subsets
  <2>3. Target(l) \in Places /\ Target(loop'[r]) \in Places
    BY <1>1, <1>6, TargetPlace
  <2>4. Event("message_start", Partial).type # "agent_end"
    BY DEF Event
  <2> QED
    BY <1>3, <2>1, <2>2, <2>3, <2>4, PushOne
<1> QED
  BY <1>1, <1>3, <1>4, <1>5, <1>6, <1>8 DEF Moves, LoopsTyped, LoopSet

-------------------------------------------------------------------------------
(* Steps that push several events.  Most push no agent_end.                   *)

Quiet(events) == \A i \in 1..Len(events) : events[i].type # "agent_end"

LEMMA QuietConcat ==
    ASSUME NEW s \in Seq(EventSet), NEW t \in Seq(EventSet), Quiet(s), Quiet(t)
    PROVE  Quiet(s \o t)
<1>1. /\ Len(s \o t) = Len(s) + Len(t) /\ Len(s) \in Nat /\ Len(t) \in Nat
      /\ \A i \in 1..(Len(s) + Len(t)) : (s \o t)[i] = IF i <= Len(s) THEN s[i] ELSE t[i - Len(s)]
  BY ConcatProperties
<1> DEFINE u == s \o t  m == Len(s)  n == Len(t)
<1>2. /\ Len(u) = m + n /\ m \in Nat /\ n \in Nat
      /\ \A i \in 1..(m + n) : u[i] = IF i <= m THEN s[i] ELSE t[i - m]
      /\ \A i \in 1..m : s[i].type # "agent_end"
      /\ \A i \in 1..n : t[i].type # "agent_end"
  BY <1>1 DEF Quiet
<1> HIDE DEF u, m, n
<1>3. \A i \in 1..(m + n) : u[i].type # "agent_end"
  <2> SUFFICES ASSUME NEW i \in 1..(m + n) PROVE u[i].type # "agent_end"
    OBVIOUS
  <2>1. CASE i <= m
    <3>1. i \in 1..m /\ u[i] = s[i]
      BY <1>2, <2>1
    <3> QED
      BY <1>2, <3>1
  <2>2. CASE ~(i <= m)
    <3>1. i - m \in 1..n /\ u[i] = t[i - m]
      BY <1>2, <2>2
    <3> QED
      BY <1>2, <3>1
  <2> QED
    BY <2>1, <2>2
<1> QED
  BY <1>2, <1>3 DEF Quiet, u

LEMMA QuietSequences ==
    /\ \A ms \in Seq(MessageSet) : Quiet(Announce(ms))
    /\ \A calls \in Seq(ToolCalls) : Quiet(AllSkipped(calls))
    /\ \A call, result : Quiet(ToolEvents(call, result))
<1>1. ASSUME NEW ms \in Seq(MessageSet)
      PROVE  Quiet(Announce(ms))
  <2> SUFFICES ASSUME NEW k \in 1..(2 * Len(ms)) PROVE Announce(ms)[k].type # "agent_end"
    BY AnnounceShape DEF Quiet
  <2>1. PICK i \in 1..Len(ms) : k = 2 * i - 1 \/ k = 2 * i
    BY AnnounceShape
  <2>2. Announce(ms)[k] \in {Event("message_start", ms[i]), Event("message_end", ms[i])}
    BY <2>1, AnnounceShape
  <2> QED
    BY <2>2 DEF Event
<1>2. ASSUME NEW calls \in Seq(ToolCalls)
      PROVE  Quiet(AllSkipped(calls))
  <2> SUFFICES ASSUME NEW k \in 1..(4 * Len(calls)) PROVE AllSkipped(calls)[k].type # "agent_end"
    BY AllSkippedShape DEF Quiet
  <2>1. PICK i \in 1..Len(calls) : k = 4 * i - 3 \/ k = 4 * i - 2 \/ k = 4 * i - 1 \/ k = 4 * i
    BY AllSkippedShape
  <2>2. AllSkipped(calls)[k] \in {ToolStart(calls[i]), ToolEnd(calls[i]),
            Event("message_start", Skipped(calls[i])), Event("message_end", Skipped(calls[i]))}
    BY <2>1, AllSkippedShape
  <2>3. /\ ToolStart(calls[i]).type # "agent_end" /\ ToolEnd(calls[i]).type # "agent_end"
        /\ Event("message_start", Skipped(calls[i])).type # "agent_end"
        /\ Event("message_end", Skipped(calls[i])).type # "agent_end"
    BY DEF Event, ToolStart, ToolEnd
  <2> QED
    BY <2>2, <2>3
<1>3. ASSUME NEW call, NEW result
      PROVE  Quiet(ToolEvents(call, result))
  <2>1. /\ Len(ToolEvents(call, result)) = 3 /\ ToolEvents(call, result)[1] = ToolEnd(call)
        /\ ToolEvents(call, result)[2] = Event("message_start", result)
        /\ ToolEvents(call, result)[3] = Event("message_end", result)
    BY DEF ToolEvents
  <2>2. /\ ToolEnd(call).type # "agent_end" /\ Event("message_start", result).type # "agent_end"
        /\ Event("message_end", result).type # "agent_end"
    BY DEF Event, ToolEnd
  <2>3. \A i \in 1..3 : i = 1 \/ i = 2 \/ i = 3
    OBVIOUS
  <2> QED
    BY <2>1, <2>2, <2>3 DEF Quiet
<1> QED
  BY <1>1, <1>2, <1>3

LEMMA PushQuiet ==
    ASSUME LoopsTyped, NEW r \in Runs, NEW events \in Seq(EventSet), Push(r, events), Quiet(events),
           Path(Target(loop[r]), events, Target(loop'[r]))
    PROVE  \E e : Pushed(r, e)
<1>1. stream' = [stream EXCEPT ![r] = stream[r] \o events]
  BY DEF Push
<1>2. \A i \in 1..Len(events) : events[i].type = "agent_end" => loop'[r].pc = "ended"
  BY DEF Quiet
<1> QED
  BY <1>1, <1>2, Zenon DEF Pushed

LEMMA BeginTurnMoves ==
    ASSUME LoopsTyped, NEW r \in Runs, BeginTurn(r)
    PROVE  Moves(r)
<1> DEFINE l == loop[r]
           context == l.context \o l.pending
<1>1. l \in LoopSet /\ LoopShape(l) /\ l.pc = "polled" /\ ~l.partial
  BY DEF LoopsTyped, LoopShape, BeginTurn
<1>2. l.context \in Seq(MessageSet) /\ l.pending \in Seq(UserMessages) /\ l.pending \in Seq(MessageSet)
  <2>1. l.context \in Seq(MessageSet) /\ l.pending \in Seq(UserMessages)
    BY <1>1 DEF LoopSet
  <2> QED
    BY <2>1, Subsets, SeqMonotonic
<1>3. context \in Seq(MessageSet)
  BY <1>2, ConcatProperties
<1> HIDE DEF context
<1>4. /\ loop' = [loop EXCEPT ![r] = [l EXCEPT !.pc = "request", !.first = FALSE, !.pending = <<>>,
                                               !.context = context]]
      /\ UNCHANGED <<aborted, steeringQueue, followUpQueue>>
      /\ Push(r, TurnOpening(r))
  BY DEF BeginTurn, context
<1>5. loop'[r] = [l EXCEPT !.pc = "request", !.first = FALSE, !.pending = <<>>, !.context = context]
  BY <1>4 DEF LoopsTyped
<1>6. loop'[r] \in LoopSet /\ \A q \in Runs \ {r} : loop'[q] = loop[q]
  <2>1. <<>> \in Seq(UserMessages)
    OBVIOUS
  <2>2. loop'[r] \in LoopSet
    BY <1>1, <1>3, <1>5, <2>1 DEF LoopSet, LoopPCs
  <2> QED
    BY <1>4, <2>2 DEF LoopsTyped
<1>7. LoopShape(loop'[r])
  BY <1>1, <1>5, <1>6 DEF LoopShape, LoopSet
<1>8. Target(loop'[r]) = Place("asking", {})
  BY <1>1, <1>5 DEF Target, LoopSet
<1>9. \E events : Pushed(r, events)
  <2> DEFINE told == Announce(l.pending)
  <2>1. told \in Seq(EventSet) /\ Quiet(told) /\ Path(Place("asking", {}), told, Place("asking", {}))
    BY <1>2, AnnounceShape, QuietSequences, AnnouncePath
  <2>2. CASE l.first
    <3>1. TurnOpening(r) = <<>> \o told /\ <<>> \o told = told
      BY <2>1, <2>2, ConcatEmptySeq DEF TurnOpening
    <3>2. Target(l) = Place("asking", {})
      BY <1>1, <2>2 DEF Target
    <3> HIDE DEF told
    <3>3. Push(r, told)
      BY <1>4, <3>1
    <3> QED
      BY <1>8, <2>1, <3>2, <3>3, PushQuiet
  <2>3. CASE ~l.first
    <3> DEFINE start == <<TurnStart>>
    <3>1. TurnOpening(r) = start \o told
      BY <2>3 DEF TurnOpening
    <3>2. Target(l) = Place("between", {})
      BY <1>1, <2>3 DEF Target
    <3>3. start \in Seq(EventSet) /\ Quiet(start)
      BY Subsets DEF Quiet, TurnStart, Event
    <3>4. Path(Place("between", {}), start, Place("asking", {}))
      <4>1. Place("between", {}) \in Places /\ Place("asking", {}) \in Places
        BY PlacesOf DEF Phases
      <4>2. After(Place("between", {}), TurnStart) = Place("asking", {})
        BY Steps
      <4> QED
        BY <4>1, <4>2, PathOne, Subsets
    <3> HIDE DEF told, start
    <3>5. /\ start \o told \in Seq(EventSet) /\ Quiet(start \o told)
          /\ Path(Place("between", {}), start \o told, Place("asking", {}))
      BY <2>1, <3>3, <3>4, ConcatProperties, QuietConcat, PathConcat
    <3> QED
      BY <1>4, <1>8, <3>1, <3>2, <3>5, PushQuiet
  <2> QED
    BY <2>2, <2>3
<1> QED
  BY <1>1, <1>4, <1>5, <1>6, <1>7, <1>9 DEF Moves, LoopsTyped, LoopSet

LEMMA AfterFollowUpMoves ==
    ASSUME LoopsTyped, NEW r \in Runs, AfterFollowUp(r)
    PROVE  Moves(r)
<1> DEFINE l == loop[r]
<1>1. l \in LoopSet /\ LoopShape(l) /\ l.pc = "followUp" /\ ~l.first /\ ~l.partial
  BY DEF LoopsTyped, LoopShape, AfterFollowUp
<1>2. Target(l) = Place("between", {}) /\ Target(l) \in Places
  BY <1>1, TargetPlace DEF Target
<1>3. UNCHANGED <<aborted, steeringQueue, followUpQueue>>
  BY DEF AfterFollowUp
<1>4. CASE /\ loop' = [loop EXCEPT ![r] = [l EXCEPT !.pc = "polled", !.hasMore = TRUE]]
           /\ UNCHANGED stream
  <2>1. loop'[r] = [l EXCEPT !.pc = "polled", !.hasMore = TRUE]
    BY <1>4 DEF LoopsTyped
  <2>2. loop'[r] \in LoopSet /\ \A q \in Runs \ {r} : loop'[q] = loop[q]
    BY <1>1, <1>4, <2>1 DEF LoopsTyped, LoopSet, LoopPCs
  <2>3. LoopShape(loop'[r])
    BY <1>1, <2>1, <2>2 DEF LoopShape, LoopSet
  <2>4. Target(loop'[r]) = Target(l)
    BY <1>1, <1>2, <2>1 DEF Target, LoopSet
  <2>5. \E events : Pushed(r, events)
    BY <1>2, <1>4, <2>4, PushNothing
  <2> QED
    BY <1>1, <1>3, <1>4, <2>1, <2>2, <2>3, <2>5 DEF Moves, LoopsTyped, LoopSet
<1>5. CASE /\ loop' = [loop EXCEPT ![r] = [l EXCEPT !.pc = "ended"]]
           /\ Push(r, <<AgentEnd>>)
  <2>1. loop'[r] = [l EXCEPT !.pc = "ended"]
    BY <1>5 DEF LoopsTyped
  <2>2. loop'[r] \in LoopSet /\ \A q \in Runs \ {r} : loop'[q] = loop[q]
    BY <1>1, <1>5, <2>1 DEF LoopsTyped, LoopSet, LoopPCs
  <2>3. LoopShape(loop'[r])
    BY <1>1, <2>1, <2>2 DEF LoopShape, LoopSet
  <2>4. Target(loop'[r]) = Place("idle", {}) /\ loop'[r].pc = "ended"
    BY <1>1, <2>1 DEF Target, LoopSet
  <2>5. Target(loop'[r]) = After(Target(l), AgentEnd) /\ Target(loop'[r]) \in Places /\ AgentEnd \in EventSet
    BY <1>2, <2>3, <2>4, Steps, Subsets, TargetPlace
  <2>6. \E events : Pushed(r, events)
    BY <1>2, <1>5, <2>4, <2>5, PushOne
  <2> QED
    BY <1>1, <1>3, <1>5, <2>1, <2>2, <2>3, <2>6 DEF Moves, LoopsTyped, LoopSet
<1> QED
  BY <1>4, <1>5 DEF AfterFollowUp

\* The message a response ends as.
LEMMA FinalsType ==
    ASSUME LoopsTyped, NEW r \in Runs
    PROVE  Finals(r) \subseteq AssistantMessages
<1>1. MaxCalls \in Nat /\ 0 \in 0..MaxCalls /\ 1 \in 0..MaxCalls /\ 1..MaxCalls \subseteq 0..MaxCalls
  BY LoopAssumption
<1>2. AbortedFinals \subseteq AssistantMessages
  BY <1>1 DEF AbortedFinals, Message, AssistantMessages
<1>3. NormalFinals \subseteq AssistantMessages
  BY <1>1 DEF NormalFinals, Message, AssistantMessages
<1> QED
  BY <1>2, <1>3 DEF Finals

LEMMA ResponseEndMoves ==
    ASSUME LoopsTyped, NEW r \in Runs, ResponseEnd(r)
    PROVE  Moves(r)
<1> DEFINE l == loop[r]
<1>1. l \in LoopSet /\ LoopShape(l) /\ l.pc = "response" /\ ~l.first
  BY DEF LoopsTyped, LoopShape, ResponseEnd
<1>2. PICK final \in Finals(r) :
          /\ loop' = [loop EXCEPT ![r] = [l EXCEPT !.pc = "responded", !.partial = FALSE,
                                                   !.context = FinalContext(r, final)]]
          /\ Push(r, (IF l.partial THEN <<>> ELSE <<Event("message_start", final)>>)
                     \o <<Event("message_end", final)>>)
  BY DEF ResponseEnd
<1>3. final \in AssistantMessages /\ final \in MessageSet
  BY FinalsType, Subsets
<1> DEFINE context == FinalContext(r, final)
<1>4. context \in Seq(MessageSet) /\ context # <<>> /\ Last(context) = final
  <2> DEFINE before == IF l.partial THEN Front(l.context) ELSE l.context
  <2>1. l.context \in Seq(MessageSet) /\ (l.partial => l.context # <<>>)
    BY <1>1 DEF LoopSet, LoopShape
  <2>2. before \in Seq(MessageSet)
    <3>1. Front(l.context) \in Seq(MessageSet)
      BY <2>1, SubSeqProperties DEF Front
    <3> QED
      BY <2>1, <3>1
  <2>3. context = Append(before, final)
    BY DEF FinalContext
  <2> HIDE DEF before, context
  <2> QED
    BY <1>3, <2>2, <2>3, AppendProperties DEF Last
<1> HIDE DEF context
<1>5. loop'[r] = [l EXCEPT !.pc = "responded", !.partial = FALSE, !.context = context]
  BY <1>2 DEF LoopsTyped, context
<1>6. UNCHANGED <<aborted, steeringQueue, followUpQueue>>
  BY DEF ResponseEnd
<1>7. loop'[r] \in LoopSet
  BY <1>1, <1>4, <1>5 DEF LoopSet, LoopPCs
<1>8. LoopShape(loop'[r])
  BY <1>1, <1>3, <1>4, <1>5, <1>7 DEF LoopShape, LoopSet
<1>9. Target(loop'[r]) = Place("answered", {}) /\ loop'[r].pc = "responded"
  BY <1>1, <1>5 DEF Target, LoopSet
<1>10. \E events : Pushed(r, events)
  <2> DEFINE start == <<Event("message_start", final)>>  end == <<Event("message_end", final)>>
  <2>1. Event("message_start", final) \in EventSet /\ Event("message_end", final) \in EventSet
    BY <1>3, Subsets
  <2>2. /\ start \in Seq(EventSet) /\ end \in Seq(EventSet) /\ Quiet(start) /\ Quiet(end)
    BY <2>1 DEF Quiet, Event
  <2>3. /\ Place("asking", {}) \in Places /\ Place("response", {}) \in Places
        /\ Place("answered", {}) \in Places
    BY PlacesOf DEF Phases
  <2>4. /\ After(Place("asking", {}), Event("message_start", final)) = Place("response", {})
        /\ After(Place("response", {}), Event("message_end", final)) = Place("answered", {})
    BY <1>3, Steps
  <2>5. /\ Path(Place("asking", {}), start, Place("response", {}))
        /\ Path(Place("response", {}), end, Place("answered", {}))
    BY <2>1, <2>3, <2>4, PathOne
  <2>6. Push(r, (IF l.partial THEN <<>> ELSE start) \o end)
    BY <1>2
  <2>7. CASE l.partial
    <3>1. Target(l) = Place("response", {})
      BY <1>1, <2>7 DEF Target
    <3>2. Push(r, <<>> \o end) /\ <<>> \o end = end
      BY <2>2, <2>6, <2>7, ConcatEmptySeq
    <3> HIDE DEF start, end
    <3> QED
      BY <1>9, <2>2, <2>5, <3>1, <3>2, PushQuiet
  <2>8. CASE ~l.partial
    <3>1. Target(l) = Place("asking", {})
      BY <1>1, <2>8 DEF Target
    <3>2. Push(r, start \o end)
      BY <2>6, <2>8
    <3> HIDE DEF start, end
    <3>3. /\ start \o end \in Seq(EventSet) /\ Quiet(start \o end)
          /\ Path(Place("asking", {}), start \o end, Place("answered", {}))
      BY <2>2, <2>5, ConcatProperties, QuietConcat, PathConcat
    <3> QED
      BY <1>9, <3>1, <3>2, <3>3, PushQuiet
  <2> QED
    BY <2>7, <2>8
<1>11. loop' \in [Runs -> LoopSet] /\ \A q \in Runs \ {r} : loop'[q] = loop[q]
  BY <1>2, <1>5, <1>7 DEF LoopsTyped, context
<1> QED
  BY <1>1, <1>6, <1>8, <1>9, <1>10, <1>11 DEF Moves, LoopsTyped

\* The calls of the response a tool turn works on.
LEMMA CallsType ==
    ASSUME NEW l, LoopShape(l), l.pc \in {"responded", "tool", "toolPolled", "toolsDone"}
    PROVE  /\ Last(l.context) \in AssistantMessages /\ Last(l.context).n \in 0..MaxCalls
           /\ l.pc \in {"tool", "toolPolled"} => l.call \in ToolCalls
<1>1. Last(l.context) \in AssistantMessages /\ Last(l.context).n \in 0..MaxCalls
  BY DEF LoopShape, AssistantMessages
<1>2. MaxCalls \in Nat
  BY LoopAssumption
<1>3. l.pc \in {"tool", "toolPolled"} => l.call \in 1..Last(l.context).n
  BY DEF LoopShape
<1>4. l.pc \in {"tool", "toolPolled"} => l.call \in ToolCalls
  BY <1>1, <1>2, <1>3 DEF ToolCalls
<1> QED
  BY <1>1, <1>4

LEMMA AfterResponseMoves ==
    ASSUME LoopsTyped, NEW r \in Runs, AfterResponse(r)
    PROVE  Moves(r)
<1> DEFINE l == loop[r]
           message == Last(l.context)
<1>1. l \in LoopSet /\ LoopShape(l) /\ l.pc = "responded" /\ ~l.first /\ ~l.partial
  BY DEF LoopsTyped, LoopShape, AfterResponse
<1>2. Target(l) = Place("answered", {}) /\ Target(l) \in Places
  BY <1>1, TargetPlace DEF Target
<1>3. UNCHANGED <<aborted, followUpQueue>>
  BY DEF AfterResponse
<1>4. message \in AssistantMessages /\ message.n \in 0..MaxCalls /\ MaxCalls \in Nat /\ l.context # <<>>
  BY <1>1, CallsType, LoopAssumption DEF LoopShape
<1>5. Steering \in Seq(UserMessages) /\ Rest(steeringQueue, SteeringMode) \in Seq(UserMessages)
  BY PollType DEF LoopsTyped, Steering
<1>6. CASE /\ loop' = [loop EXCEPT ![r] = [l EXCEPT !.pc = "ended"]]
           /\ Push(r, <<TurnEnd, AgentEnd>>)
           /\ UNCHANGED steeringQueue
  <2>1. loop'[r] = [l EXCEPT !.pc = "ended"]
    BY <1>6 DEF LoopsTyped
  <2>2. loop'[r] \in LoopSet /\ \A q \in Runs \ {r} : loop'[q] = loop[q]
    BY <1>1, <1>6, <2>1 DEF LoopsTyped, LoopSet, LoopPCs
  <2>3. LoopShape(loop'[r])
    BY <1>1, <2>1, <2>2 DEF LoopShape, LoopSet
  <2>4. Target(loop'[r]) = Place("idle", {}) /\ loop'[r].pc = "ended"
    BY <1>1, <2>1 DEF Target, LoopSet
  <2>5. \E events : Pushed(r, events)
    <3> DEFINE events == <<TurnEnd, AgentEnd>>
               answered == Place("answered", {})  between == Place("between", {})  idle == Place("idle", {})
               path == [k \in 1..3 |-> IF k = 1 THEN answered ELSE IF k = 2 THEN between ELSE idle]
    <3>1. events \in Seq(EventSet) /\ Len(events) = 2 /\ events[1] = TurnEnd /\ events[2] = AgentEnd
      BY Subsets
    <3>2. answered \in Places /\ between \in Places /\ idle \in Places
      BY PlacesOf DEF Phases
    <3>3. After(answered, events[1]) = between /\ After(between, events[2]) = idle
      BY <3>1, Steps
    <3> HIDE DEF answered, between, idle, events
    <3>4. /\ path \in [1..3 -> Places] /\ path[1] = answered /\ path[2] = between /\ path[3] = idle
      BY <3>2
    <3> HIDE DEF path
    <3>5. \A i \in 1..2 : path[i + 1] = After(path[i], events[i])
      <4>1. path[1 + 1] = between /\ path[2 + 1] = idle
        BY <3>4
      <4>2. \A i \in 1..2 : i = 1 \/ i = 2
        OBVIOUS
      <4> QED
        BY <3>3, <3>4, <4>1, <4>2
    <3>6. Path(answered, events, idle)
      <4>1. Len(events) + 1 = 3
        BY <3>1
      <4> QED
        BY <3>1, <3>4, <3>5, <4>1, PathBy
    <3>7. stream' = [stream EXCEPT ![r] = stream[r] \o events]
      BY <1>6 DEF Push, events
    <3>8. Path(Target(l), events, Target(loop'[r]))
      BY <1>2, <2>4, <3>6 DEF answered, idle
    <3>9. Pushed(r, events)
      BY <2>4, <3>1, <3>7, <3>8 DEF Pushed
    <3> QED
      BY <3>9
  <2> QED
    BY <1>1, <1>3, <1>6, <2>1, <2>2, <2>3, <2>4, <2>5 DEF Moves, LoopsTyped
<1>7. CASE /\ message.n > 0
           /\ loop' = [loop EXCEPT ![r] = [l EXCEPT !.pc = "tool", !.call = 1]]
           /\ Push(r, <<ToolStart(1)>>)
           /\ UNCHANGED steeringQueue
  <2>1. loop'[r] = [l EXCEPT !.pc = "tool", !.call = 1]
    BY <1>7 DEF LoopsTyped
  <2>2. 1 \in ToolCalls /\ 1 \in 1..message.n /\ 1 \in 0..MaxCalls
    BY <1>4, <1>7 DEF ToolCalls
  <2>3. loop'[r] \in LoopSet /\ \A q \in Runs \ {r} : loop'[q] = loop[q]
    BY <1>1, <1>7, <2>1, <2>2 DEF LoopsTyped, LoopSet, LoopPCs
  <2>4. LoopShape(loop'[r])
    BY <1>1, <1>4, <2>1, <2>2, <2>3 DEF LoopShape, LoopSet
  <2>5. Target(loop'[r]) = Place("tool", {1}) /\ loop'[r].pc = "tool"
    BY <1>1, <2>1 DEF Target, LoopSet
  <2>6. Target(loop'[r]) = After(Target(l), ToolStart(1)) /\ Target(loop'[r]) \in Places
    BY <1>2, <2>2, <2>4, <2>5, Steps, TargetPlace
  <2>7. ToolStart(1) \in EventSet /\ ToolStart(1).type # "agent_end"
    BY <2>2, Subsets DEF ToolStart, Event
  <2>8. \E events : Pushed(r, events)
    BY <1>2, <1>7, <2>6, <2>7, PushOne
  <2> QED
    BY <1>1, <1>3, <1>7, <2>3, <2>4, <2>5, <2>8 DEF Moves, LoopsTyped
<1>8. CASE /\ loop' = [loop EXCEPT ![r] = [l EXCEPT !.pc = "polled", !.hasMore = FALSE, !.pending = Steering]]
           /\ Push(r, <<TurnEnd>>)
           /\ PollSteering
  <2>1. loop'[r] = [l EXCEPT !.pc = "polled", !.hasMore = FALSE, !.pending = Steering]
    BY <1>8 DEF LoopsTyped
  <2>2. loop'[r] \in LoopSet /\ \A q \in Runs \ {r} : loop'[q] = loop[q]
    BY <1>1, <1>5, <1>8, <2>1 DEF LoopsTyped, LoopSet, LoopPCs
  <2>3. LoopShape(loop'[r])
    BY <1>1, <2>1, <2>2 DEF LoopShape, LoopSet
  <2>4. Target(loop'[r]) = Place("between", {}) /\ loop'[r].pc = "polled"
    BY <1>1, <2>1 DEF Target, LoopSet
  <2>5. Target(loop'[r]) = After(Target(l), TurnEnd) /\ Target(loop'[r]) \in Places
    BY <1>2, <2>3, <2>4, Steps, TargetPlace
  <2>6. TurnEnd \in EventSet /\ TurnEnd.type # "agent_end"
    BY Subsets DEF TurnEnd, Event
  <2>7. \E events : Pushed(r, events)
    BY <1>2, <1>8, <2>5, <2>6, PushOne
  <2>8. steeringQueue' \in Seq(UserMessages)
    BY <1>5, <1>8 DEF PollSteering
  <2> QED
    BY <1>1, <1>3, <1>8, <2>2, <2>3, <2>4, <2>7, <2>8 DEF Moves, LoopsTyped
<1> QED
  BY <1>6, <1>7, <1>8 DEF AfterResponse

LEMMA ToolDoneMoves ==
    ASSUME LoopsTyped, NEW r \in Runs, ToolDone(r)
    PROVE  Moves(r)
<1> DEFINE l == loop[r]
           result == Message("toolResult", l.call, "ran")
           results == Append(l.results, result)
<1>1. l \in LoopSet /\ LoopShape(l) /\ l.pc = "tool" /\ ~l.first /\ ~l.partial
  BY DEF LoopsTyped, LoopShape, ToolDone
<1>2. l.call \in ToolCalls /\ Target(l) = Place("tool", {l.call}) /\ Target(l) \in Places
  BY <1>1, CallsType, TargetPlace DEF Target
<1>3. result \in ToolResults /\ result \in MessageSet
  BY <1>2, Subsets DEF Message, ToolResults
<1>4. results \in Seq(ToolResults)
  BY <1>1, <1>3, AppendProperties DEF LoopSet
<1>5. Steering \in Seq(UserMessages) /\ Rest(steeringQueue, SteeringMode) \in Seq(UserMessages)
  BY PollType DEF LoopsTyped, Steering
<1>6. /\ loop' = [loop EXCEPT ![r] = [l EXCEPT !.pc = "toolPolled", !.steering = Steering, !.results = results]]
      /\ Push(r, ToolEvents(l.call, result))
      /\ PollSteering /\ UNCHANGED <<aborted, followUpQueue>>
  BY DEF ToolDone
<1> HIDE DEF results, result
<1>7. loop'[r] = [l EXCEPT !.pc = "toolPolled", !.steering = Steering, !.results = results]
  BY <1>6 DEF LoopsTyped
<1>8. loop'[r] \in LoopSet /\ \A q \in Runs \ {r} : loop'[q] = loop[q]
  BY <1>1, <1>4, <1>5, <1>6, <1>7 DEF LoopsTyped, LoopSet, LoopPCs
<1>9. LoopShape(loop'[r])
  BY <1>1, <1>7, <1>8 DEF LoopShape, LoopSet
<1>10. Target(loop'[r]) = Place("answered", {}) /\ loop'[r].pc = "toolPolled"
  BY <1>1, <1>7 DEF Target, LoopSet
<1>11. \E events : Pushed(r, events)
  <2>1. /\ ToolEvents(l.call, result) \in Seq(EventSet) /\ Quiet(ToolEvents(l.call, result))
        /\ Path(Target(l), ToolEvents(l.call, result), Target(loop'[r]))
    BY <1>2, <1>3, <1>10, ToolEventsType, QuietSequences, ToolEventsPath
  <2> QED
    BY <1>6, <2>1, PushQuiet
<1>12. steeringQueue' \in Seq(UserMessages)
  BY <1>5, <1>6 DEF PollSteering
<1> QED
  BY <1>1, <1>6, <1>8, <1>9, <1>10, <1>11, <1>12 DEF Moves, LoopsTyped

LEMMA EndToolTurnMoves ==
    ASSUME LoopsTyped, NEW r \in Runs, EndToolTurn(r)
    PROVE  Moves(r)
<1> DEFINE l == loop[r]
           context == l.context \o l.results
           next == NextPending(r)
<1>1. l \in LoopSet /\ LoopShape(l) /\ l.pc = "toolsDone" /\ ~l.first /\ ~l.partial
  BY DEF LoopsTyped, LoopShape, EndToolTurn
<1>2. Target(l) = Place("answered", {}) /\ Target(l) \in Places
  BY <1>1, TargetPlace DEF Target
<1>3. context \in Seq(MessageSet)
  <2>1. l.context \in Seq(MessageSet) /\ l.results \in Seq(ToolResults)
    BY <1>1 DEF LoopSet
  <2>2. l.results \in Seq(MessageSet)
    BY <2>1, Subsets, SeqMonotonic
  <2> QED
    BY <2>1, <2>2, ConcatProperties
<1>4. Steering \in Seq(UserMessages) /\ Rest(steeringQueue, SteeringMode) \in Seq(UserMessages)
  BY PollType DEF LoopsTyped, Steering
<1>5. next \in Seq(UserMessages)
  BY <1>1, <1>4 DEF NextPending, LoopSet
<1>6. /\ loop' = [loop EXCEPT ![r] = [l EXCEPT !.pc = "polled", !.hasMore = TRUE, !.call = 0,
                       !.context = context, !.results = <<>>, !.pending = next, !.steering = <<>>]]
      /\ Push(r, <<TurnEnd>>)
      /\ UNCHANGED <<aborted, followUpQueue>>
  BY DEF EndToolTurn
<1> HIDE DEF context, next
<1>7. loop'[r] = [l EXCEPT !.pc = "polled", !.hasMore = TRUE, !.call = 0, !.context = context,
                           !.results = <<>>, !.pending = next, !.steering = <<>>]
  BY <1>6 DEF LoopsTyped
<1>8. loop'[r] \in LoopSet /\ \A q \in Runs \ {r} : loop'[q] = loop[q]
  <2>1. <<>> \in Seq(UserMessages) /\ <<>> \in Seq(ToolResults) /\ 0 \in 0..MaxCalls
    BY LoopAssumption
  <2>2. loop'[r] \in LoopSet
    BY <1>1, <1>3, <1>5, <1>7, <2>1 DEF LoopSet, LoopPCs
  <2> QED
    BY <1>6, <2>2 DEF LoopsTyped
<1>9. LoopShape(loop'[r])
  BY <1>1, <1>7, <1>8 DEF LoopShape, LoopSet
<1>10. Target(loop'[r]) = Place("between", {}) /\ loop'[r].pc = "polled"
  BY <1>1, <1>7 DEF Target, LoopSet
<1>11. \E events : Pushed(r, events)
  <2>1. Target(loop'[r]) = After(Target(l), TurnEnd) /\ Target(loop'[r]) \in Places
    BY <1>2, <1>9, <1>10, Steps, TargetPlace
  <2>2. TurnEnd \in EventSet /\ TurnEnd.type # "agent_end"
    BY Subsets DEF TurnEnd, Event
  <2> QED
    BY <1>2, <1>6, <2>1, <2>2, PushOne
<1>12. steeringQueue' \in Seq(UserMessages)
  BY <1>4 DEF EndToolTurn, PollSteering, LoopsTyped
<1>13. loop' \in [Runs -> LoopSet]
  BY <1>6, <1>7, <1>8 DEF LoopsTyped
<1> QED
  BY <1>1, <1>6, <1>8, <1>9, <1>10, <1>11, <1>12, <1>13 DEF Moves, LoopsTyped

LEMMA AfterToolMoves ==
    ASSUME LoopsTyped, NEW r \in Runs, AfterTool(r)
    PROVE  Moves(r)
<1> DEFINE l == loop[r]
           skipped == SkippedCalls(r)
           given == [i \in DOMAIN SkippedCalls(r) |-> Skipped(SkippedCalls(r)[i])]
           results == l.results \o given
<1>1. l \in LoopSet /\ LoopShape(l) /\ l.pc = "toolPolled" /\ ~l.first /\ ~l.partial
  BY DEF LoopsTyped, LoopShape, AfterTool
<1>2. Target(l) = Place("answered", {}) /\ Target(l) \in Places
  BY <1>1, TargetPlace DEF Target
<1>3. UNCHANGED <<aborted, steeringQueue, followUpQueue>>
  BY DEF AfterTool
<1>4. /\ MaxCalls \in Nat /\ Calls(r) \in 0..MaxCalls /\ l.call \in 1..Calls(r) /\ l.context # <<>>
      /\ Last(l.context) \in AssistantMessages /\ Calls(r) = Last(l.context).n
  BY <1>1, CallsType, LoopAssumption DEF Calls, LoopShape
<1>5. skipped \in Seq(ToolCalls)
  <2> DEFINE n == Calls(r) - l.call
  <2>1. n \in Nat
    BY <1>4
  <2>2. \A i \in 1..n : l.call + i \in ToolCalls
    BY <1>4 DEF ToolCalls
  <2>3. skipped = [i \in 1..n |-> l.call + i]
    BY DEF SkippedCalls
  <2> HIDE DEF n, skipped
  <2> QED
    BY <2>1, <2>2, <2>3
<1>6. results \in Seq(ToolResults)
  <2>1. l.results \in Seq(ToolResults)
    BY <1>1 DEF LoopSet
  <2>2. given = [i \in 1..Len(skipped) |-> Skipped(skipped[i])] /\ Len(skipped) \in Nat
    BY <1>5
  <2>3. \A i \in 1..Len(skipped) : Skipped(skipped[i]) \in ToolResults
    BY <1>5, SkippedType
  <2> HIDE DEF given, skipped
  <2>4. given \in Seq(ToolResults)
    BY <2>2, <2>3
  <2> QED
    BY <2>1, <2>4, ConcatProperties
<1>7. CASE /\ Push(r, AllSkipped(SkippedCalls(r)))
           /\ loop' = [loop EXCEPT ![r] = [l EXCEPT !.pc = "toolsDone", !.results = results]]
  <2> HIDE DEF results
  <2>1. loop'[r] = [l EXCEPT !.pc = "toolsDone", !.results = results]
    BY <1>7 DEF LoopsTyped
  <2>2. loop'[r] \in LoopSet /\ \A q \in Runs \ {r} : loop'[q] = loop[q]
    BY <1>1, <1>6, <1>7, <2>1 DEF LoopsTyped, LoopSet, LoopPCs
  <2>3. LoopShape(loop'[r])
    BY <1>1, <1>4, <2>1, <2>2 DEF LoopShape, LoopSet
  <2>4. Target(loop'[r]) = Place("answered", {}) /\ loop'[r].pc = "toolsDone"
    BY <1>1, <2>1 DEF Target, LoopSet
  <2>5. /\ AllSkipped(skipped) \in Seq(EventSet) /\ Quiet(AllSkipped(skipped))
        /\ Path(Target(l), AllSkipped(skipped), Target(loop'[r]))
    BY <1>2, <1>5, <2>4, AllSkippedShape, QuietSequences, AllSkippedPath
  <2>6. \E events : Pushed(r, events)
    BY <1>7, <2>5, PushQuiet
  <2>7. loop' \in [Runs -> LoopSet]
    BY <1>7, <2>1, <2>2 DEF LoopsTyped
  <2> QED
    BY <1>1, <1>3, <2>2, <2>3, <2>4, <2>6, <2>7 DEF Moves, LoopsTyped
<1>8. CASE /\ l.call < Calls(r)
           /\ loop' = [loop EXCEPT ![r] = [l EXCEPT !.pc = "tool", !.call = l.call + 1]]
           /\ Push(r, <<ToolStart(l.call + 1)>>)
  <2> DEFINE call == l.call + 1
  <2>1. call \in ToolCalls /\ call \in 1..Calls(r) /\ call \in 0..MaxCalls
    BY <1>4, <1>8 DEF ToolCalls
  <2> HIDE DEF call
  <2>2. loop'[r] = [l EXCEPT !.pc = "tool", !.call = call]
    BY <1>8 DEF LoopsTyped, call
  <2>3. loop'[r] \in LoopSet /\ \A q \in Runs \ {r} : loop'[q] = loop[q]
    BY <1>1, <1>8, <2>1, <2>2 DEF LoopsTyped, LoopSet, LoopPCs
  <2>4. LoopShape(loop'[r])
    BY <1>1, <1>4, <2>1, <2>2, <2>3 DEF LoopShape, LoopSet
  <2>5. Target(loop'[r]) = Place("tool", {call}) /\ loop'[r].pc = "tool"
    BY <1>1, <2>2 DEF Target, LoopSet
  <2>6. Target(loop'[r]) = After(Target(l), ToolStart(call)) /\ Target(loop'[r]) \in Places
    BY <1>2, <2>1, <2>4, <2>5, Steps, TargetPlace
  <2>7. ToolStart(call) \in EventSet /\ ToolStart(call).type # "agent_end"
    BY <2>1, Subsets DEF ToolStart, Event
  <2>8. \E events : Pushed(r, events)
    BY <1>2, <1>8, <2>6, <2>7, PushOne DEF call
  <2>9. loop' \in [Runs -> LoopSet]
    BY <1>8, <2>2, <2>3 DEF LoopsTyped, call
  <2> QED
    BY <1>1, <1>3, <2>3, <2>4, <2>5, <2>8, <2>9 DEF Moves, LoopsTyped
<1>9. CASE /\ loop' = [loop EXCEPT ![r] = [l EXCEPT !.pc = "toolsDone"]]
           /\ UNCHANGED stream
  <2>1. loop'[r] = [l EXCEPT !.pc = "toolsDone"]
    BY <1>9 DEF LoopsTyped
  <2>2. loop'[r] \in LoopSet /\ \A q \in Runs \ {r} : loop'[q] = loop[q]
    BY <1>1, <1>9, <2>1 DEF LoopsTyped, LoopSet, LoopPCs
  <2>3. LoopShape(loop'[r])
    BY <1>1, <1>4, <2>1, <2>2 DEF LoopShape, LoopSet
  <2>4. Target(loop'[r]) = Target(l) /\ loop'[r].pc = "toolsDone"
    BY <1>1, <1>2, <2>1 DEF Target, LoopSet
  <2>5. \E events : Pushed(r, events)
    BY <1>2, <1>9, <2>4, PushNothing
  <2> QED
    BY <1>1, <1>3, <1>9, <2>2, <2>3, <2>4, <2>5 DEF Moves, LoopsTyped
<1> QED
  BY <1>7, <1>8, <1>9 DEF AfterTool

LEMMA LoopMoves ==
    ASSUME LoopsTyped, NEW r \in Runs, LoopStep(r) \/ LoopIO(r)
    PROVE  Moves(r)
  BY BeginTurnMoves, PollFollowUpMoves, AfterFollowUpMoves, AfterResponseMoves, AfterToolMoves,
     EndToolTurnMoves, RequestMoves, RequestThrowsMoves, ResponseStartMoves, ResponseEndMoves,
     ToolDoneMoves
  DEF LoopStep, LoopIO

\* A loop that starts: its events so far lead from outside a run to its first response.
LEMMA StartLoopMoves ==
    ASSUME LoopsTyped, NEW r \in Runs, NEW context \in Seq(MessageSet),
           NEW prompts \in Seq(UserMessages), StartLoop(r, context, prompts)
    PROVE  /\ LoopsTyped'
           /\ loop'[r].pc = "polled" /\ \A q \in Runs \ {r} : loop'[q] = loop[q] /\ stream'[q] = stream[q]
           /\ Path(Place("idle", {}), stream'[r], Target(loop'[r]))
           /\ Quiet(stream'[r])
<1> DEFINE before == context \o prompts
           l == [NoLoop EXCEPT !.pc = "polled", !.context = before, !.pending = Steering, !.hasMore = TRUE]
           opening == <<Event("agent_start", None), TurnStart>>
           events == opening \o Announce(prompts)
<1>1. prompts \in Seq(MessageSet) /\ before \in Seq(MessageSet)
  <2>1. prompts \in Seq(MessageSet)
    BY Subsets, SeqMonotonic
  <2> QED
    BY <2>1, ConcatProperties
<1>2. Steering \in Seq(UserMessages) /\ Rest(steeringQueue, SteeringMode) \in Seq(UserMessages)
  BY PollType DEF LoopsTyped, Steering
<1>3. /\ loop' = [loop EXCEPT ![r] = l] /\ stream' = [stream EXCEPT ![r] = events]
      /\ aborted' = [aborted EXCEPT ![r] = FALSE] /\ followUpQueue' = followUpQueue
      /\ steeringQueue' = Rest(steeringQueue, SteeringMode)
  BY DEF StartLoop, PollSteering
<1> HIDE DEF before
<1>4. l \in LoopSet /\ l.pc = "polled" /\ l.first /\ l.hasMore /\ ~l.partial
  <2>1. <<>> \in Seq(UserMessages) /\ <<>> \in Seq(ToolResults) /\ 0 \in 0..MaxCalls
    BY LoopAssumption
  <2> QED
    BY <1>1, <1>2, <2>1 DEF LoopSet, LoopPCs, NoLoop
<1> HIDE DEF l
<1>5. LoopShape(l) /\ Target(l) = Place("asking", {})
  BY <1>4 DEF LoopShape, Target
<1>6. /\ opening \in Seq(EventSet) /\ Quiet(opening)
      /\ Path(Place("idle", {}), opening, Place("asking", {}))
  <2> DEFINE idle == Place("idle", {})  between == Place("between", {})  asking == Place("asking", {})
             path == [k \in 1..3 |-> IF k = 1 THEN idle ELSE IF k = 2 THEN between ELSE asking]
  <2>1. /\ opening \in Seq(EventSet) /\ Len(opening) = 2
        /\ opening[1] = Event("agent_start", None) /\ opening[2] = TurnStart
    BY Subsets
  <2>2. idle \in Places /\ between \in Places /\ asking \in Places
    BY PlacesOf DEF Phases
  <2>3. After(idle, opening[1]) = between /\ After(between, opening[2]) = asking
    BY <2>1, Steps
  <2>4. opening[1].type # "agent_end" /\ opening[2].type # "agent_end"
    BY <2>1 DEF Event, TurnStart
  <2> HIDE DEF idle, between, asking, opening
  <2>5. path \in [1..3 -> Places] /\ path[1] = idle /\ path[2] = between /\ path[3] = asking
    BY <2>2
  <2> HIDE DEF path
  <2>6. \A i \in 1..2 : i = 1 \/ i = 2
    OBVIOUS
  <2>7. \A i \in 1..2 : path[i + 1] = After(path[i], opening[i])
    <3>1. path[1 + 1] = between /\ path[2 + 1] = asking
      BY <2>5
    <3> QED
      BY <2>3, <2>5, <2>6, <3>1
  <2>8. Path(idle, opening, asking)
    <3>1. Len(opening) + 1 = 3
      BY <2>1
    <3> QED
      BY <2>1, <2>5, <2>7, <3>1, PathBy
  <2>9. Quiet(opening)
    BY <2>1, <2>4, <2>6 DEF Quiet
  <2> QED
    BY <2>1, <2>8, <2>9 DEF idle, asking
<1>7. /\ Announce(prompts) \in Seq(EventSet) /\ Quiet(Announce(prompts))
      /\ Path(Place("asking", {}), Announce(prompts), Place("asking", {}))
  BY <1>1, AnnounceShape, QuietSequences, AnnouncePath
<1> HIDE DEF opening
<1>8. /\ events \in Seq(EventSet) /\ Quiet(events)
      /\ Path(Place("idle", {}), events, Place("asking", {}))
  BY <1>6, <1>7, ConcatProperties, QuietConcat, PathConcat
<1> HIDE DEF events
<1>9. loop'[r] = l /\ stream'[r] = events /\ \A q \in Runs \ {r} : loop'[q] = loop[q] /\ stream'[q] = stream[q]
  BY <1>3 DEF LoopsTyped
<1>10. loop' \in [Runs -> LoopSet] /\ stream' \in [Runs -> Seq(EventSet)] /\ aborted' \in [Runs -> BOOLEAN]
  BY <1>3, <1>4, <1>8 DEF LoopsTyped
<1>11. \A q \in Runs : LoopShape(loop'[q])
  BY <1>5, <1>9 DEF LoopsTyped
<1>12. steeringQueue' \in Seq(UserMessages) /\ followUpQueue' \in Seq(UserMessages)
  BY <1>2, <1>3 DEF LoopsTyped
<1>13. LoopsTyped'
  BY <1>10, <1>11, <1>12 DEF LoopsTyped
<1> QED
  BY <1>4, <1>5, <1>8, <1>9, <1>13

-------------------------------------------------------------------------------
(* Types, and the grammar: the events a consumer has not taken yet lead from  *)
(* where its listeners are to where the loop stands.                          *)

Typed == TypeOK /\ \A r \in Runs : LoopShape(loop[r])

Grammar ==
    /\ phase \in [Runs -> Phases]
    /\ \A r \in Runs : loop[r].pc = "none" <=> consumer[r] = "none"
    /\ \A r \in Runs : consumer[r] = "consuming" =>
           \E open : Path(Place(phase[r], open), stream[r], Target(loop[r]))
    /\ \A r \in Runs : consumer[r] # "consuming" => phase[r] = "idle"

AgentTyped ==
    /\ messages \in Seq(MessageSet)
    /\ isStreaming \in BOOLEAN
    /\ streamMessage \in MessageSet \cup {None}
    /\ pendingToolCalls \subseteq ToolCalls
    /\ abortController \subseteq Runs /\ runningPrompt \subseteq Runs
    /\ promise \in [Runs -> {"none", "pending", "resolved"}]
    /\ consumer \in [Runs -> {"none", "consuming", "gone"}]
    /\ inputs \in 0..MaxInputs

LEMMA TypedParts == Typed <=> LoopsTyped /\ AgentTyped
  BY DEF Typed, TypeOK, LoopsTyped, AgentTyped

LEMMA TypedNext == LoopsTyped' /\ AgentTyped' => Typed'
  BY DEF Typed, TypeOK, LoopsTyped, AgentTyped

LEMMA TypedInit == Init => Typed /\ Grammar
<1> SUFFICES ASSUME Init PROVE Typed /\ Grammar
  OBVIOUS
<1>1. MaxCalls \in Nat /\ MaxInputs \in Nat
  BY LoopAssumption, AgentAssumption
<1>2. NoLoop \in LoopSet
  <2>1. <<>> \in Seq(UserMessages) /\ <<>> \in Seq(ToolResults) /\ <<>> \in Seq(MessageSet) /\ 0 \in 0..MaxCalls
    BY <1>1
  <2> QED
    BY <2>1 DEF LoopSet, LoopPCs, NoLoop
<1>3. LoopShape(NoLoop) /\ NoLoop.pc = "none"
  BY <1>2 DEF LoopShape, NoLoop
<1>4. LoopsTyped
  BY <1>2, <1>3 DEF Init, LoopInit, LoopsTyped
<1>5. AgentTyped
  <2>1. <<>> \in Seq(MessageSet) /\ 0 \in 0..MaxInputs
    BY <1>1
  <2>2. promise \in [Runs -> {"none", "pending", "resolved"}] /\ consumer \in [Runs -> {"none", "consuming", "gone"}]
    BY DEF Init
  <2> QED
    BY <2>1, <2>2 DEF Init, AgentTyped
<1>6. Grammar
  BY <1>3 DEF Init, LoopInit, Grammar, Phases
<1> QED
  BY <1>4, <1>5, <1>6, TypedParts

LEMMA GrammarFrame ==
    ASSUME Grammar, UNCHANGED <<loop, stream, consumer, phase>>
    PROVE  Grammar'
  BY DEF Grammar

LEMMA SentType ==
    ASSUME AgentTyped, MaySend, NEW kind \in {"prompt", "steer", "followUp"}
    PROVE  Sent(kind) \in UserMessages /\ inputs + 1 \in 0..MaxInputs
  BY AgentAssumption DEF AgentTyped, MaySend, Sent, Message, UserMessages

LEMMA EventShape ==
    ASSUME NEW event \in EventSet
    PROVE  /\ event.type \in {"message_start", "message_end"} => event.message \in MessageSet
           /\ event.type \in {"tool_execution_start", "tool_execution_end"} => event.message.n \in ToolCalls
  BY DEF EventSet

\* A run that starts.
LEMMA RunStarts ==
    ASSUME Typed, Grammar, NEW r \in Runs, NEW prompts \in Seq(UserMessages),
           FreeSlot(r), RunLoop(r), StartLoop(r, messages, prompts),
           inputs' \in 0..MaxInputs, UNCHANGED <<messages, pendingToolCalls, phase>>
    PROVE  Typed' /\ Grammar'
<1>1. LoopsTyped /\ AgentTyped
  BY TypedParts
<1>2. /\ LoopsTyped'
      /\ loop'[r].pc = "polled" /\ \A q \in Runs \ {r} : loop'[q] = loop[q] /\ stream'[q] = stream[q]
      /\ Path(Place("idle", {}), stream'[r], Target(loop'[r]))
  BY <1>1, StartLoopMoves DEF AgentTyped
<1>3. AgentTyped'
  BY <1>1 DEF AgentTyped, RunLoop
<1>4. /\ consumer' = [consumer EXCEPT ![r] = "consuming"] /\ phase' = phase
      /\ consumer[r] = "none" /\ phase[r] = "idle"
      /\ consumer'[r] = "consuming" /\ \A q \in Runs \ {r} : consumer'[q] = consumer[q]
  BY <1>1 DEF RunLoop, FreeSlot, Grammar, AgentTyped
<1>5. \A q \in Runs : consumer'[q] = "consuming" =>
          \E open : Path(Place(phase'[q], open), stream'[q], Target(loop'[q]))
  <2> SUFFICES ASSUME NEW q \in Runs, consumer'[q] = "consuming"
               PROVE  \E open : Path(Place(phase'[q], open), stream'[q], Target(loop'[q]))
    OBVIOUS
  <2>1. CASE q = r
    BY <1>2, <1>4, <2>1
  <2>2. CASE q # r
    BY <1>2, <1>4, <2>2 DEF Grammar
  <2> QED
    BY <2>1, <2>2
<1>6. \A q \in Runs : loop'[q].pc = "none" <=> consumer'[q] = "none"
  BY <1>2, <1>4 DEF Grammar
<1>7. phase' \in [Runs -> Phases] /\ \A q \in Runs : consumer'[q] # "consuming" => phase'[q] = "idle"
  BY <1>4 DEF Grammar
<1>8. Grammar'
  BY <1>5, <1>6, <1>7 DEF Grammar
<1> QED
  BY <1>2, <1>3, <1>8, TypedNext

LEMMA CallsKeep ==
    ASSUME Typed, Grammar, Calling
    PROVE  Typed' /\ Grammar'
<1>1. LoopsTyped /\ AgentTyped
  BY TypedParts
<1>2. CASE Steer
  <2>1. Sent("steer") \in UserMessages /\ inputs' \in 0..MaxInputs
    BY <1>1, <1>2, SentType DEF Steer
  <2>2. steeringQueue' \in Seq(UserMessages)
    BY <1>1, <1>2, <2>1, AppendProperties DEF Steer, LoopsTyped
  <2>3. LoopsTyped' /\ AgentTyped' /\ UNCHANGED <<loop, stream, consumer, phase>>
    BY <1>1, <1>2, <2>1, <2>2 DEF Steer, LoopsTyped, AgentTyped
  <2> QED
    BY <2>3, GrammarFrame, TypedNext
<1>3. CASE FollowUp
  <2>1. Sent("followUp") \in UserMessages /\ inputs' \in 0..MaxInputs
    BY <1>1, <1>3, SentType DEF FollowUp
  <2>2. followUpQueue' \in Seq(UserMessages)
    BY <1>1, <1>3, <2>1, AppendProperties DEF FollowUp, LoopsTyped
  <2>3. LoopsTyped' /\ AgentTyped' /\ UNCHANGED <<loop, stream, consumer, phase>>
    BY <1>1, <1>3, <2>1, <2>2 DEF FollowUp, LoopsTyped, AgentTyped
  <2> QED
    BY <2>3, GrammarFrame, TypedNext
<1>4. CASE ClearAllQueues
  <2>1. LoopsTyped' /\ AgentTyped' /\ UNCHANGED <<loop, stream, consumer, phase>>
    BY <1>1, <1>4 DEF ClearAllQueues, LoopsTyped, AgentTyped
  <2> QED
    BY <2>1, GrammarFrame, TypedNext
<1>5. CASE Abort
  <2>1. aborted' \in [Runs -> BOOLEAN]
    BY <1>1, <1>5 DEF Abort, LoopsTyped
  <2>2. LoopsTyped' /\ AgentTyped' /\ UNCHANGED <<loop, stream, consumer, phase>>
    BY <1>1, <1>5, <2>1 DEF Abort, agentVars, LoopsTyped, AgentTyped
  <2> QED
    BY <2>2, GrammarFrame, TypedNext
<1>6. CASE Reset
  <2>1. LoopsTyped' /\ AgentTyped' /\ UNCHANGED <<loop, stream, consumer, phase>>
    <3>1. <<>> \in Seq(MessageSet) /\ <<>> \in Seq(UserMessages)
      OBVIOUS
    <3> QED
      BY <1>1, <1>6, <3>1 DEF Reset, LoopsTyped, AgentTyped
  <2> QED
    BY <2>1, GrammarFrame, TypedNext
<1>7. CASE DropFailure
  <2>1. messages' \in Seq(MessageSet)
    <3>1. messages \in Seq(MessageSet) /\ messages' = SubSeq(messages, 1, Len(messages) - 1)
      BY <1>1, <1>7 DEF DropFailure, AgentTyped, Front
    <3> QED
      BY <3>1, SubSeqProperties
  <2>2. LoopsTyped' /\ AgentTyped' /\ UNCHANGED <<loop, stream, consumer, phase>>
    BY <1>1, <1>7, <2>1 DEF DropFailure, loopVars, LoopsTyped, AgentTyped
  <2> QED
    BY <2>2, GrammarFrame, TypedNext
<1>8. ASSUME NEW r \in Runs, Prompt(r)
      PROVE  Typed' /\ Grammar'
  <2>1. Sent("prompt") \in UserMessages /\ inputs' \in 0..MaxInputs
    BY <1>1, <1>8, SentType DEF Prompt
  <2>2. <<Sent("prompt")>> \in Seq(UserMessages)
    BY <2>1
  <2>3. /\ FreeSlot(r) /\ RunLoop(r) /\ StartLoop(r, messages, <<Sent("prompt")>>)
        /\ UNCHANGED <<messages, pendingToolCalls, phase>>
    BY <1>8 DEF Prompt
  <2> QED
    BY <2>1, <2>2, <2>3, RunStarts
<1>9. ASSUME NEW r \in Runs, Continue(r)
      PROVE  Typed' /\ Grammar'
  <2>1. /\ FreeSlot(r) /\ RunLoop(r) /\ StartLoop(r, messages, <<>>)
        /\ UNCHANGED <<messages, pendingToolCalls, phase>>
        /\ inputs' \in 0..MaxInputs
    BY <1>1, <1>9 DEF Continue, AgentTyped
  <2>2. <<>> \in Seq(UserMessages)
    OBVIOUS
  <2> QED
    BY <2>1, <2>2, RunStarts
<1> QED
  BY <1>2, <1>3, <1>4, <1>5, <1>6, <1>7, <1>8, <1>9 DEF Calling

\* An event that is taken: what follows it is a path from the phase it leads to.
LEMMA TakenPath ==
    ASSUME Typed, NEW r \in Runs, stream[r] # <<>>, NEW p, NEW open,
           Path(Place(p, open), stream[r], Target(loop[r]))
    PROVE  LET event == Head(stream[r])
           IN  /\ NextPhase(p, event) \in Phases
               /\ Path(Place(NextPhase(p, event), OpenCalls(open, event)), Tail(stream[r]), Target(loop[r]))
<1> DEFINE event == Head(stream[r])
           next == After(Place(p, open), event)
<1>1. stream[r] \in Seq(EventSet)
  BY DEF Typed, TypeOK
<1>2. next \in Places /\ Path(next, Tail(stream[r]), Target(loop[r]))
  BY <1>1, PathTail
<1>3. next = Place(NextPhase(p, event), OpenCalls(open, event))
  BY DEF After, Place
<1> HIDE DEF next
<1>4. next.phase \in Phases
  BY <1>2 DEF Places, Place, Phases
<1>5. next.phase = NextPhase(p, event)
  BY <1>3 DEF Place
<1> QED
  BY <1>2, <1>3, <1>4, <1>5

LEMMA ConsumeKeeps ==
    ASSUME Typed, Grammar, NEW r \in Runs, Consume(r)
    PROVE  Typed' /\ Grammar'
<1> DEFINE event == Head(stream[r])
<1>1. LoopsTyped /\ AgentTyped
  BY TypedParts
<1>2. /\ stream[r] \in Seq(EventSet) /\ stream[r] # <<>> /\ consumer[r] = "consuming"
      /\ stream' = [stream EXCEPT ![r] = Tail(stream[r])]
      /\ phase' = [phase EXCEPT ![r] = NextPhase(phase[r], event)]
      /\ UNCHANGED <<loop, aborted, steeringQueue, followUpQueue, abortController, runningPrompt,
                     promise, consumer, inputs>>
  BY <1>1 DEF Consume, Take, LoopsTyped
<1>3. event \in EventSet /\ Tail(stream[r]) \in Seq(EventSet)
  BY <1>2, HeadTailProperties
<1>4. LoopsTyped'
  BY <1>1, <1>2, <1>3 DEF LoopsTyped
<1>5. AgentTyped'
  <2>1. messages' \in Seq(MessageSet)
    <3>1. messages' = Transcript(event)
      BY DEF Consume
    <3>2. Appends(event) => event.message \in MessageSet
      BY <1>3, EventShape DEF Appends
    <3> HIDE DEF event
    <3> QED
      BY <1>1, <3>1, <3>2, AppendProperties DEF Transcript, AgentTyped
  <2>2. streamMessage' \in MessageSet \cup {None}
    <3>1. streamMessage' = Showing(event)
      BY DEF Consume
    <3>2. event.type = "message_start" => event.message \in MessageSet
      BY <1>3, EventShape
    <3> HIDE DEF event
    <3> QED
      BY <1>1, <3>1, <3>2 DEF Showing, AgentTyped
  <2>3. pendingToolCalls' \subseteq ToolCalls
    <3>1. pendingToolCalls' = OpenCalls(pendingToolCalls, event)
      BY DEF Consume
    <3>2. event.type \in {"tool_execution_start", "tool_execution_end"} => event.message.n \in ToolCalls
      BY <1>3, EventShape
    <3> HIDE DEF event
    <3> QED
      BY <1>1, <3>1, <3>2 DEF OpenCalls, AgentTyped
  <2>4. isStreaming' \in BOOLEAN
    BY <1>1 DEF Consume, AgentTyped
  <2> QED
    BY <1>1, <1>2, <2>1, <2>2, <2>3, <2>4 DEF AgentTyped
<1>6. PICK open : Path(Place(phase[r], open), stream[r], Target(loop[r]))
  BY <1>2 DEF Grammar
<1>7. /\ NextPhase(phase[r], event) \in Phases
      /\ Path(Place(NextPhase(phase[r], event), OpenCalls(open, event)), Tail(stream[r]), Target(loop[r]))
  BY <1>2, <1>6, TakenPath
<1> HIDE DEF event
<1>8. /\ phase'[r] = NextPhase(phase[r], event) /\ stream'[r] = Tail(stream[r]) /\ phase' \in [Runs -> Phases]
      /\ \A q \in Runs \ {r} : phase'[q] = phase[q] /\ stream'[q] = stream[q]
  BY <1>1, <1>2, <1>7 DEF Grammar, LoopsTyped
<1>9. \A q \in Runs : consumer'[q] = "consuming" =>
          \E o : Path(Place(phase'[q], o), stream'[q], Target(loop'[q]))
  <2> SUFFICES ASSUME NEW q \in Runs, consumer'[q] = "consuming"
               PROVE  \E o : Path(Place(phase'[q], o), stream'[q], Target(loop'[q]))
    OBVIOUS
  <2>1. CASE q = r
    BY <1>2, <1>7, <1>8, <2>1
  <2>2. CASE q # r
    BY <1>2, <1>8, <2>2 DEF Grammar
  <2> QED
    BY <2>1, <2>2
<1>10. \A q \in Runs : consumer'[q] # "consuming" => phase'[q] = "idle"
  BY <1>2, <1>8 DEF Grammar
<1>11. \A q \in Runs : loop'[q].pc = "none" <=> consumer'[q] = "none"
  BY <1>2 DEF Grammar
<1>12. Grammar'
  BY <1>8, <1>9, <1>10, <1>11 DEF Grammar
<1> QED
  BY <1>4, <1>5, <1>12, TypedNext

LEMMA FinallyTyped ==
    ASSUME AgentTyped, Finally
    PROVE  /\ isStreaming' \in BOOLEAN /\ streamMessage' \in MessageSet \cup {None}
           /\ pendingToolCalls' \subseteq ToolCalls
           /\ abortController' \subseteq Runs /\ runningPrompt' \subseteq Runs
           /\ promise' \in [Runs -> {"none", "pending", "resolved"}]
  BY DEF AgentTyped, Finally

LEMMA NoLoopShape == LoopShape(NoLoop) /\ NoLoop.pc = "none"
<1>1. /\ <<>> \in Seq(UserMessages) /\ <<>> \in Seq(ToolResults) /\ <<>> \in Seq(MessageSet)
      /\ 0 \in 0..MaxCalls
  BY LoopAssumption
<1>2. NoLoop \in LoopSet
  BY <1>1 DEF LoopSet, LoopPCs, NoLoop
<1> QED
  BY <1>2 DEF LoopShape, NoLoop

\* A run whose loop is over and whose consumer leaves: its listeners are outside any run.
LEMMA FinishKeeps ==
    ASSUME Typed, Grammar, NEW r \in Runs, Finish(r)
    PROVE  Typed' /\ Grammar'
<1>1. LoopsTyped /\ AgentTyped
  BY TypedParts
<1>2. /\ consumer[r] = "consuming" /\ stream[r] = <<>> /\ loop[r].pc = "ended"
      /\ consumer' = [consumer EXCEPT ![r] = "none"] /\ loop' = [loop EXCEPT ![r] = NoLoop]
      /\ UNCHANGED <<stream, aborted, steeringQueue, followUpQueue, messages, inputs, phase>>
      /\ Finally
  BY DEF Finish
<1>3. LoopsTyped'
  BY <1>1, <1>2, NoLoopShape DEF LoopsTyped, LoopShape
<1>4. AgentTyped'
  BY <1>1, <1>2, FinallyTyped DEF AgentTyped
<1>5. phase[r] = "idle"
  <2>1. PICK open : Path(Place(phase[r], open), <<>>, Target(loop[r]))
    BY <1>2 DEF Grammar
  <2>2. Target(loop[r]) = Place("idle", {})
    BY <1>2 DEF Target
  <2>3. Place("idle", {}) = Place(phase[r], open)
    BY <2>1, <2>2, PathEnds
  <2> QED
    BY <2>3 DEF Place
<1>6. Grammar'
  <2>1. /\ consumer'[r] = "none" /\ loop'[r].pc = "none"
        /\ \A q \in Runs \ {r} : consumer'[q] = consumer[q] /\ loop'[q] = loop[q]
    BY <1>1, <1>2, NoLoopShape DEF LoopsTyped, AgentTyped
  <2> QED
    BY <1>2, <1>5, <2>1 DEF Grammar
<1> QED
  BY <1>3, <1>4, <1>6, TypedNext

LEMMA ListenerThrowsKeeps ==
    ASSUME Typed, Grammar, NEW r \in Runs, ListenerThrows(r)
    PROVE  Typed' /\ Grammar'
<1> DEFINE event == Head(stream[r])
<1>1. LoopsTyped /\ AgentTyped
  BY TypedParts
<1>2. /\ stream[r] \in Seq(EventSet) /\ stream[r] # <<>> /\ consumer[r] = "consuming"
      /\ stream' = [stream EXCEPT ![r] = Tail(stream[r])]
      /\ phase' = [phase EXCEPT ![r] = "idle"] /\ consumer' = [consumer EXCEPT ![r] = "gone"]
      /\ UNCHANGED <<loop, aborted, steeringQueue, followUpQueue, inputs>>
      /\ Finally
  BY <1>1 DEF ListenerThrows, Take, LoopsTyped
<1>3. event \in EventSet /\ Tail(stream[r]) \in Seq(EventSet)
  BY <1>2, HeadTailProperties
<1>4. LoopsTyped'
  BY <1>1, <1>2, <1>3 DEF LoopsTyped
<1>5. messages' \in Seq(MessageSet)
  <2>1. PICK failure \in {Message("assistant", 0, "aborted"), Message("assistant", 0, "error")} :
            messages' = Append(Transcript(event), failure)
    BY DEF ListenerThrows
  <2>2. Appends(event) => event.message \in MessageSet
    BY <1>3, EventShape DEF Appends
  <2>3. failure \in MessageSet
    BY LoopAssumption DEF Message, MessageSet, AssistantMessages
  <2> HIDE DEF event
  <2>4. Transcript(event) \in Seq(MessageSet)
    BY <1>1, <2>2, AppendProperties DEF Transcript, AgentTyped
  <2> QED
    BY <2>1, <2>3, <2>4, AppendProperties
<1>6. AgentTyped'
  BY <1>1, <1>2, <1>5, FinallyTyped DEF AgentTyped
<1>7. /\ phase'[r] = "idle" /\ consumer'[r] = "gone" /\ phase' \in [Runs -> Phases]
      /\ \A q \in Runs \ {r} : consumer'[q] = consumer[q] /\ phase'[q] = phase[q] /\ stream'[q] = stream[q]
  BY <1>1, <1>2 DEF Grammar, LoopsTyped, AgentTyped, Phases
<1>8. Grammar'
  <2>1. \A q \in Runs : loop'[q].pc = "none" <=> consumer'[q] = "none"
    BY <1>2, <1>7 DEF Grammar
  <2>2. \A q \in Runs : consumer'[q] # "consuming" => phase'[q] = "idle"
    BY <1>7 DEF Grammar
  <2>3. ASSUME NEW q \in Runs, consumer'[q] = "consuming"
        PROVE  \E open : Path(Place(phase'[q], open), stream'[q], Target(loop'[q]))
    <3>1. q # r /\ consumer[q] = "consuming"
      BY <1>7, <2>3
    <3>2. \E open : Path(Place(phase[q], open), stream[q], Target(loop[q]))
      BY <3>1 DEF Grammar
    <3> QED
      BY <1>2, <1>7, <3>1, <3>2
  <2> QED
    BY <1>7, <2>1, <2>2, <2>3 DEF Grammar
<1> QED
  BY <1>4, <1>6, <1>8, TypedNext

LEMMA CollectKeeps ==
    ASSUME Typed, Grammar, NEW r \in Runs, Collect(r)
    PROVE  Typed' /\ Grammar'
<1>1. LoopsTyped /\ AgentTyped
  BY TypedParts
<1>2. /\ consumer[r] = "gone"
      /\ consumer' = [consumer EXCEPT ![r] = "none"] /\ loop' = [loop EXCEPT ![r] = NoLoop]
      /\ stream' = [stream EXCEPT ![r] = <<>>]
      /\ UNCHANGED <<aborted, steeringQueue, followUpQueue, messages, isStreaming, streamMessage,
                     pendingToolCalls, abortController, runningPrompt, promise, inputs, phase>>
  BY DEF Collect
<1>3. <<>> \in Seq(EventSet)
  OBVIOUS
<1>4. LoopsTyped'
  BY <1>1, <1>2, <1>3, NoLoopShape DEF LoopsTyped, LoopShape
<1>5. AgentTyped'
  BY <1>1, <1>2 DEF AgentTyped
<1>6. /\ consumer'[r] = "none" /\ loop'[r].pc = "none"
      /\ \A q \in Runs \ {r} : consumer'[q] = consumer[q] /\ loop'[q] = loop[q] /\ stream'[q] = stream[q]
  BY <1>1, <1>2, NoLoopShape DEF LoopsTyped, AgentTyped
<1>7. Grammar'
  BY <1>2, <1>6 DEF Grammar
<1> QED
  BY <1>4, <1>5, <1>7, TypedNext

\* A step of a loop prolongs the path of its events.
LEMMA LoopKeeps ==
    ASSUME Typed, Grammar, NEW r \in Runs, LoopStep(r) \/ LoopIO(r), UNCHANGED agentVars
    PROVE  Typed' /\ Grammar'
<1>1. LoopsTyped /\ AgentTyped
  BY TypedParts
<1>2. Moves(r)
  BY <1>1, LoopMoves
<1>3. PICK events : Pushed(r, events)
  BY <1>2 DEF Moves
<1>4. stream' = [stream EXCEPT ![r] = stream[r] \o events] /\ events \in Seq(EventSet)
  BY <1>3 DEF Pushed
<1>5. stream[r] \in Seq(EventSet) /\ stream[r] \o events \in Seq(EventSet)
  BY <1>1, <1>4, ConcatProperties DEF LoopsTyped
<1>6. LoopsTyped'
  <2>1. stream' \in [Runs -> Seq(EventSet)]
    BY <1>1, <1>4, <1>5 DEF LoopsTyped
  <2>2. \A q \in Runs : LoopShape(loop'[q])
    BY <1>1, <1>2 DEF Moves, LoopsTyped
  <2> QED
    BY <1>1, <1>2, <2>1, <2>2 DEF Moves, LoopsTyped
<1>7. UNCHANGED <<consumer, phase>> /\ AgentTyped'
  BY <1>1 DEF AgentTyped, agentVars
<1>8. stream'[r] = stream[r] \o events /\ \A q \in Runs \ {r} : stream'[q] = stream[q] /\ loop'[q] = loop[q]
  BY <1>1, <1>2, <1>4 DEF Moves, LoopsTyped
<1>9. \A q \in Runs : consumer'[q] = "consuming" =>
          \E o : Path(Place(phase'[q], o), stream'[q], Target(loop'[q]))
  <2> SUFFICES ASSUME NEW q \in Runs, consumer'[q] = "consuming"
               PROVE  \E o : Path(Place(phase'[q], o), stream'[q], Target(loop'[q]))
    OBVIOUS
  <2>1. CASE q = r
    <3>1. PICK open : Path(Place(phase[r], open), stream[r], Target(loop[r]))
      BY <1>7, <2>1 DEF Grammar
    <3>2. Path(Place(phase[r], open), stream[r] \o events, Target(loop'[r]))
      BY <1>3, <1>4, <1>5, <3>1, PathConcat DEF Pushed
    <3> QED
      BY <1>7, <1>8, <2>1, <3>2
  <2>2. CASE q # r
    BY <1>7, <1>8, <2>2 DEF Grammar
  <2> QED
    BY <2>1, <2>2
<1>10. \A q \in Runs : loop'[q].pc = "none" <=> consumer'[q] = "none"
  BY <1>2, <1>7, <1>8 DEF Moves, Grammar
<1>11. Grammar'
  BY <1>7, <1>9, <1>10 DEF Grammar
<1> QED
  BY <1>6, <1>7, <1>11, TypedNext

LEMMA TypedStep ==
    ASSUME Typed, Grammar, [Next]_vars
    PROVE  Typed' /\ Grammar'
<1>1. CASE UNCHANGED vars
  <2>1. UNCHANGED <<loop, stream, aborted, steeringQueue, followUpQueue, messages, isStreaming,
                    streamMessage, pendingToolCalls, abortController, runningPrompt, promise,
                    consumer, inputs, phase>>
    BY <1>1 DEF vars, loopVars, agentVars
  <2>2. LoopsTyped' /\ AgentTyped'
    BY <2>1, TypedParts DEF LoopsTyped, AgentTyped
  <2> QED
    BY <2>1, <2>2, GrammarFrame, TypedNext
<1> QED
  BY <1>1, CallsKeep, ConsumeKeeps, FinishKeeps, ListenerThrowsKeeps, CollectKeeps, LoopKeeps
  DEF Next, Consuming

\* In every reachable state the agent's variables have the shape the class
\* declares, whatever callers, listeners, hooks, the LLM and the tools do.
THEOREM AgentTypes == Spec => []TypeOK
<1>1. Typed /\ Grammar /\ [Next]_vars => (Typed /\ Grammar)'
  BY TypedStep
<1>2. Typed /\ Grammar => TypeOK
  BY DEF Typed
<1> QED
  BY <1>1, <1>2, TypedInit, PTL DEF Spec

\* Listeners see the nesting the documentation draws - turns within a run, one
\* response per turn, tool executions and their results after it - on every path
\* of the loop: aborts, failures, interruptions by steering and throwing hooks
\* included, and even when runs overlap or a listener throws.
THEOREM GrammarHolds == Spec => []EventGrammar
<1>1. Typed /\ Grammar /\ [Next]_vars => (Typed /\ Grammar)'
  BY TypedStep
<1>2. Typed /\ Grammar => EventGrammar
  BY DEF Grammar, EventGrammar, Phases
<1> QED
  BY <1>1, <1>2, TypedInit, PTL DEF Spec

-------------------------------------------------------------------------------
(* One run at a time, for callers that wait for the agent between runs and    *)
(* listeners that do not throw.                                               *)

\* The consuming run is the one the agent's fields are about, and the calls it
\* shows as open are those of the place its listeners are at.
Current(r) ==
    /\ runningPrompt = {r} /\ abortController = {r}
    /\ loop[r].pc # "ended" => isStreaming
    /\ Path(Place(phase[r], pendingToolCalls), stream[r], Target(loop[r]))

OneRun ==
    /\ \A r \in Runs : consumer[r] \in {"none", "consuming"}
    /\ \A r \in Runs : consumer[r] = "consuming" => Current(r)
    /\ \A r \in Runs : \A i \in 1..Len(stream[r]) :
           stream[r][i].type = "agent_end" => loop[r].pc \in {"none", "ended"}
    /\ \A r \in Runs : consumer[r] = "none" => stream[r] = <<>>
    /\ runningPrompt = {} => pendingToolCalls = {} /\ streamMessage = None

LEMMA OneRunInit == Init => OneRun
<1> SUFFICES ASSUME Init PROVE OneRun
  OBVIOUS
<1>1. \A r \in Runs : consumer[r] = "none" /\ stream[r] = <<>> /\ Len(stream[r]) = 0
  BY DEF Init, LoopInit
<1> QED
  BY <1>1 DEF Init, OneRun

LEMMA OneRunImplies ==
    ASSUME Typed, Grammar, OneRun
    PROVE  OneRunAtATime
<1>1. \A r \in Runs : Busy(r) => Current(r) /\ loop[r].pc # "ended"
  BY DEF Busy, OneRun, Grammar
<1>2. \A r \in Runs : Busy(r) => isStreaming /\ abortController = {r} /\ runningPrompt = {r}
  BY <1>1 DEF Current
<1>3. \A r, q \in Runs : Busy(r) /\ Busy(q) => r = q
  <2> SUFFICES ASSUME NEW r \in Runs, NEW q \in Runs, Busy(r), Busy(q) PROVE r = q
    OBVIOUS
  <2>1. runningPrompt = {r} /\ runningPrompt = {q}
    BY <1>2
  <2> QED
    BY <2>1
<1>4. \A r \in Runs : phase[r] \in {"between", "asking"} => pendingToolCalls = {}
  <2> SUFFICES ASSUME NEW r \in Runs, phase[r] \in {"between", "asking"} PROVE pendingToolCalls = {}
    OBVIOUS
  <2>1. Path(Place(phase[r], pendingToolCalls), stream[r], Target(loop[r]))
    BY DEF Grammar, OneRun, Current
  <2>2. Place(phase[r], pendingToolCalls) \in Places
    <3>1. PICK path \in [1..(Len(stream[r]) + 1) -> Places] : path[1] = Place(phase[r], pendingToolCalls)
      BY <2>1 DEF Path, Leads
    <3>2. Len(stream[r]) \in Nat
      BY DEF Typed, TypeOK
    <3>3. 1 \in 1..(Len(stream[r]) + 1)
      BY <3>2
    <3> QED
      BY <3>1, <3>3
  <2> QED
    BY <2>2 DEF Places, Place
<1>5. TypeOK
  BY DEF Typed
<1> QED
  BY <1>2, <1>3, <1>4, <1>5 DEF OneRunAtATime, OneRun

\* Whatever leaves the runs, and what is said of them, alone.
LEMMA OneRunFrame ==
    ASSUME OneRun, UNCHANGED <<loop, stream, consumer, phase, isStreaming, runningPrompt,
                               abortController, pendingToolCalls, streamMessage>>
    PROVE  OneRun'
  BY DEF OneRun, Current

LEMMA OneRunStarts ==
    ASSUME Typed, Grammar, OneRun, NEW r \in Runs, NEW prompts \in Seq(UserMessages),
           runningPrompt = {}, RunLoop(r), StartLoop(r, messages, prompts),
           UNCHANGED <<pendingToolCalls, phase>>
    PROVE  OneRun'
<1>1. LoopsTyped /\ AgentTyped
  BY TypedParts
<1>2. \A q \in Runs : consumer[q] = "none" /\ stream[q] = <<>>
  BY DEF OneRun, Current
<1>3. /\ loop'[r].pc = "polled" /\ \A q \in Runs \ {r} : loop'[q] = loop[q] /\ stream'[q] = stream[q]
      /\ Path(Place("idle", {}), stream'[r], Target(loop'[r]))
      /\ Quiet(stream'[r])
  BY <1>1, StartLoopMoves DEF AgentTyped
<1>4. /\ consumer'[r] = "consuming" /\ \A q \in Runs \ {r} : consumer'[q] = "none"
      /\ runningPrompt' = {r} /\ abortController' = {r} /\ isStreaming'
      /\ pendingToolCalls' = {} /\ phase'[r] = "idle"
  BY <1>1, <1>2 DEF RunLoop, AgentTyped, OneRun, Grammar
<1>5. Current(r)'
  BY <1>3, <1>4 DEF Current
<1>6. \A q \in Runs : consumer'[q] = "consuming" => q = r
  BY <1>4
<1>7. \A q \in Runs : \A i \in 1..Len(stream'[q]) :
          stream'[q][i].type = "agent_end" => loop'[q].pc \in {"none", "ended"}
  <2> SUFFICES ASSUME NEW q \in Runs, NEW i \in 1..Len(stream'[q]), stream'[q][i].type = "agent_end"
               PROVE  loop'[q].pc \in {"none", "ended"}
    OBVIOUS
  <2>1. q # r
    BY <1>3 DEF Quiet
  <2> QED
    BY <1>3, <2>1 DEF OneRun
<1>8. \A q \in Runs : consumer'[q] = "none" => stream'[q] = <<>>
  BY <1>2, <1>3, <1>4
<1>9. \A q \in Runs : consumer'[q] = "consuming" => Current(q)'
  BY <1>5, <1>6
<1>10. \A q \in Runs : consumer'[q] \in {"none", "consuming"}
  BY <1>4
<1> QED
  BY <1>4, <1>7, <1>8, <1>9, <1>10 DEF OneRun

LEMMA OneRunCalls ==
    ASSUME ~EarlyPrompts, Typed, Grammar, OneRun, Calling
    PROVE  OneRun'
<1>1. LoopsTyped /\ AgentTyped
  BY TypedParts
<1>2. CASE Steer \/ FollowUp \/ ClearAllQueues
  BY <1>2, OneRunFrame DEF Steer, FollowUp, ClearAllQueues
<1>3. CASE Abort
  BY <1>3, OneRunFrame DEF Abort, agentVars
<1>4. CASE DropFailure
  BY <1>4, OneRunFrame DEF DropFailure, loopVars
<1>5. CASE Reset
  <2>1. /\ runningPrompt = {} /\ pendingToolCalls' = {} /\ streamMessage' = None
        /\ UNCHANGED <<loop, stream, consumer>>
    BY <1>5 DEF Reset
  <2>2. \A q \in Runs : consumer[q] = "none"
    BY <2>1 DEF OneRun, Current
  <2> QED
    BY <2>1, <2>2 DEF OneRun
<1>6. ASSUME NEW r \in Runs, Prompt(r)
      PROVE  OneRun'
  <2>1. ~isStreaming /\ runningPrompt = {}
    BY <1>6 DEF Prompt, PromptGuard, MayCall
  <2>2. <<Sent("prompt")>> \in Seq(UserMessages)
    BY <1>1, <1>6, SentType DEF Prompt
  <2>3. /\ RunLoop(r) /\ StartLoop(r, messages, <<Sent("prompt")>>)
        /\ UNCHANGED <<pendingToolCalls, phase>>
    BY <1>6 DEF Prompt
  <2> QED
    BY <2>1, <2>2, <2>3, OneRunStarts
<1>7. ASSUME NEW r \in Runs, Continue(r)
      PROVE  OneRun'
  <2>1. ~isStreaming /\ runningPrompt = {}
    BY <1>7 DEF Continue, PromptGuard, MayCall
  <2>2. <<>> \in Seq(UserMessages)
    OBVIOUS
  <2>3. RunLoop(r) /\ StartLoop(r, messages, <<>>) /\ UNCHANGED <<pendingToolCalls, phase>>
    BY <1>7 DEF Continue
  <2> QED
    BY <2>1, <2>2, <2>3, OneRunStarts
<1> QED
  BY <1>2, <1>3, <1>4, <1>5, <1>6, <1>7 DEF Calling

LEMMA OneRunConsume ==
    ASSUME Typed, Grammar, OneRun, NEW r \in Runs, Consume(r)
    PROVE  OneRun'
<1> DEFINE event == Head(stream[r])
           rest == Tail(stream[r])
<1>1. LoopsTyped /\ AgentTyped
  BY TypedParts
<1>2. /\ stream[r] \in Seq(EventSet) /\ stream[r] # <<>> /\ consumer[r] = "consuming" /\ Current(r)
      /\ stream' = [stream EXCEPT ![r] = rest]
      /\ phase' = [phase EXCEPT ![r] = NextPhase(phase[r], event)]
      /\ pendingToolCalls' = OpenCalls(pendingToolCalls, event)
      /\ isStreaming' = (isStreaming /\ event.type # "agent_end")
      /\ UNCHANGED <<loop, abortController, runningPrompt, consumer>>
  BY <1>1 DEF Consume, Take, LoopsTyped, OneRun
<1>3. /\ rest \in Seq(EventSet) /\ Len(rest) = Len(stream[r]) - 1 /\ event = stream[r][1]
      /\ 1 \in 1..Len(stream[r]) /\ Len(stream[r]) \in Nat
      /\ \A i \in 1..Len(rest) : rest[i] = stream[r][i + 1] /\ i + 1 \in 1..Len(stream[r])
  BY <1>2, HeadTailProperties
<1>4. Path(Place(NextPhase(phase[r], event), OpenCalls(pendingToolCalls, event)), rest, Target(loop[r]))
  BY <1>2, TakenPath DEF Current
<1> HIDE DEF event, rest
<1>5. /\ phase'[r] = NextPhase(phase[r], event) /\ stream'[r] = rest
      /\ \A q \in Runs \ {r} : stream'[q] = stream[q]
  BY <1>1, <1>2 DEF Grammar, LoopsTyped
<1>6. event.type = "agent_end" => loop[r].pc \in {"none", "ended"}
  BY <1>3 DEF OneRun
<1>7. loop[r].pc # "none"
  BY <1>2 DEF Grammar
<1>8. Current(r)'
  <2>1. loop'[r].pc # "ended" => isStreaming'
    BY <1>2, <1>6, <1>7 DEF Current
  <2> QED
    BY <1>2, <1>4, <1>5, <2>1 DEF Current
<1>9. \A q \in Runs : consumer'[q] = "consuming" => q = r
  <2> SUFFICES ASSUME NEW q \in Runs, consumer'[q] = "consuming" PROVE q = r
    OBVIOUS
  <2>1. runningPrompt = {r} /\ runningPrompt = {q}
    BY <1>2 DEF OneRun, Current
  <2> QED
    BY <2>1
<1>10. \A q \in Runs : \A i \in 1..Len(stream'[q]) :
           stream'[q][i].type = "agent_end" => loop'[q].pc \in {"none", "ended"}
  <2> SUFFICES ASSUME NEW q \in Runs, NEW i \in 1..Len(stream'[q]), stream'[q][i].type = "agent_end"
               PROVE  loop'[q].pc \in {"none", "ended"}
    OBVIOUS
  <2>1. CASE q = r
    <3>1. rest[i].type = "agent_end" /\ i \in 1..Len(rest)
      BY <1>5, <2>1
    <3>2. stream[r][i + 1].type = "agent_end" /\ i + 1 \in 1..Len(stream[r])
      BY <1>3, <3>1
    <3>3. loop[r].pc \in {"none", "ended"}
      BY <3>2 DEF OneRun
    <3> QED
      BY <1>2, <2>1, <3>3
  <2>2. CASE q # r
    BY <1>2, <1>5, <2>2 DEF OneRun
  <2> QED
    BY <2>1, <2>2
<1>11. \A q \in Runs : consumer'[q] = "none" => stream'[q] = <<>>
  BY <1>2, <1>5 DEF OneRun
<1>12. runningPrompt' # {}
  BY <1>2 DEF Current
<1>13. \A q \in Runs : consumer'[q] = "consuming" => Current(q)'
  BY <1>8, <1>9
<1>14. \A q \in Runs : consumer'[q] \in {"none", "consuming"}
  BY <1>2 DEF OneRun
<1> QED
  BY <1>10, <1>11, <1>12, <1>13, <1>14 DEF OneRun

LEMMA OneRunFinish ==
    ASSUME Typed, Grammar, OneRun, NEW r \in Runs, Finish(r)
    PROVE  OneRun'
<1>1. LoopsTyped /\ AgentTyped
  BY TypedParts
<1>2. /\ consumer[r] = "consuming" /\ stream[r] = <<>> /\ stream' = stream
      /\ consumer' = [consumer EXCEPT ![r] = "none"] /\ loop' = [loop EXCEPT ![r] = NoLoop]
      /\ pendingToolCalls' = {} /\ streamMessage' = None
  BY DEF Finish, Finally
<1>3. \A q \in Runs : consumer[q] = "consuming" => q = r
  <2> SUFFICES ASSUME NEW q \in Runs, consumer[q] = "consuming" PROVE q = r
    OBVIOUS
  <2>1. runningPrompt = {r} /\ runningPrompt = {q}
    BY <1>2 DEF OneRun, Current
  <2> QED
    BY <2>1
<1>4. \A q \in Runs : consumer'[q] = "none"
  BY <1>1, <1>2, <1>3 DEF OneRun, AgentTyped
<1>5. \A q \in Runs : stream'[q] = <<>>
  BY <1>1, <1>2, <1>3 DEF OneRun
<1>6. \A q \in Runs : Len(stream'[q]) = 0
  BY <1>5
<1> QED
  BY <1>2, <1>4, <1>5, <1>6 DEF OneRun

LEMMA OneRunLoop ==
    ASSUME Typed, Grammar, OneRun, NEW r \in Runs, LoopStep(r) \/ LoopIO(r), UNCHANGED agentVars
    PROVE  OneRun'
<1>1. LoopsTyped /\ AgentTyped
  BY TypedParts
<1>2. Moves(r)
  BY <1>1, LoopMoves
<1>3. PICK events : Pushed(r, events)
  BY <1>2 DEF Moves
<1>4. /\ stream' = [stream EXCEPT ![r] = stream[r] \o events] /\ events \in Seq(EventSet)
      /\ stream[r] \in Seq(EventSet)
      /\ \A i \in 1..Len(events) : events[i].type = "agent_end" => loop'[r].pc = "ended"
  BY <1>1, <1>3 DEF Pushed, LoopsTyped
<1>5. UNCHANGED <<consumer, phase, isStreaming, runningPrompt, abortController, pendingToolCalls, streamMessage>>
  BY DEF agentVars
<1>6. stream'[r] = stream[r] \o events /\ \A q \in Runs \ {r} : stream'[q] = stream[q] /\ loop'[q] = loop[q]
  BY <1>1, <1>2, <1>4 DEF Moves, LoopsTyped
<1>7. loop[r].pc \notin {"none", "ended"} /\ consumer[r] = "consuming" /\ Current(r)
  BY <1>2 DEF Moves, Grammar, OneRun
<1>8. Current(r)'
  <2>1. Path(Place(phase[r], pendingToolCalls), stream[r] \o events, Target(loop'[r]))
    BY <1>3, <1>4, <1>7, PathConcat DEF Pushed, Current
  <2> QED
    BY <1>5, <1>6, <1>7, <2>1 DEF Current
<1>9. \A q \in Runs \ {r} : consumer'[q] = "consuming" => Current(q)'
  BY <1>5, <1>6 DEF OneRun, Current
<1>10. \A i \in 1..Len(stream'[r]) : stream'[r][i].type = "agent_end" => loop'[r].pc \in {"none", "ended"}
  <2>1. Quiet(stream[r])
    BY <1>7 DEF OneRun, Quiet
  <2>2. CASE Quiet(events)
    BY <1>4, <1>6, <2>1, <2>2, QuietConcat DEF Quiet
  <2>3. CASE ~Quiet(events)
    BY <1>4, <2>3 DEF Quiet
  <2> QED
    BY <2>2, <2>3
<1>11. \A q \in Runs : \A i \in 1..Len(stream'[q]) :
           stream'[q][i].type = "agent_end" => loop'[q].pc \in {"none", "ended"}
  <2> SUFFICES ASSUME NEW q \in Runs, NEW i \in 1..Len(stream'[q]), stream'[q][i].type = "agent_end"
               PROVE  loop'[q].pc \in {"none", "ended"}
    OBVIOUS
  <2>1. CASE q = r
    BY <1>10, <2>1
  <2>2. CASE q # r
    BY <1>6, <2>2 DEF OneRun
  <2> QED
    BY <2>1, <2>2
<1>12. \A q \in Runs : consumer'[q] = "none" => stream'[q] = <<>>
  BY <1>5, <1>6, <1>7 DEF OneRun
<1>13. \A q \in Runs : consumer'[q] = "consuming" => Current(q)'
  BY <1>8, <1>9
<1>14. \A q \in Runs : consumer'[q] \in {"none", "consuming"}
  BY <1>5 DEF OneRun
<1>15. runningPrompt' = {} => pendingToolCalls' = {} /\ streamMessage' = None
  BY <1>5 DEF OneRun
<1> QED
  BY <1>11, <1>12, <1>13, <1>14, <1>15 DEF OneRun

LEMMA OneRunStep ==
    ASSUME ~EarlyPrompts, ~ListenersThrow, Typed, Grammar, OneRun, [Next]_vars
    PROVE  OneRun'
<1>1. CASE UNCHANGED vars
  BY <1>1, OneRunFrame DEF vars, loopVars, agentVars
<1>2. ASSUME NEW r \in Runs, Collect(r)
      PROVE  OneRun'
  BY <1>2 DEF Collect, OneRun
<1>3. ASSUME NEW r \in Runs, ListenerThrows(r)
      PROVE  OneRun'
  BY <1>3 DEF ListenerThrows
<1> QED
  BY <1>1, <1>2, <1>3, OneRunCalls, OneRunConsume, OneRunFinish, OneRunLoop DEF Next, Consuming

\* At most one loop works for the agent; while it does, isStreaming, the abort
\* controller and the promise waitForIdle() hands out are about that loop, and no
\* tool call is left open between turns or in an idle agent - provided that runs
\* are started by callers that waited for the last one, not from a listener of
\* its agent_end, and that listeners do not throw.
THEOREM OneRunHolds ==
    ASSUME ~EarlyPrompts, ~ListenersThrow
    PROVE  Spec => []OneRunAtATime
<1>1. Typed /\ Grammar /\ OneRun /\ [Next]_vars => (Typed /\ Grammar /\ OneRun)'
  BY TypedStep, OneRunStep
<1>2. Typed /\ Grammar /\ OneRun => OneRunAtATime
  BY OneRunImplies
<1>3. Init => Typed /\ Grammar /\ OneRun
  BY TypedInit, OneRunInit
<1> QED
  BY <1>1, <1>2, <1>3, PTL DEF Spec

-------------------------------------------------------------------------------
(* What the consumer makes of the events: the transcript they lead to.        *)

Taken(ms, event) == IF Appends(event) THEN Append(ms, event.message) ELSE ms

Growth == {<<ms, event, Taken(ms, event)>> : ms \in Seq(MessageSet), event \in EventSet}

\* Consuming the events turns one transcript into another.
Delivers(from, events, to) == Leads(Growth, Seq(MessageSet), from, events, to)

\* The events complete these messages, whatever came before.
Brings(events, ms) == \A c \in Seq(MessageSet) : Delivers(c, events, c \o ms)

LEMMA TakenType ==
    ASSUME NEW ms \in Seq(MessageSet), NEW event \in EventSet
    PROVE  /\ Taken(ms, event) \in Seq(MessageSet)
           /\ Appends(event) => event.message \in MessageSet
<1>1. Appends(event) => event.message \in MessageSet
  BY EventShape DEF Appends
<1> QED
  BY <1>1 DEF Taken

LEMMA WhatAppends ==
    /\ \A m : ~Appends(Event("message_start", m))
    /\ \A m : Appends(Event("message_end", m)) /\ Event("message_end", m).message = m
    /\ \A call : ~Appends(ToolStart(call)) /\ ~Appends(ToolEnd(call))
    /\ ~Appends(TurnStart) /\ ~Appends(TurnEnd) /\ ~Appends(AgentEnd)
    /\ ~Appends(Event("agent_start", None))
BY DEF Appends, Event, ToolStart, ToolEnd, TurnStart, TurnEnd, AgentEnd

\* Grouping of messages.
LEMMA Regroup == \A a, b, c \in Seq(MessageSet) : (a \o b) \o c = a \o (b \o c)
BY ConcatAssociative

LEMMA RegroupLast == \A a, b \in Seq(MessageSet), e \in MessageSet : a \o Append(b, e) = Append(a \o b, e)
BY ConcatAppend

\* The messages at their places, told[k] of them before event k.
LEMMA BringsBy ==
    ASSUME NEW events \in Seq(EventSet), NEW ms \in Seq(MessageSet),
           NEW told \in [1..(Len(events) + 1) -> 0..Len(ms)],
           told[1] = 0, told[Len(events) + 1] = Len(ms),
           \A k \in 1..Len(events) :
               IF Appends(events[k])
               THEN told[k] < Len(ms) /\ told[k + 1] = told[k] + 1 /\ events[k].message = ms[told[k] + 1]
               ELSE told[k + 1] = told[k]
    PROVE  Brings(events, ms)
<1> SUFFICES ASSUME NEW c \in Seq(MessageSet) PROVE Delivers(c, events, c \o ms)
  BY DEF Brings
<1> DEFINE n == Len(events)
           first(k) == SubSeq(ms, 1, k)
           path == [k \in 1..(n + 1) |-> c \o first(told[k])]
<1>1. n \in Nat /\ Len(ms) \in Nat /\ 1 \in 1..(n + 1) /\ n + 1 \in 1..(n + 1)
  OBVIOUS
<1>2. \A k \in 0..Len(ms) : first(k) \in Seq(MessageSet)
  BY SubSeqProperties
<1>3. first(0) = <<>> /\ first(Len(ms)) = ms
  BY SubSeqFull
<1>4. \A k \in 0..(Len(ms) - 1) : first(k + 1) = Append(first(k), ms[k + 1]) /\ ms[k + 1] \in MessageSet
  BY SubSeqGrows
<1> HIDE DEF first
<1>5. path \in [1..(n + 1) -> Seq(MessageSet)]
  <2>1. \A k \in 1..(n + 1) : c \o first(told[k]) \in Seq(MessageSet)
    BY <1>2, ConcatProperties
  <2> QED
    BY <2>1
<1>6. path[1] = c /\ path[n + 1] = c \o ms
  BY <1>1, <1>3, ConcatEmptySeq
<1>7. \A k \in 1..n : <<path[k], events[k], path[k + 1]>> \in Growth
  <2> SUFFICES ASSUME NEW k \in 1..n PROVE <<path[k], events[k], path[k + 1]>> \in Growth
    OBVIOUS
  <2>1. k \in 1..(n + 1) /\ k + 1 \in 1..(n + 1) /\ events[k] \in EventSet
    BY <1>1
  <2>2. path[k] = c \o first(told[k]) /\ path[k + 1] = c \o first(told[k + 1])
    BY <2>1
  <2>3. path[k] \in Seq(MessageSet)
    BY <1>5, <2>1
  <2> HIDE DEF path
  <2>4. path[k + 1] = Taken(path[k], events[k])
    <3>1. CASE Appends(events[k])
      <4>1. told[k] \in 0..(Len(ms) - 1) /\ told[k + 1] = told[k] + 1 /\ events[k].message = ms[told[k] + 1]
        <5>1. told[k] \in 0..Len(ms)
          BY <2>1
        <5>2. told[k] < Len(ms) /\ told[k + 1] = told[k] + 1 /\ events[k].message = ms[told[k] + 1]
          BY <3>1
        <5> QED
          BY <1>1, <5>1, <5>2
      <4>2. path[k + 1] = c \o Append(first(told[k]), ms[told[k] + 1])
        BY <1>4, <2>2, <4>1
      <4>3. first(told[k]) \in Seq(MessageSet) /\ ms[told[k] + 1] \in MessageSet
        BY <1>2, <1>4, <2>1, <4>1
      <4>4. path[k + 1] = Append(path[k], events[k].message)
        <5>1. c \o Append(first(told[k]), ms[told[k] + 1]) = Append(c \o first(told[k]), ms[told[k] + 1])
          BY <4>3, RegroupLast, Zenon
        <5> QED
          BY <2>2, <4>1, <4>2, <5>1
      <4> QED
        BY <3>1, <4>4 DEF Taken
    <3>2. CASE ~Appends(events[k])
      BY <2>2, <3>2 DEF Taken
    <3> QED
      BY <3>1, <3>2
  <2> QED
    BY <2>1, <2>3, <2>4 DEF Growth
<1> HIDE DEF path
<1> QED
  BY <1>5, <1>6, <1>7 DEF Delivers, Leads

LEMMA BringsEmpty == Brings(<<>>, <<>>)
<1> SUFFICES ASSUME NEW c \in Seq(MessageSet) PROVE Delivers(c, <<>>, c \o <<>>)
  BY DEF Brings
<1>1. c \o <<>> = c
  BY ConcatEmptySeq
<1> QED
  BY <1>1, LeadsEmpty DEF Delivers

LEMMA BringsNone ==
    ASSUME NEW event \in EventSet, ~Appends(event)
    PROVE  Brings(<<event>>, <<>>)
<1> SUFFICES ASSUME NEW c \in Seq(MessageSet) PROVE Delivers(c, <<event>>, c \o <<>>)
  BY DEF Brings
<1>1. c \o <<>> = c
  BY ConcatEmptySeq
<1>2. <<c, event, c>> \in Growth
  BY DEF Growth, Taken
<1> QED
  BY <1>1, <1>2, LeadsOne DEF Delivers

LEMMA BringsOne ==
    ASSUME NEW m \in MessageSet
    PROVE  Brings(<<Event("message_end", m)>>, <<m>>)
<1> DEFINE event == Event("message_end", m)
<1> SUFFICES ASSUME NEW c \in Seq(MessageSet) PROVE Delivers(c, <<event>>, c \o <<m>>)
  BY DEF Brings
<1>1. event \in EventSet /\ Taken(c, event) = c \o <<m>>
  <2>1. event \in EventSet
    BY Subsets
  <2>2. Appends(event) /\ event.message = m
    BY DEF Appends, Event
  <2>3. Append(c, m) = c \o <<m>>
    OBVIOUS
  <2> QED
    BY <2>1, <2>2, <2>3 DEF Taken
<1> HIDE DEF event
<1>2. Taken(c, event) \in Seq(MessageSet)
  BY <1>1, TakenType
<1>3. <<c, event, Taken(c, event)>> \in Growth
  BY <1>1 DEF Growth
<1> QED
  BY <1>1, <1>2, <1>3, LeadsOne DEF Delivers

LEMMA BringsConcat ==
    ASSUME NEW s \in Seq(EventSet), NEW t \in Seq(EventSet),
           NEW a \in Seq(MessageSet), NEW b \in Seq(MessageSet), Brings(s, a), Brings(t, b)
    PROVE  Brings(s \o t, a \o b)
<1> SUFFICES ASSUME NEW c \in Seq(MessageSet) PROVE Delivers(c, s \o t, c \o (a \o b))
  BY DEF Brings
<1>1. c \o a \in Seq(MessageSet) /\ c \o (a \o b) = (c \o a) \o b
  <2>1. c \o a \in Seq(MessageSet)
    BY ConcatProperties
  <2>2. c \o (a \o b) = (c \o a) \o b
    BY Regroup, Zenon
  <2> QED
    BY <2>1, <2>2
<1>2. Delivers(c, s, c \o a) /\ Delivers(c \o a, t, (c \o a) \o b)
  BY <1>1 DEF Brings
<1> QED
  BY <1>1, <1>2, LeadsConcat DEF Delivers

LEMMA BringsAnnounced ==
    ASSUME NEW ms \in Seq(MessageSet)
    PROVE  Brings(Announce(ms), ms)
<1> DEFINE n == Len(ms)  events == Announce(ms)  told == [k \in 1..(2 * n + 1) |-> (k - 1) \div 2]
<1>1. n \in Nat
  OBVIOUS
<1>2. /\ events \in Seq(EventSet) /\ Len(events) = 2 * n
      /\ \A i \in 1..n : /\ events[2 * i - 1] = Event("message_start", ms[i])
                         /\ events[2 * i] = Event("message_end", ms[i])
      /\ \A k \in 1..(2 * n) : \E i \in 1..n : k = 2 * i - 1 \/ k = 2 * i
  BY AnnounceShape
<1> HIDE DEF n, events
<1>3. told \in [1..(2 * n + 1) -> 0..n]
  BY <1>1
<1>4. told[1] = 0 /\ told[2 * n + 1] = n
  <2>1. 1 \in 1..(2 * n + 1) /\ 2 * n + 1 \in 1..(2 * n + 1) /\ (1 - 1) \div 2 = 0 /\ ((2 * n + 1) - 1) \div 2 = n
    BY <1>1
  <2> QED
    BY <2>1
<1>5. \A i \in 1..n : told[2 * i - 1] = i - 1 /\ told[2 * i] = i - 1 /\ told[2 * i + 1] = i
  <2> SUFFICES ASSUME NEW i \in 1..n
               PROVE  told[2 * i - 1] = i - 1 /\ told[2 * i] = i - 1 /\ told[2 * i + 1] = i
    OBVIOUS
  <2>1. 2 * i - 1 \in 1..(2 * n + 1) /\ 2 * i \in 1..(2 * n + 1) /\ 2 * i + 1 \in 1..(2 * n + 1)
    BY <1>1
  <2>2. (2 * i - 1 - 1) \div 2 = i - 1 /\ (2 * i - 1) \div 2 = i - 1 /\ (2 * i + 1 - 1) \div 2 = i
    OBVIOUS
  <2> QED
    BY <2>1, <2>2
<1> HIDE DEF told
<1>6. \A k \in 1..(2 * n) :
          IF Appends(events[k])
          THEN told[k] < n /\ told[k + 1] = told[k] + 1 /\ events[k].message = ms[told[k] + 1]
          ELSE told[k + 1] = told[k]
  <2> SUFFICES ASSUME NEW k \in 1..(2 * n)
               PROVE  IF Appends(events[k])
                      THEN told[k] < n /\ told[k + 1] = told[k] + 1 /\ events[k].message = ms[told[k] + 1]
                      ELSE told[k + 1] = told[k]
    OBVIOUS
  <2>1. PICK i \in 1..n : k = 2 * i - 1 \/ k = 2 * i
    BY <1>2
  <2>2. CASE k = 2 * i - 1
    <3>1. ~Appends(events[k])
      BY <1>2, <2>2, WhatAppends
    <3>2. told[k] = i - 1 /\ told[k + 1] = i - 1
      <4>1. k + 1 = 2 * i
        BY <2>2
      <4> QED
        BY <1>5, <2>2, <4>1
    <3> QED
      BY <3>1, <3>2
  <2>3. CASE k = 2 * i
    <3>1. Appends(events[k]) /\ events[k].message = ms[i]
      BY <1>2, <2>3, WhatAppends
    <3>2. told[k] = i - 1 /\ told[k + 1] = i /\ (i - 1) + 1 = i /\ i - 1 < n
      BY <1>1, <1>5, <2>3
    <3> QED
      BY <3>1, <3>2
  <2> QED
    BY <2>1, <2>2, <2>3
<1>7. Brings(events, ms)
  <2>1. Len(ms) = n /\ Len(events) = 2 * n
    BY <1>2 DEF n
  <2>2. told \in [1..(Len(events) + 1) -> 0..Len(ms)]
    BY <1>3, <2>1
  <2> QED
    BY <1>2, <1>4, <1>6, <2>1, <2>2, BringsBy
<1> QED
  BY <1>7 DEF events

LEMMA BringsSkipped ==
    ASSUME NEW calls \in Seq(ToolCalls)
    PROVE  Brings(AllSkipped(calls), [i \in 1..Len(calls) |-> Skipped(calls[i])])
<1> DEFINE n == Len(calls)  events == AllSkipped(calls)  ms == [i \in 1..Len(calls) |-> Skipped(calls[i])]
           told == [k \in 1..(4 * n + 1) |-> (k - 1) \div 4]
<1>1. n \in Nat
  OBVIOUS
<1>2. ms \in Seq(MessageSet) /\ Len(ms) = n /\ \A i \in 1..n : ms[i] = Skipped(calls[i])
  BY SkippedType
<1>3. /\ events \in Seq(EventSet) /\ Len(events) = 4 * n
      /\ \A i \in 1..n : /\ events[4 * i - 3] = ToolStart(calls[i])
                         /\ events[4 * i - 2] = ToolEnd(calls[i])
                         /\ events[4 * i - 1] = Event("message_start", Skipped(calls[i]))
                         /\ events[4 * i] = Event("message_end", Skipped(calls[i]))
      /\ \A k \in 1..(4 * n) : \E i \in 1..n : k = 4 * i - 3 \/ k = 4 * i - 2 \/ k = 4 * i - 1 \/ k = 4 * i
  BY AllSkippedShape
<1> HIDE DEF n, events, ms
<1>4. told \in [1..(4 * n + 1) -> 0..n]
  BY <1>1
<1>5. told[1] = 0 /\ told[4 * n + 1] = n
  <2>1. 1 \in 1..(4 * n + 1) /\ 4 * n + 1 \in 1..(4 * n + 1) /\ (1 - 1) \div 4 = 0 /\ ((4 * n + 1) - 1) \div 4 = n
    BY <1>1
  <2> QED
    BY <2>1
<1>6. \A i \in 1..n : /\ told[4 * i - 3] = i - 1 /\ told[4 * i - 2] = i - 1 /\ told[4 * i - 1] = i - 1
                      /\ told[4 * i] = i - 1 /\ told[4 * i + 1] = i
  <2> SUFFICES ASSUME NEW i \in 1..n
               PROVE  /\ told[4 * i - 3] = i - 1 /\ told[4 * i - 2] = i - 1 /\ told[4 * i - 1] = i - 1
                      /\ told[4 * i] = i - 1 /\ told[4 * i + 1] = i
    OBVIOUS
  <2>1. /\ 4 * i - 3 \in 1..(4 * n + 1) /\ 4 * i - 2 \in 1..(4 * n + 1) /\ 4 * i - 1 \in 1..(4 * n + 1)
        /\ 4 * i \in 1..(4 * n + 1) /\ 4 * i + 1 \in 1..(4 * n + 1)
    BY <1>1
  <2>2. /\ (4 * i - 3 - 1) \div 4 = i - 1 /\ (4 * i - 2 - 1) \div 4 = i - 1 /\ (4 * i - 1 - 1) \div 4 = i - 1
        /\ (4 * i - 1) \div 4 = i - 1 /\ (4 * i + 1 - 1) \div 4 = i
    OBVIOUS
  <2> QED
    BY <2>1, <2>2
<1> HIDE DEF told
<1>7. \A k \in 1..(4 * n) :
          IF Appends(events[k])
          THEN told[k] < n /\ told[k + 1] = told[k] + 1 /\ events[k].message = ms[told[k] + 1]
          ELSE told[k + 1] = told[k]
  <2> SUFFICES ASSUME NEW k \in 1..(4 * n)
               PROVE  IF Appends(events[k])
                      THEN told[k] < n /\ told[k + 1] = told[k] + 1 /\ events[k].message = ms[told[k] + 1]
                      ELSE told[k + 1] = told[k]
    OBVIOUS
  <2>1. PICK i \in 1..n : k = 4 * i - 3 \/ k = 4 * i - 2 \/ k = 4 * i - 1 \/ k = 4 * i
    BY <1>3
  <2>2. CASE k # 4 * i
    <3>1. ~Appends(events[k])
      <4>1. \/ events[k] = ToolStart(calls[i]) \/ events[k] = ToolEnd(calls[i])
            \/ events[k] = Event("message_start", Skipped(calls[i]))
        <5>1. k = 4 * i - 3 => events[k] = ToolStart(calls[i])
          BY <1>3
        <5>2. k = 4 * i - 2 => events[k] = ToolEnd(calls[i])
          BY <1>3
        <5>3. k = 4 * i - 1 => events[k] = Event("message_start", Skipped(calls[i]))
          BY <1>3
        <5> QED
          BY <2>1, <2>2, <5>1, <5>2, <5>3
      <4> QED
        BY <4>1, WhatAppends
    <3>2. told[k] = i - 1 /\ told[k + 1] = i - 1
      <4>1. k + 1 = 4 * i - 2 \/ k + 1 = 4 * i - 1 \/ k + 1 = 4 * i
        BY <2>1, <2>2
      <4> QED
        BY <1>6, <2>1, <2>2, <4>1
    <3> QED
      BY <3>1, <3>2
  <2>3. CASE k = 4 * i
    <3>1. Appends(events[k]) /\ events[k].message = Skipped(calls[i])
      BY <1>3, <2>3, WhatAppends
    <3>2. told[k] = i - 1 /\ told[k + 1] = i /\ (i - 1) + 1 = i /\ i - 1 < n
      BY <1>1, <1>6, <2>3
    <3> QED
      BY <1>2, <3>1, <3>2
  <2> QED
    BY <2>2, <2>3
<1>8. Brings(events, ms)
  <2>1. Len(ms) = n /\ Len(events) = 4 * n
    BY <1>2, <1>3
  <2>2. told \in [1..(Len(events) + 1) -> 0..Len(ms)]
    BY <1>4, <2>1
  <2> QED
    BY <1>2, <1>3, <1>5, <1>7, <2>1, <2>2, BringsBy
<1> QED
  BY <1>8 DEF events, ms

LEMMA BringsResult ==
    ASSUME NEW call \in ToolCalls, NEW result \in MessageSet
    PROVE  Brings(ToolEvents(call, result), <<result>>)
<1> DEFINE events == ToolEvents(call, result)  ms == <<result>>
           told == [k \in 1..4 |-> IF k = 4 THEN 1 ELSE 0]
<1>1. /\ events \in Seq(EventSet) /\ Len(events) = 3 /\ events[1] = ToolEnd(call)
      /\ events[2] = Event("message_start", result) /\ events[3] = Event("message_end", result)
  BY ToolEventsType DEF ToolEvents
<1>2. ms \in Seq(MessageSet) /\ Len(ms) = 1 /\ ms[1] = result
  OBVIOUS
<1>3. /\ told \in [1..(3 + 1) -> 0..1] /\ told[1] = 0 /\ told[2] = 0 /\ told[3] = 0 /\ told[4] = 1
  OBVIOUS
<1> HIDE DEF events, ms, told
<1>4. \A k \in 1..3 : IF Appends(events[k])
                      THEN told[k] < 1 /\ told[k + 1] = told[k] + 1 /\ events[k].message = ms[told[k] + 1]
                      ELSE told[k + 1] = told[k]
  <2>1. ~Appends(events[1]) /\ ~Appends(events[2]) /\ Appends(events[3]) /\ events[3].message = result
    BY <1>1, WhatAppends
  <2>2. \A k \in 1..3 : (k = 1 /\ k + 1 = 2) \/ (k = 2 /\ k + 1 = 3) \/ (k = 3 /\ k + 1 = 4)
    OBVIOUS
  <2>3. told[3] + 1 = 1
    BY <1>3
  <2> QED
    BY <1>2, <1>3, <2>1, <2>2, <2>3
<1>5. Brings(events, ms)
  <2>1. told \in [1..(Len(events) + 1) -> 0..Len(ms)] /\ told[Len(events) + 1] = Len(ms)
    BY <1>1, <1>2, <1>3
  <2> QED
    BY <1>1, <1>2, <1>3, <1>4, <2>1, BringsBy
<1> QED
  BY <1>5 DEF events, ms

LEMMA DeliversTail ==
    ASSUME NEW s \in Seq(EventSet), s # <<>>, NEW a, NEW b, Delivers(a, s, b)
    PROVE  Delivers(Taken(a, Head(s)), Tail(s), b)
<1>1. PICK next \in Seq(MessageSet) : <<a, Head(s), next>> \in Growth /\ Delivers(next, Tail(s), b)
  BY LeadsTail DEF Delivers
<1>2. next = Taken(a, Head(s))
  BY <1>1 DEF Growth
<1> QED
  BY <1>1, <1>2

LEMMA DeliversPush ==
    ASSUME NEW s \in Seq(EventSet), NEW t \in Seq(EventSet), NEW a, NEW b \in Seq(MessageSet),
           NEW ms, Delivers(a, s, b), Brings(t, ms)
    PROVE  Delivers(a, s \o t, b \o ms)
<1>1. Delivers(b, t, b \o ms)
  BY DEF Brings
<1> QED
  BY <1>1, LeadsConcat DEF Delivers

LEMMA DeliversEnds ==
    ASSUME NEW a, NEW b, Delivers(a, <<>>, b)
    PROVE  b = a
BY LeadsEnds DEF Delivers

\* A consumer only adds to the transcript, and what it adds does not depend on it.
LEMMA DeliversAdds ==
    ASSUME NEW events \in Seq(EventSet), NEW a, NEW b, Delivers(a, events, b)
    PROVE  \E ms \in Seq(MessageSet) : b = a \o ms /\ Delivers(<<>>, events, ms)
<1> DEFINE n == Len(events)
           Seqs == Seq(MessageSet)
<1>1. n \in Nat
  OBVIOUS
<1>2. PICK p \in [1..(n + 1) -> Seqs] :
          p[1] = a /\ p[n + 1] = b /\ \A i \in 1..n : <<p[i], events[i], p[i + 1]>> \in Growth
  BY DEF Delivers, Leads
<1>3. \A i \in 1..n : p[i + 1] = Taken(p[i], events[i]) /\ events[i] \in EventSet
  <2>1. \A x, y, z : <<x, y, z>> \in Growth => z = Taken(x, y) /\ y \in EventSet
    BY DEF Growth
  <2> QED
    BY <1>2, <2>1
<1>4. a \in Seqs
  BY <1>1, <1>2
<1> HIDE DEF n
<1> DEFINE Good == {i \in 1..(n + 1) : \E ms \in Seqs : p[i] = a \o ms}
<1>5. 1 \in Good
  <2>1. 1 \in 1..(n + 1) /\ <<>> \in Seqs /\ a \o <<>> = a
    BY <1>1, <1>4, ConcatEmptySeq
  <2> QED
    BY <1>2, <2>1
<1>6. \A i \in 1..n : i \in Good => i + 1 \in Good
  <2> SUFFICES ASSUME NEW i \in 1..n, i \in Good PROVE i + 1 \in Good
    OBVIOUS
  <2>1. PICK ms \in Seqs : p[i] = a \o ms
    OBVIOUS
  <2>2. i + 1 \in 1..(n + 1)
    BY <1>1
  <2>3. CASE Appends(events[i])
    <3>1. events[i].message \in MessageSet
      BY <1>3, <2>3, EventShape DEF Appends
    <3>2. p[i + 1] = a \o Append(ms, events[i].message) /\ Append(ms, events[i].message) \in Seqs
      <4>1. p[i + 1] = Append(a \o ms, events[i].message)
        BY <1>3, <2>1, <2>3 DEF Taken
      <4>2. a \o Append(ms, events[i].message) = Append(a \o ms, events[i].message)
        BY <1>4, <2>1, <3>1, RegroupLast, Zenon
      <4>3. Append(ms, events[i].message) \in Seqs
        BY <3>1
      <4> QED
        BY <4>1, <4>2, <4>3
    <3> QED
      BY <2>2, <3>2
  <2>4. CASE ~Appends(events[i])
    BY <1>3, <2>1, <2>2, <2>4 DEF Taken
  <2> QED
    BY <2>3, <2>4
<1>7. 1..(n + 1) \subseteq Good
  <2> HIDE DEF Good
  <2> QED
    BY <1>1, <1>5, <1>6, Climb
<1> DEFINE q == [i \in 1..(n + 1) |-> CHOOSE ms \in Seqs : p[i] = a \o ms]
<1>8. \A i \in 1..(n + 1) : q[i] \in Seqs /\ p[i] = a \o q[i]
  BY <1>7
<1> HIDE DEF Good
<1>9. q \in [1..(n + 1) -> Seqs]
  BY <1>8
<1> HIDE DEF q
<1>10. \A ms \in Seqs, other \in Seqs : a \o ms = a \o other => ms = other
  BY <1>4, ConcatSame
<1>11. q[1] = <<>>
  <2>1. 1 \in 1..(n + 1) /\ <<>> \in Seqs /\ a \o <<>> = a
    BY <1>1, <1>4, ConcatEmptySeq
  <2> QED
    BY <1>2, <1>8, <1>10, <2>1
<1>12. \A i \in 1..n : <<q[i], events[i], q[i + 1]>> \in Growth
  <2> SUFFICES ASSUME NEW i \in 1..n PROVE <<q[i], events[i], q[i + 1]>> \in Growth
    OBVIOUS
  <2>1. i \in 1..(n + 1) /\ i + 1 \in 1..(n + 1)
    BY <1>1
  <2>2. q[i] \in Seqs /\ q[i + 1] \in Seqs /\ p[i] = a \o q[i] /\ p[i + 1] = a \o q[i + 1]
    BY <1>8, <2>1
  <2>3. q[i + 1] = Taken(q[i], events[i])
    <3>1. CASE Appends(events[i])
      <4>1. events[i].message \in MessageSet
        BY <1>3, <3>1, EventShape DEF Appends
      <4>2. a \o q[i + 1] = a \o Append(q[i], events[i].message) /\ Append(q[i], events[i].message) \in Seqs
        <5>1. p[i + 1] = Append(a \o q[i], events[i].message)
          BY <1>3, <2>2, <3>1 DEF Taken
        <5>2. a \o Append(q[i], events[i].message) = Append(a \o q[i], events[i].message)
          <6>1. \A x \in Seqs, m \in MessageSet : a \o Append(x, m) = Append(a \o x, m)
            BY <1>4, ConcatAppend
          <6> QED
            BY <2>2, <4>1, <6>1
        <5>3. Append(q[i], events[i].message) \in Seqs
          BY <2>2, <4>1
        <5> QED
          BY <2>2, <5>1, <5>2, <5>3
      <4> QED
        BY <1>10, <2>2, <3>1, <4>2 DEF Taken
    <3>2. CASE ~Appends(events[i])
      BY <1>3, <1>10, <2>2, <3>2 DEF Taken
    <3> QED
      BY <3>1, <3>2
  <2> QED
    BY <1>3, <2>2, <2>3 DEF Growth
<1>13. Delivers(<<>>, events, q[n + 1])
  BY <1>9, <1>11, <1>12 DEF Delivers, Leads, n
<1>14. n + 1 \in 1..(n + 1)
  BY <1>1
<1> QED
  BY <1>2, <1>8, <1>13, <1>14

\* The same, as the function that reads the messages off the events.
LEMMA DeliversCompleted ==
    ASSUME NEW events \in Seq(EventSet), NEW ms, Delivers(<<>>, events, ms)
    PROVE  Completed(events) = ms
<1> DEFINE n == Len(events)
           Step(f) == [i \in 0..n |-> IF i = 0 THEN <<>>
                                      ELSE IF events[i].type = "message_end" THEN Append(f[i - 1], events[i].message)
                                      ELSE f[i - 1]]
           upto == CHOOSE f : f = Step(f)
<1>1. Completed(events) = upto[n]
  BY DEF Completed
<1>2. PICK p \in [1..(n + 1) -> Seq(MessageSet)] :
          p[1] = <<>> /\ p[n + 1] = ms /\ \A i \in 1..n : <<p[i], events[i], p[i + 1]>> \in Growth
  BY DEF Delivers, Leads
<1>3. n \in Nat
  OBVIOUS
<1>4. \A i \in 1..n : p[i + 1] = Taken(p[i], events[i])
  <2>1. \A x, y, z : <<x, y, z>> \in Growth => z = Taken(x, y)
    BY DEF Growth
  <2> QED
    BY <1>2, <2>1
<1> HIDE DEF n
<1> DEFINE f == [i \in 0..n |-> p[i + 1]]
<1>5. f = Step(f)
  <2> DEFINE g == Step(f)
  <2>1. \A i \in 0..n : f[i] = g[i]
    <3> SUFFICES ASSUME NEW i \in 0..n PROVE f[i] = g[i]
      OBVIOUS
    <3>1. f[i] = p[i + 1]
      OBVIOUS
    <3>2. CASE i = 0
      BY <1>2, <1>3, <3>1, <3>2
    <3>3. CASE i # 0
      <4>1. i - 1 \in 0..n /\ i \in 1..n /\ (i - 1) + 1 = i
        BY <1>3, <3>3
      <4>2. f[i - 1] = p[i]
        BY <4>1
      <4>3. p[i + 1] = Taken(p[i], events[i])
        BY <1>4, <4>1
      <4>4. g[i] = IF events[i].type = "message_end" THEN Append(f[i - 1], events[i].message) ELSE f[i - 1]
        BY <3>3
      <4> HIDE DEF f, g
      <4> QED
        BY <3>1, <4>2, <4>3, <4>4 DEF Taken, Appends
    <3> QED
      BY <3>2, <3>3
  <2>2. f = [i \in 0..n |-> f[i]] /\ g = [i \in 0..n |-> g[i]]
    OBVIOUS
  <2> HIDE DEF f, g
  <2>3. f = g
    BY <2>1, <2>2
  <2> QED
    BY <2>3 DEF g
<1> HIDE DEF f
<1>6. upto = Step(upto)
  <2> HIDE DEF Step
  <2> QED
    BY <1>5
<1> HIDE DEF upto
<1>7. /\ upto[0] = <<>>
      /\ \A i \in 1..n : upto[i] = IF events[i].type = "message_end" THEN Append(upto[i - 1], events[i].message)
                                    ELSE upto[i - 1]
  <2> DEFINE g == Step(upto)
  <2>1. g[0] = <<>>
    BY <1>3
  <2>2. \A i \in 1..n : g[i] = IF events[i].type = "message_end" THEN Append(upto[i - 1], events[i].message)
                                ELSE upto[i - 1]
    BY <1>3
  <2>3. upto = g
    BY <1>6
  <2> HIDE DEF g
  <2> QED
    BY <2>1, <2>2, <2>3
<1> HIDE DEF Step
<1> DEFINE Good == {i \in 1..(n + 1) : upto[i - 1] = p[i]}
<1>8. 1 \in Good
  <2>1. 1 \in 1..(n + 1) /\ 1 - 1 = 0
    BY <1>3
  <2> QED
    BY <1>2, <1>7, <2>1
<1>9. \A i \in 1..n : i \in Good => i + 1 \in Good
  <2> SUFFICES ASSUME NEW i \in 1..n, i \in Good PROVE i + 1 \in Good
    OBVIOUS
  <2>1. i + 1 \in 1..(n + 1) /\ (i + 1) - 1 = i
    BY <1>3
  <2>2. upto[i] = p[i + 1]
    BY <1>4, <1>7 DEF Taken, Appends
  <2> QED
    BY <2>1, <2>2
<1>10. 1..(n + 1) \subseteq Good
  <2> HIDE DEF Good
  <2> QED
    BY <1>3, <1>8, <1>9, Climb
<1>11. n + 1 \in 1..(n + 1) /\ (n + 1) - 1 = n
  BY <1>3
<1>12. upto[n] = ms
  BY <1>2, <1>10, <1>11
<1> QED
  BY <1>1, <1>12

-------------------------------------------------------------------------------
(* What a loop holds: the messages it told its consumer of, and those it      *)
(* polled and did not tell of yet.                                            *)

Told(l) == (IF l.partial THEN Front(l.context) ELSE l.context) \o l.results

Held(l) == l.pending \o l.steering

\* The calls of the response at i have their results right after it, in order.
AnsweredIn(ms, i) ==
    \A call \in 1..ms[i].n :
        i + call <= Len(ms) /\ ms[i + call].role = "toolResult" /\ ms[i + call].n = call

AnsweredTo(ms, n) == \A i \in 1..n : ms[i].kind = "toolUse" => AnsweredIn(ms, i)

\* After a skipped call come only others and the steering message they made room for.
SkipsLead(ms, held) ==
    \A i \in 1..Len(ms) : ms[i].kind = "skipped" =>
        IF i < Len(ms) THEN ms[i + 1].kind \in {"skipped", "steer"}
        ELSE held # <<>> /\ held[1].kind = "steer"

InTools == {"responded", "tool", "toolPolled", "toolsDone"}

\* How far the calls of the last response are answered, where the loop stands.
Orderly(l) ==
    /\ l.partial => Last(l.context) = Partial
    /\ l.pending # <<>> => l.pc \in {"polled", "followUp"}
    /\ l.steering # <<>> => l.pc \in {"toolPolled", "toolsDone"}
    /\ \A i \in 1..Len(l.steering) : l.steering[i].kind = "steer"
    /\ l.pc \notin InTools => l.results = <<>> /\ AnsweredTo(Told(l), Len(Told(l)))
    /\ l.pc \in InTools => AnsweredTo(Told(l), Len(l.context) - 1)
    /\ \A i \in 1..Len(l.results) :
           l.results[i].n = i /\ (l.pc # "toolsDone" => l.results[i].kind = "ran")
    /\ l.pc = "responded" => l.results = <<>>
    /\ l.pc = "tool" => Len(l.results) = l.call - 1
    /\ l.pc = "toolPolled" => Len(l.results) = l.call
    /\ l.pc = "toolsDone" => Len(l.results) = Last(l.context).n
    /\ SkipsLead(Told(l), Held(l))

LEMMA ToldParts ==
    ASSUME NEW l, LoopShape(l)
    PROVE  /\ Told(l) \in Seq(MessageSet)
           /\ Held(l) \in Seq(UserMessages) /\ Held(l) \in Seq(MessageSet)
           /\ l.context \in Seq(MessageSet) /\ l.results \in Seq(MessageSet)
           /\ ~l.partial => Told(l) = l.context \o l.results
           /\ ~l.partial /\ l.results = <<>> => Told(l) = l.context
           /\ l.partial /\ l.results = <<>> => Told(l) = Front(l.context)
           /\ l.steering = <<>> => Held(l) = l.pending
           /\ l.pending = <<>> => Held(l) = l.steering
           /\ l.pending = <<>> /\ l.steering = <<>> => Held(l) = <<>>
<1>1. l \in LoopSet /\ (l.partial => l.context # <<>>)
  BY DEF LoopShape
<1>2. /\ l.context \in Seq(MessageSet) /\ l.pending \in Seq(UserMessages) /\ l.steering \in Seq(UserMessages)
      /\ l.results \in Seq(ToolResults) /\ l.partial \in BOOLEAN
  BY <1>1 DEF LoopSet
<1>3. l.results \in Seq(MessageSet)
  BY <1>2, Subsets, SeqMonotonic
<1>4. l.partial => Front(l.context) \in Seq(MessageSet)
  BY <1>1, <1>2, SubSeqProperties DEF Front
<1>5. Told(l) \in Seq(MessageSet)
  BY <1>2, <1>3, <1>4, ConcatProperties DEF Told
<1>6. Held(l) \in Seq(UserMessages)
  BY <1>2, ConcatProperties DEF Held
<1>7. Held(l) \in Seq(MessageSet)
  BY <1>6, Subsets, SeqMonotonic
<1>8. ~l.partial => Told(l) = l.context \o l.results
  BY DEF Told
<1>9. /\ ~l.partial /\ l.results = <<>> => Told(l) = l.context
      /\ l.partial /\ l.results = <<>> => Told(l) = Front(l.context)
  BY <1>2, <1>4, ConcatEmptySeq DEF Told
<1>10. /\ l.steering = <<>> => Held(l) = l.pending
       /\ l.pending = <<>> => Held(l) = l.steering
  BY <1>2, ConcatEmptySeq DEF Held
<1> QED
  BY <1>2, <1>3, <1>5, <1>6, <1>7, <1>8, <1>9, <1>10

LEMMA AnsweredKeeps ==
    ASSUME NEW ms \in Seq(MessageSet), NEW x \in Seq(MessageSet), NEW n \in Int, n <= Len(ms),
           AnsweredTo(ms, n)
    PROVE  AnsweredTo(ms \o x, n)
<1> DEFINE u == ms \o x
<1>1. /\ Len(u) = Len(ms) + Len(x) /\ Len(ms) \in Nat /\ Len(x) \in Nat
      /\ \A i \in 1..(Len(ms) + Len(x)) : u[i] = IF i <= Len(ms) THEN ms[i] ELSE x[i - Len(ms)]
  BY ConcatProperties
<1> HIDE DEF u
<1>2. \A i \in 1..Len(ms) : u[i] = ms[i]
  BY <1>1
<1> SUFFICES ASSUME NEW i \in 1..n, u[i].kind = "toolUse", NEW call \in 1..u[i].n
             PROVE  i + call <= Len(u) /\ u[i + call].role = "toolResult" /\ u[i + call].n = call
  BY DEF AnsweredTo, AnsweredIn, u
<1>3. i \in 1..Len(ms) /\ u[i] = ms[i]
  BY <1>1, <1>2
<1>4. i + call <= Len(ms) /\ ms[i + call].role = "toolResult" /\ ms[i + call].n = call
  BY <1>3 DEF AnsweredTo, AnsweredIn
<1>5. call \in Nat /\ call >= 1
  OBVIOUS
<1>6. i + call \in 1..Len(ms)
  BY <1>1, <1>3, <1>4, <1>5
<1> QED
  BY <1>1, <1>2, <1>4, <1>6

\* What makes no calls leaves none unanswered.
LEMMA AnsweredMore ==
    ASSUME NEW ms \in Seq(MessageSet), NEW x \in Seq(MessageSet), AnsweredTo(ms, Len(ms)),
           \A i \in 1..Len(x) : x[i].kind # "toolUse"
    PROVE  AnsweredTo(ms \o x, Len(ms \o x))
<1> DEFINE u == ms \o x
<1>1. /\ Len(u) = Len(ms) + Len(x) /\ Len(ms) \in Nat /\ Len(x) \in Nat
      /\ \A i \in 1..(Len(ms) + Len(x)) : u[i] = IF i <= Len(ms) THEN ms[i] ELSE x[i - Len(ms)]
  BY ConcatProperties
<1>2. AnsweredTo(u, Len(ms))
  BY <1>1, AnsweredKeeps
<1> HIDE DEF u
<1>3. \A i \in 1..Len(u) : u[i].kind = "toolUse" => i \in 1..Len(ms)
  <2> SUFFICES ASSUME NEW i \in 1..Len(u), u[i].kind = "toolUse", ~(i <= Len(ms)) PROVE FALSE
    BY <1>1
  <2>1. i - Len(ms) \in 1..Len(x) /\ i \in 1..(Len(ms) + Len(x))
    BY <1>1
  <2>2. u[i] = x[i - Len(ms)]
    BY <1>1, <2>1
  <2> QED
    BY <2>1, <2>2
<1>4. AnsweredTo(u, Len(u))
  BY <1>2, <1>3 DEF AnsweredTo
<1> QED
  BY <1>4 DEF u

LEMMA SkipsMore ==
    ASSUME NEW ms \in Seq(MessageSet), NEW x \in Seq(MessageSet), NEW held, SkipsLead(ms, x),
           \A i \in 1..Len(x) : x[i].kind # "skipped"
    PROVE  SkipsLead(ms \o x, held)
<1> DEFINE u == ms \o x
<1>1. /\ Len(u) = Len(ms) + Len(x) /\ Len(ms) \in Nat /\ Len(x) \in Nat
      /\ \A i \in 1..(Len(ms) + Len(x)) : u[i] = IF i <= Len(ms) THEN ms[i] ELSE x[i - Len(ms)]
  BY ConcatProperties
<1> HIDE DEF u
<1> SUFFICES ASSUME NEW i \in 1..Len(u), u[i].kind = "skipped"
             PROVE  i < Len(u) /\ u[i + 1].kind \in {"skipped", "steer"}
  BY DEF SkipsLead, u
<1>2. i <= Len(ms)
  <2> SUFFICES ASSUME ~(i <= Len(ms)) PROVE FALSE
    BY <1>1
  <2>1. i - Len(ms) \in 1..Len(x) /\ i \in 1..(Len(ms) + Len(x))
    BY <1>1
  <2>2. u[i] = x[i - Len(ms)]
    BY <1>1, <2>1
  <2> QED
    BY <2>1, <2>2
<1>3. i \in 1..Len(ms) /\ u[i] = ms[i]
  BY <1>1, <1>2
<1>4. CASE i < Len(ms)
  <2>1. ms[i + 1].kind \in {"skipped", "steer"}
    BY <1>3, <1>4 DEF SkipsLead
  <2>2. i + 1 \in 1..(Len(ms) + Len(x)) /\ i + 1 <= Len(ms)
    BY <1>1, <1>3, <1>4
  <2>3. u[i + 1] = ms[i + 1]
    BY <1>1, <2>2
  <2> QED
    BY <1>1, <1>4, <2>1, <2>3
<1>5. CASE i = Len(ms)
  <2>1. x # <<>> /\ x[1].kind = "steer"
    BY <1>3, <1>5 DEF SkipsLead
  <2>2. Len(x) > 0
    BY <2>1
  <2>3. i + 1 \in 1..(Len(ms) + Len(x)) /\ ~(i + 1 <= Len(ms)) /\ (i + 1) - Len(ms) = 1
    BY <1>1, <1>3, <1>5, <2>2
  <2>4. u[i + 1] = x[1]
    BY <1>1, <2>3
  <2> QED
    BY <1>1, <1>5, <2>1, <2>2, <2>4
<1> QED
  BY <1>1, <1>2, <1>4, <1>5

\* Skipped calls before a steering message.
LEMMA SkipsSkipped ==
    ASSUME NEW ms \in Seq(MessageSet), NEW x \in Seq(MessageSet), NEW held, SkipsLead(ms, held),
           ms # <<>>, ms[Len(ms)].kind # "skipped", \A i \in 1..Len(x) : x[i].kind = "skipped",
           held # <<>>, held[1].kind = "steer"
    PROVE  SkipsLead(ms \o x, held)
<1> DEFINE u == ms \o x
<1>1. /\ Len(u) = Len(ms) + Len(x) /\ Len(ms) \in Nat /\ Len(x) \in Nat
      /\ \A i \in 1..(Len(ms) + Len(x)) : u[i] = IF i <= Len(ms) THEN ms[i] ELSE x[i - Len(ms)]
  BY ConcatProperties
<1> HIDE DEF u
<1> SUFFICES ASSUME NEW i \in 1..Len(u), u[i].kind = "skipped", i < Len(u)
             PROVE  u[i + 1].kind \in {"skipped", "steer"}
  BY DEF SkipsLead, u
<1>2. CASE i < Len(ms)
  <2>1. i \in 1..Len(ms) /\ u[i] = ms[i]
    BY <1>1, <1>2
  <2>2. ms[i + 1].kind \in {"skipped", "steer"}
    BY <1>2, <2>1 DEF SkipsLead
  <2>3. i + 1 \in 1..(Len(ms) + Len(x)) /\ i + 1 <= Len(ms)
    BY <1>1, <1>2
  <2>4. u[i + 1] = ms[i + 1]
    BY <1>1, <2>3
  <2> QED
    BY <2>2, <2>4
<1>3. CASE i >= Len(ms)
  <2> DEFINE j == (i + 1) - Len(ms)
  <2>1. i + 1 \in 1..(Len(ms) + Len(x)) /\ ~(i + 1 <= Len(ms)) /\ j \in 1..Len(x)
    BY <1>1, <1>3
  <2>2. u[i + 1] = x[j]
    BY <1>1, <2>1
  <2> HIDE DEF j
  <2> QED
    BY <2>1, <2>2
<1> QED
  BY <1>1, <1>2, <1>3

-------------------------------------------------------------------------------
(* A step of a loop tells the consumer of some messages: those it held, or    *)
(* some of its own, and then it may poll a queue if it held none.             *)

\* Messages no caller queued.
Plain(ms) == \A i \in 1..Len(ms) : ms[i].kind \notin {"steer", "followUp"}

Carries(l, m, told) ==
    /\ Told(m) = Told(l) \o told
    /\ \/ told = Held(l) /\ Held(m) = <<>> /\ UNCHANGED <<steeringQueue, followUpQueue>>
       \/ Plain(told) /\ Held(m) = Held(l) /\ UNCHANGED <<steeringQueue, followUpQueue>>
       \/ Plain(told) /\ Held(l) = <<>> /\ Held(m) = Steering /\ PollSteering /\ UNCHANGED followUpQueue
       \/ /\ Plain(told) /\ Held(l) = <<>> /\ Held(m) = Popped(followUpQueue, FollowUpMode)
          /\ followUpQueue' = Rest(followUpQueue, FollowUpMode) /\ UNCHANGED steeringQueue

Advances(r) ==
    /\ Orderly(loop'[r])
    /\ \E events \in Seq(EventSet), told \in Seq(MessageSet) :
           /\ stream' = [stream EXCEPT ![r] = stream[r] \o events]
           /\ Brings(events, told)
           /\ Carries(loop[r], loop'[r], told)

\* A step that pushes nothing and tells nothing.
LEMMA SaysNothing ==
    ASSUME LoopsTyped, NEW r \in Runs, UNCHANGED stream, Told(loop'[r]) = Told(loop[r])
    PROVE  /\ <<>> \in Seq(EventSet) /\ <<>> \in Seq(MessageSet) /\ Brings(<<>>, <<>>) /\ Plain(<<>>)
           /\ stream' = [stream EXCEPT ![r] = stream[r] \o <<>>]
           /\ Told(loop'[r]) = Told(loop[r]) \o <<>>
<1>1. Told(loop[r]) \in Seq(MessageSet) /\ stream[r] \in Seq(EventSet)
  BY ToldParts DEF LoopsTyped
<1>2. Told(loop[r]) \o <<>> = Told(loop[r]) /\ stream[r] \o <<>> = stream[r]
  BY <1>1, ConcatEmptySeq
<1>3. Plain(<<>>)
  BY DEF Plain
<1> QED
  BY <1>2, <1>3, BringsEmpty DEF LoopsTyped

\* A step that pushes one event, and tells nothing.
LEMMA SaysOne ==
    ASSUME LoopsTyped, NEW r \in Runs, NEW event \in EventSet, ~Appends(event), Push(r, <<event>>),
           Told(loop'[r]) = Told(loop[r])
    PROVE  /\ <<event>> \in Seq(EventSet) /\ <<>> \in Seq(MessageSet) /\ Brings(<<event>>, <<>>) /\ Plain(<<>>)
           /\ stream' = [stream EXCEPT ![r] = stream[r] \o <<event>>]
           /\ Told(loop'[r]) = Told(loop[r]) \o <<>>
<1>1. Told(loop[r]) \in Seq(MessageSet)
  BY ToldParts DEF LoopsTyped
<1>2. Told(loop[r]) \o <<>> = Told(loop[r])
  BY <1>1, ConcatEmptySeq
<1>3. Plain(<<>>)
  BY DEF Plain
<1>4. Brings(<<event>>, <<>>)
  BY BringsNone
<1> QED
  BY <1>2, <1>3, <1>4 DEF Push

LEMMA RequestAdvances ==
    ASSUME LoopsTyped, NEW r \in Runs, Orderly(loop[r]), Request(r) \/ RequestThrows(r)
    PROVE  Advances(r)
<1> DEFINE l == loop[r]  m == loop'[r]
<1>1. /\ l.pc = "request" /\ m.pc \in {"response", "crashed"}
      /\ m.context = l.context /\ m.results = l.results /\ m.pending = l.pending
      /\ m.steering = l.steering /\ m.partial = l.partial
  <2>1. CASE Request(r)
    <3>1. m = [l EXCEPT !.pc = "response", !.signalled = aborted[r]] /\ l.pc = "request" /\ l \in LoopSet
      BY <2>1 DEF Request, LoopsTyped
    <3> HIDE DEF l, m
    <3> QED
      BY <3>1 DEF LoopSet
  <2>2. CASE RequestThrows(r)
    <3>1. m = [l EXCEPT !.pc = "crashed"] /\ l.pc = "request" /\ l \in LoopSet
      BY <2>2 DEF RequestThrows, LoopsTyped
    <3> HIDE DEF l, m
    <3> QED
      BY <3>1 DEF LoopSet
  <2> QED
    BY <2>1, <2>2
<1>2. UNCHANGED <<stream, steeringQueue, followUpQueue>>
  BY DEF Request, RequestThrows
<1>3. Told(m) = Told(l) /\ Held(m) = Held(l)
  BY <1>1 DEF Told, Held
<1>4. Orderly(m)
  BY <1>1, <1>3 DEF Orderly, InTools
<1>5. Carries(l, m, <<>>)
  BY <1>2, <1>3, SaysNothing DEF Carries
<1> QED
  BY <1>2, <1>3, <1>4, <1>5, SaysNothing DEF Advances

\* No user message calls a tool or stands for a call.
LEMMA FromUsers ==
    ASSUME NEW ms \in Seq(UserMessages)
    PROVE  \A i \in 1..Len(ms) : ms[i].kind \in {"prompt", "steer", "followUp"}
<1> SUFFICES ASSUME NEW i \in 1..Len(ms) PROVE ms[i].kind \in {"prompt", "steer", "followUp"}
  OBVIOUS
<1>1. ms[i] \in UserMessages
  OBVIOUS
<1> QED
  BY <1>1 DEF UserMessages

LEMMA BeginTurnAdvances ==
    ASSUME LoopsTyped, NEW r \in Runs, Orderly(loop[r]), BeginTurn(r)
    PROVE  Advances(r)
<1> DEFINE l == loop[r]  m == loop'[r]
<1>1. /\ l \in LoopSet /\ LoopShape(l) /\ l.pc = "polled" /\ ~l.partial
      /\ l.results = <<>> /\ l.steering = <<>>
  BY DEF LoopsTyped, LoopShape, BeginTurn, Orderly, InTools
<1>2. /\ m.pc = "request" /\ m.context = l.context \o l.pending /\ m.results = <<>> /\ m.pending = <<>>
      /\ m.steering = <<>> /\ m.partial = l.partial
  <2>1. m = [l EXCEPT !.pc = "request", !.first = FALSE, !.pending = <<>>, !.context = l.context \o l.pending]
    BY DEF BeginTurn, LoopsTyped
  <2> HIDE DEF l, m
  <2> QED
    BY <1>1, <2>1 DEF LoopSet
<1>3. UNCHANGED <<steeringQueue, followUpQueue>> /\ Push(r, TurnOpening(r))
  BY DEF BeginTurn
<1>4. /\ l.context \in Seq(MessageSet) /\ Told(l) = l.context
      /\ Held(l) = l.pending /\ l.pending \in Seq(UserMessages) /\ l.pending \in Seq(MessageSet)
  BY <1>1, ToldParts
<1>5. Told(m) = Told(l) \o l.pending /\ Held(m) = <<>>
  <2>1. l.context \o l.pending \in Seq(MessageSet)
    BY <1>4, ConcatProperties
  <2>2. Told(m) = l.context \o l.pending
    BY <1>1, <1>2, <2>1, ConcatEmptySeq DEF Told
  <2>3. Held(m) = <<>>
    BY <1>2, ConcatEmptySeq DEF Held
  <2> QED
    BY <1>4, <2>2, <2>3
<1>6. \A i \in 1..Len(l.pending) : l.pending[i].kind \notin {"toolUse", "skipped"}
  BY <1>4, FromUsers
<1>7. AnsweredTo(Told(m), Len(Told(m))) /\ SkipsLead(Told(m), Held(m))
  <2>1. AnsweredTo(Told(l), Len(Told(l))) /\ SkipsLead(Told(l), l.pending)
    BY <1>1, <1>4 DEF Orderly, InTools
  <2>2. AnsweredTo(Told(l) \o l.pending, Len(Told(l) \o l.pending))
    BY <1>4, <1>6, <2>1, AnsweredMore
  <2>3. SkipsLead(Told(l) \o l.pending, Held(m))
    BY <1>4, <1>6, <2>1, SkipsMore
  <2> QED
    BY <1>5, <2>2, <2>3
<1>8. Orderly(m)
  <2>1. Len(<<>>) = 0
    OBVIOUS
  <2> QED
    BY <1>1, <1>2, <1>7, <2>1 DEF Orderly, InTools
<1>9. TurnOpening(r) \in Seq(EventSet) /\ Brings(TurnOpening(r), l.pending)
  <2> DEFINE said == Announce(l.pending)  start == IF l.first THEN <<>> ELSE <<TurnStart>>
  <2>1. said \in Seq(EventSet) /\ Brings(said, l.pending)
    BY <1>4, AnnounceShape, BringsAnnounced
  <2>2. start \in Seq(EventSet) /\ Brings(start, <<>>) /\ <<>> \in Seq(MessageSet)
    BY Subsets, BringsEmpty, BringsNone, WhatAppends
  <2>3. TurnOpening(r) = start \o said
    BY DEF TurnOpening
  <2> HIDE DEF start, said
  <2>4. start \o said \in Seq(EventSet) /\ Brings(start \o said, <<>> \o l.pending)
    BY <1>4, <2>1, <2>2, BringsConcat, ConcatProperties
  <2>5. <<>> \o l.pending = l.pending
    BY <1>4, ConcatEmptySeq
  <2> QED
    BY <2>3, <2>4, <2>5
<1>10. stream' = [stream EXCEPT ![r] = stream[r] \o TurnOpening(r)]
  BY <1>3 DEF Push
<1>11. Carries(l, m, l.pending)
  BY <1>3, <1>4, <1>5 DEF Carries
<1> QED
  BY <1>4, <1>8, <1>9, <1>10, <1>11 DEF Advances

\* Only kinds and numbers of what is polled matter.
LEMMA PolledPlain ==
    ASSUME NEW queue \in Seq(UserMessages), NEW mode
    PROVE  /\ Popped(queue, mode) \in Seq(UserMessages) /\ Popped(queue, mode) \in Seq(MessageSet)
           /\ \A i \in 1..Len(Popped(queue, mode)) : \E j \in 1..Len(queue) : Popped(queue, mode)[i] = queue[j]
<1>1. Popped(queue, mode) \in Seq(UserMessages)
  BY PollType
<1>2. Popped(queue, mode) \in Seq(MessageSet)
  BY <1>1, Subsets, SeqMonotonic
<1>3. \A i \in 1..Len(Popped(queue, mode)) : \E j \in 1..Len(queue) : Popped(queue, mode)[i] = queue[j]
  <2>1. CASE mode = "one-at-a-time" /\ queue # <<>>
    <3>1. Popped(queue, mode) = <<queue[1]>> /\ 1 \in 1..Len(queue)
      BY <2>1 DEF Popped
    <3> QED
      BY <3>1
  <2>2. CASE ~(mode = "one-at-a-time" /\ queue # <<>>)
    BY <2>2 DEF Popped
  <2> QED
    BY <2>1, <2>2
<1> QED
  BY <1>1, <1>2, <1>3

LEMMA PollFollowUpAdvances ==
    ASSUME LoopsTyped, NEW r \in Runs, Orderly(loop[r]), PollFollowUp(r)
    PROVE  Advances(r)
<1> DEFINE l == loop[r]  m == loop'[r]  polled == Popped(followUpQueue, FollowUpMode)
<1>1. /\ l \in LoopSet /\ LoopShape(l) /\ l.pc = "polled" /\ ~l.partial
      /\ l.results = <<>> /\ l.steering = <<>> /\ l.pending = <<>>
  BY DEF LoopsTyped, LoopShape, PollFollowUp, Orderly, InTools
<1>2. /\ m.pc = "followUp" /\ m.context = l.context /\ m.results = <<>> /\ m.pending = polled
      /\ m.steering = <<>> /\ m.partial = l.partial
  <2>1. m = [l EXCEPT !.pc = "followUp", !.pending = polled]
    BY DEF PollFollowUp, LoopsTyped
  <2> HIDE DEF l, m, polled
  <2> QED
    BY <1>1, <2>1 DEF LoopSet
<1>3. UNCHANGED <<stream, steeringQueue>> /\ followUpQueue' = Rest(followUpQueue, FollowUpMode)
  BY DEF PollFollowUp
<1>4. polled \in Seq(UserMessages)
  BY PollType DEF LoopsTyped
<1>5. Told(m) = Told(l) /\ Held(l) = <<>> /\ Held(m) = polled
  <2> HIDE DEF polled
  <2>1. Told(m) = Told(l)
    BY <1>1, <1>2 DEF Told
  <2>2. Held(m) = polled
    BY <1>2, <1>4, ConcatEmptySeq DEF Held
  <2> QED
    BY <1>1, <2>1, <2>2, ToldParts
<1>6. SkipsLead(Told(m), Held(m))
  BY <1>5 DEF Orderly, SkipsLead
<1>7. Orderly(m)
  <2>1. Len(<<>>) = 0
    OBVIOUS
  <2> HIDE DEF polled
  <2> QED
    BY <1>1, <1>2, <1>5, <1>6, <2>1 DEF Orderly, InTools
<1>8. Carries(l, m, <<>>)
  BY <1>3, <1>5, SaysNothing DEF Carries
<1> QED
  BY <1>3, <1>5, <1>7, <1>8, SaysNothing DEF Advances

LEMMA AfterFollowUpAdvances ==
    ASSUME LoopsTyped, NEW r \in Runs, Orderly(loop[r]), AfterFollowUp(r)
    PROVE  Advances(r)
<1> DEFINE l == loop[r]  m == loop'[r]
<1>1. /\ l \in LoopSet /\ LoopShape(l) /\ l.pc = "followUp" /\ ~l.partial
      /\ UNCHANGED <<steeringQueue, followUpQueue>>
  BY DEF LoopsTyped, LoopShape, AfterFollowUp
<1>2. \/ l.pending # <<>> /\ m = [l EXCEPT !.pc = "polled", !.hasMore = TRUE] /\ UNCHANGED stream
      \/ l.pending = <<>> /\ m = [l EXCEPT !.pc = "ended"] /\ Push(r, <<AgentEnd>>)
  BY DEF AfterFollowUp, LoopsTyped
<1>3. /\ m.pc = "polled" \/ (m.pc = "ended" /\ l.pending = <<>>)
      /\ m.context = l.context /\ m.results = l.results /\ m.pending = l.pending
      /\ m.steering = l.steering /\ m.partial = l.partial
  <2> HIDE DEF l, m
  <2> QED
    BY <1>1, <1>2 DEF LoopSet
<1>4. Told(m) = Told(l) /\ Held(m) = Held(l)
  BY <1>3 DEF Told, Held
<1>5. Orderly(m)
  BY <1>1, <1>3, <1>4 DEF Orderly, InTools
<1>6. CASE UNCHANGED stream
  <2>1. Carries(l, m, <<>>)
    BY <1>1, <1>4, <1>6, SaysNothing DEF Carries
  <2> QED
    BY <1>4, <1>5, <1>6, <2>1, SaysNothing DEF Advances
<1>7. CASE Push(r, <<AgentEnd>>)
  <2>1. AgentEnd \in EventSet /\ ~Appends(AgentEnd)
    BY Subsets, WhatAppends
  <2>2. Carries(l, m, <<>>)
    BY <1>1, <1>4, <1>7, <2>1, SaysOne DEF Carries
  <2> QED
    BY <1>4, <1>5, <1>7, <2>1, <2>2, SaysOne DEF Advances
<1> QED
  BY <1>2, <1>6, <1>7

LEMMA ResponseStartAdvances ==
    ASSUME LoopsTyped, NEW r \in Runs, Orderly(loop[r]), ResponseStart(r)
    PROVE  Advances(r)
<1> DEFINE l == loop[r]  m == loop'[r]
<1>1. /\ l \in LoopSet /\ LoopShape(l) /\ l.pc = "response" /\ ~l.partial
      /\ l.results = <<>> /\ l.pending = <<>> /\ l.steering = <<>>
      /\ UNCHANGED <<steeringQueue, followUpQueue>> /\ Push(r, <<Event("message_start", Partial)>>)
  BY DEF LoopsTyped, ResponseStart, Orderly, InTools
<1>2. /\ m.pc = "response" /\ m.context = Append(l.context, Partial) /\ m.results = <<>> /\ m.pending = <<>>
      /\ m.steering = <<>> /\ m.partial
  <2>1. m = [l EXCEPT !.partial = TRUE, !.context = Append(l.context, Partial)]
    BY DEF ResponseStart, LoopsTyped
  <2> HIDE DEF l, m
  <2> QED
    BY <1>1, <2>1 DEF LoopSet
<1>3. Partial \in MessageSet /\ l.context \in Seq(MessageSet)
  BY <1>1, Subsets DEF LoopSet
<1>4. Last(m.context) = Partial /\ Front(m.context) = l.context
  <2> HIDE DEF l, m
  <2> QED
    BY <1>2, <1>3, FrontAppend DEF Last
<1>5. Told(m) = Told(l) /\ Held(m) = Held(l)
  <2>1. Told(l) = l.context
    BY <1>1, ToldParts
  <2>2. Told(m) = l.context \o <<>>
    BY <1>2, <1>4 DEF Told
  <2>3. Held(m) = Held(l)
    BY <1>1, <1>2 DEF Held
  <2> QED
    BY <1>3, <2>1, <2>2, <2>3, ConcatEmptySeq
<1>6. Orderly(m)
  <2>1. Len(<<>>) = 0
    OBVIOUS
  <2> QED
    BY <1>1, <1>2, <1>4, <1>5, <2>1 DEF Orderly, InTools
<1>7. Event("message_start", Partial) \in EventSet /\ ~Appends(Event("message_start", Partial))
  BY <1>3, Subsets, WhatAppends
<1>8. Carries(l, m, <<>>)
  BY <1>1, <1>5, <1>7, SaysOne DEF Carries
<1> QED
  BY <1>1, <1>5, <1>6, <1>7, <1>8, SaysOne DEF Advances

\* A message of the loop's own is told next.
LEMMA TellsOwn ==
    ASSUME NEW ms \in Seq(MessageSet), NEW m \in MessageSet, m.kind # "skipped", SkipsLead(ms, <<>>),
           AnsweredTo(ms, Len(ms))
    PROVE  /\ SkipsLead(ms \o <<m>>, <<>>)
           /\ AnsweredTo(ms \o <<m>>, Len(ms \o <<m>>) - 1)
<1> DEFINE x == <<m>>
<1>1. x \in Seq(MessageSet) /\ Len(x) = 1 /\ x[1] = m
  OBVIOUS
<1> HIDE DEF x
<1>2. SkipsLead(ms, x)
  BY DEF SkipsLead
<1>3. \A i \in 1..Len(x) : x[i].kind # "skipped"
  BY <1>1
<1>4. SkipsLead(ms \o x, <<>>)
  BY <1>1, <1>2, <1>3, SkipsMore
<1>5. Len(ms \o x) = Len(ms) + 1 /\ Len(ms) \in Nat
  <2>1. Len(ms \o x) = Len(ms) + Len(x)
    BY <1>1, ConcatProperties
  <2> QED
    BY <1>1, <2>1
<1>6. AnsweredTo(ms \o x, Len(ms))
  BY <1>1, <1>5, AnsweredKeeps
<1>7. AnsweredTo(ms \o x, Len(ms \o x) - 1)
  BY <1>5, <1>6
<1> QED
  BY <1>4, <1>7 DEF x

LEMMA ResponseEndAdvances ==
    ASSUME LoopsTyped, NEW r \in Runs, Orderly(loop[r]), ResponseEnd(r)
    PROVE  Advances(r)
<1> DEFINE l == loop[r]
<1>1. /\ l \in LoopSet /\ LoopShape(l) /\ l.pc = "response"
      /\ l.results = <<>> /\ l.pending = <<>> /\ l.steering = <<>>
      /\ UNCHANGED <<steeringQueue, followUpQueue>>
  BY DEF LoopsTyped, ResponseEnd, Orderly, InTools
<1>2. PICK final \in Finals(r) :
          /\ loop' = [loop EXCEPT ![r].pc = "responded", ![r].partial = FALSE,
                                  ![r].context = FinalContext(r, final)]
          /\ Push(r, (IF loop[r].partial THEN <<>> ELSE <<Event("message_start", final)>>)
                     \o <<Event("message_end", final)>>)
  BY Zenon DEF ResponseEnd
<1> DEFINE m == loop'[r]
<1>3. final \in AssistantMessages /\ final \in MessageSet /\ final.kind \notin {"skipped", "steer", "followUp"}
  BY FinalsType, Subsets DEF AssistantMessages
<1>4. Told(l) = (IF l.partial THEN Front(l.context) ELSE l.context) /\ Told(l) \in Seq(MessageSet)
  BY <1>1, ToldParts DEF LoopSet
<1>5. /\ m.pc = "responded" /\ m.context = Append(Told(l), final) /\ m.results = <<>> /\ m.pending = <<>>
      /\ m.steering = <<>> /\ ~m.partial
  <2> DEFINE context == FinalContext(r, final)
  <2>1. m = [l EXCEPT !.pc = "responded", !.partial = FALSE, !.context = context]
    BY <1>2 DEF LoopsTyped
  <2>2. context = Append(Told(l), final)
    BY <1>4 DEF FinalContext
  <2> HIDE DEF l, m, context
  <2> QED
    BY <1>1, <2>1, <2>2 DEF LoopSet
<1> DEFINE told == <<final>>
<1>6. told \in Seq(MessageSet) /\ m.context = Told(l) \o told /\ Told(m) = Told(l) \o told
  <2>1. told \in Seq(MessageSet) /\ Append(Told(l), final) = Told(l) \o told
    <3>1. \A s \in Seq(MessageSet) : <<final>> \in Seq(MessageSet) /\ Append(s, final) = s \o <<final>>
      BY <1>3, AppendIsConcat
    <3> QED
      BY <1>4, <3>1
  <2>2. Told(l) \o told \in Seq(MessageSet)
    BY <1>4, <2>1, ConcatProperties
  <2> HIDE DEF told
  <2>3. m.context \o <<>> = m.context
    BY <1>5, <2>1, <2>2, ConcatEmptySeq
  <2> QED
    BY <1>5, <2>1, <2>3 DEF Told
<1>7. Held(m) = <<>> /\ Held(l) = <<>>
  BY <1>1, <1>5, ConcatEmptySeq DEF Held
<1>8. SkipsLead(Told(m), <<>>) /\ AnsweredTo(Told(m), Len(m.context) - 1)
  <2>1. SkipsLead(Told(l), <<>>) /\ AnsweredTo(Told(l), Len(Told(l)))
    BY <1>1, <1>7 DEF Orderly, InTools
  <2>2. SkipsLead(Told(l) \o told, <<>>) /\ AnsweredTo(Told(l) \o told, Len(Told(l) \o told) - 1)
    BY <1>3, <1>4, <2>1, TellsOwn
  <2> HIDE DEF told
  <2> QED
    BY <1>6, <2>2
<1>9. Orderly(m)
  <2>1. Len(<<>>) = 0
    OBVIOUS
  <2> HIDE DEF told
  <2> QED
    BY <1>5, <1>7, <1>8, <2>1 DEF Orderly, InTools
<1> DEFINE start == IF l.partial THEN <<>> ELSE <<Event("message_start", final)>>
           end == <<Event("message_end", final)>>
<1>10. start \o end \in Seq(EventSet) /\ Brings(start \o end, told)
  <2>1. Event("message_start", final) \in EventSet /\ Event("message_end", final) \in EventSet
    BY <1>3, Subsets
  <2>2. start \in Seq(EventSet) /\ end \in Seq(EventSet) /\ <<>> \in Seq(MessageSet)
    BY <2>1
  <2>3. Brings(start, <<>>) /\ Brings(end, told)
    BY <1>3, <2>1, BringsEmpty, BringsNone, BringsOne, WhatAppends
  <2>4. <<>> \o told = told
    BY <1>6, ConcatEmptySeq
  <2> HIDE DEF start, end, told
  <2>5. Brings(start \o end, <<>> \o told)
    BY <1>6, <2>2, <2>3, BringsConcat
  <2> QED
    BY <2>2, <2>4, <2>5, ConcatProperties
<1>11. stream' = [stream EXCEPT ![r] = stream[r] \o (start \o end)]
  BY <1>2 DEF Push
<1>12. Plain(told)
  BY <1>3 DEF Plain
<1> HIDE DEF told, start, end
<1>13. Carries(l, m, told)
  BY <1>1, <1>6, <1>7, <1>12 DEF Carries
<1> QED
  BY <1>6, <1>9, <1>10, <1>11, <1>13 DEF Advances

\* Where nothing held is needed, anything may be held.
LEMMA SkipsAny ==
    ASSUME NEW ms, SkipsLead(ms, <<>>)
    PROVE  \A held : SkipsLead(ms, held)
BY DEF SkipsLead

\* A response that calls nothing, or failed, leaves no call unanswered.
LEMMA AnsweredLast ==
    ASSUME NEW ms \in Seq(MessageSet), ms # <<>>, AnsweredTo(ms, Len(ms) - 1),
           Last(ms).kind # "toolUse" \/ Last(ms).n = 0
    PROVE  AnsweredTo(ms, Len(ms))
<1> SUFFICES ASSUME NEW i \in 1..Len(ms), ms[i].kind = "toolUse" PROVE AnsweredIn(ms, i)
  BY DEF AnsweredTo
<1>1. Len(ms) \in Nat /\ Last(ms) = ms[Len(ms)]
  BY DEF Last
<1>2. CASE i = Len(ms)
  BY <1>1, <1>2 DEF AnsweredIn
<1>3. CASE i # Len(ms)
  <2>1. i \in 1..(Len(ms) - 1)
    BY <1>1, <1>3
  <2> QED
    BY <2>1 DEF AnsweredTo
<1> QED
  BY <1>2, <1>3

\* The results of all calls of the last response answer it.
LEMMA AnsweredAll ==
    ASSUME NEW ms \in Seq(MessageSet), ms # <<>>, NEW x \in Seq(ToolResults),
           AnsweredTo(ms \o x, Len(ms) - 1), Last(ms).n = Len(x), \A i \in 1..Len(x) : x[i].n = i
    PROVE  AnsweredTo(ms \o x, Len(ms \o x))
<1> DEFINE u == ms \o x
<1>1. x \in Seq(MessageSet) /\ \A i \in 1..Len(x) : x[i].role = "toolResult" /\ x[i].kind # "toolUse"
  <2>1. \A i \in 1..Len(x) : x[i] \in ToolResults
    OBVIOUS
  <2>2. \A y \in ToolResults : y.role = "toolResult" /\ y.kind # "toolUse"
    BY DEF ToolResults
  <2>3. x \in Seq(MessageSet)
    BY Subsets, SeqMonotonic
  <2> QED
    BY <2>1, <2>2, <2>3
<1>2. /\ Len(u) = Len(ms) + Len(x) /\ Len(ms) \in Nat /\ Len(x) \in Nat
      /\ \A i \in 1..(Len(ms) + Len(x)) : u[i] = IF i <= Len(ms) THEN ms[i] ELSE x[i - Len(ms)]
  BY <1>1, ConcatProperties
<1> HIDE DEF u
<1>3. \A j \in 1..Len(x) : Len(ms) + j <= Len(u) /\ u[Len(ms) + j] = x[j]
  <2> SUFFICES ASSUME NEW j \in 1..Len(x) PROVE Len(ms) + j <= Len(u) /\ u[Len(ms) + j] = x[j]
    OBVIOUS
  <2>1. Len(ms) + j \in 1..(Len(ms) + Len(x)) /\ ~(Len(ms) + j <= Len(ms)) /\ (Len(ms) + j) - Len(ms) = j
    BY <1>2
  <2> QED
    BY <1>2, <2>1
<1> SUFFICES ASSUME NEW i \in 1..Len(u), u[i].kind = "toolUse" PROVE AnsweredIn(u, i)
  BY DEF AnsweredTo, u
<1>4. CASE i < Len(ms)
  <2>1. i \in 1..(Len(ms) - 1)
    BY <1>2, <1>4
  <2> QED
    BY <2>1 DEF AnsweredTo, u
<1>5. CASE i = Len(ms)
  <2>1. u[i] = ms[i] /\ Last(ms) = ms[i]
    BY <1>2, <1>5 DEF Last
  <2>2. \A call \in 1..Len(x) : i + call <= Len(u) /\ u[i + call] = x[call]
    BY <1>3, <1>5
  <2>3. u[i].n = Len(x)
    BY <2>1
  <2>4. \A call \in 1..u[i].n :
            i + call <= Len(u) /\ u[i + call].role = "toolResult" /\ u[i + call].n = call
    BY <1>1, <2>2, <2>3
  <2> QED
    BY <2>4 DEF AnsweredIn
<1>6. CASE i > Len(ms)
  <2>1. i - Len(ms) \in 1..Len(x) /\ u[i] = x[i - Len(ms)]
    BY <1>2, <1>6
  <2> QED
    BY <1>1, <2>1
<1> QED
  BY <1>2, <1>4, <1>5, <1>6

LEMMA ToolDoneAdvances ==
    ASSUME LoopsTyped, NEW r \in Runs, Orderly(loop[r]), ToolDone(r),
           \A i \in 1..Len(steeringQueue) : steeringQueue[i].kind = "steer"
    PROVE  Advances(r)
<1> DEFINE l == loop[r]  m == loop'[r]
           result == Message("toolResult", l.call, "ran")
           results == Append(l.results, result)
<1>1. /\ l \in LoopSet /\ LoopShape(l) /\ l.pc = "tool" /\ ~l.partial
      /\ l.pending = <<>> /\ l.steering = <<>> /\ UNCHANGED followUpQueue /\ PollSteering
  BY DEF LoopsTyped, LoopShape, ToolDone, Orderly
<1>2. l.call \in ToolCalls
  BY <1>1, CallsType
<1>3. result \in ToolResults /\ result \in MessageSet /\ result.kind = "ran" /\ result.n = l.call
  BY <1>2, Subsets DEF Message, ToolResults
<1>4. m = [l EXCEPT !.pc = "toolPolled", !.steering = Steering, !.results = results]
  BY DEF ToolDone, LoopsTyped
<1>5. stream' = [stream EXCEPT ![r] = stream[r] \o ToolEvents(l.call, result)]
  BY DEF ToolDone, Push
<1> HIDE DEF result, results
<1>6. /\ m.pc = "toolPolled" /\ m.context = l.context /\ m.results = results /\ m.pending = <<>>
      /\ m.steering = Steering /\ ~m.partial /\ m.call = l.call
  <2> HIDE DEF l, m
  <2> QED
    BY <1>1, <1>4 DEF LoopSet
<1>7. /\ l.context \in Seq(MessageSet) /\ l.results \in Seq(MessageSet)
      /\ Told(l) = l.context \o l.results /\ Told(l) \in Seq(MessageSet) /\ Held(l) = <<>>
  BY <1>1, ToldParts
<1>8. Steering \in Seq(UserMessages) /\ \A i \in 1..Len(Steering) : Steering[i].kind = "steer"
  BY PolledPlain DEF Steering, LoopsTyped
<1> DEFINE told == <<result>>
<1>9. Told(m) = Told(l) \o told /\ told \in Seq(MessageSet)
  <2>1. \A s \in Seq(MessageSet) : told \in Seq(MessageSet) /\ Append(s, result) = s \o told
    BY <1>3, AppendIsConcat
  <2>2. l.context \o Append(l.results, result) = Append(l.context \o l.results, result)
    <3>1. \A a, s \in Seq(MessageSet) : a \o Append(s, result) = Append(a \o s, result)
      BY <1>3, ConcatAppend
    <3> HIDE DEF l
    <3> QED
      BY <1>7, <3>1
  <2> HIDE DEF told
  <2> QED
    BY <1>6, <1>7, <2>1, <2>2 DEF Told, results
<1>10. Held(m) = Steering
  BY <1>6, <1>8, ConcatEmptySeq DEF Held
<1>11. SkipsLead(Told(m), Held(m))
  <2>1. SkipsLead(Told(l), <<>>)
    BY <1>7 DEF Orderly
  <2>2. SkipsLead(Told(l), told) /\ Len(told) = 1 /\ told[1] = result
    BY <2>1, SkipsAny
  <2>3. \A i \in 1..Len(told) : told[i].kind # "skipped"
    BY <1>3, <2>2
  <2> HIDE DEF told
  <2>4. SkipsLead(Told(l) \o told, <<>>)
    BY <1>7, <1>9, <2>2, <2>3, SkipsMore
  <2> QED
    BY <1>9, <2>4, SkipsAny
<1>12. AnsweredTo(Told(m), Len(m.context) - 1)
  <2>1. AnsweredTo(Told(l), Len(l.context) - 1)
    BY <1>1 DEF Orderly, InTools
  <2>2. Len(l.context) - 1 \in Int /\ Len(l.context) - 1 <= Len(Told(l))
    <3>1. Len(Told(l)) = Len(l.context) + Len(l.results)
      BY <1>7, ConcatProperties
    <3>2. Len(l.context) \in Nat /\ Len(l.results) \in Nat
      BY <1>7
    <3>3. \A a, b \in Nat : a - 1 \in Int /\ a - 1 <= a + b
      OBVIOUS
    <3> HIDE DEF l
    <3> QED
      BY <3>1, <3>2, <3>3
  <2> HIDE DEF told
  <2> QED
    BY <1>6, <1>7, <1>9, <2>1, <2>2, AnsweredKeeps
<1>13. /\ Len(results) = l.call
       /\ \A i \in 1..Len(results) : results[i].n = i /\ results[i].kind = "ran"
  <2>1. Len(l.results) = l.call - 1 /\ \A i \in 1..Len(l.results) : l.results[i].n = i /\ l.results[i].kind = "ran"
    BY <1>1 DEF Orderly
  <2>2. l.call \in Nat
    BY <1>2, LoopAssumption DEF ToolCalls
  <2>3. /\ Len(results) = Len(l.results) + 1 /\ results[Len(l.results) + 1] = result
        /\ \A i \in 1..Len(l.results) : results[i] = l.results[i]
    BY <1>3, <1>7 DEF results
  <2> HIDE DEF l
  <2>4. Len(results) = l.call
    BY <2>1, <2>2, <2>3
  <2>5. ASSUME NEW i \in 1..Len(results)
        PROVE  results[i].n = i /\ results[i].kind = "ran"
    <3>1. CASE i \in 1..Len(l.results)
      BY <2>1, <2>3, <3>1
    <3>2. CASE i \notin 1..Len(l.results)
      <4>1. i = Len(l.results) + 1 /\ i = l.call
        BY <2>1, <2>2, <2>3, <3>2
      <4> QED
        BY <1>3, <2>3, <4>1
    <3> QED
      BY <3>1, <3>2
  <2> QED
    BY <2>4, <2>5
<1>14. Orderly(m)
  <2> HIDE DEF told, l, m
  <2> QED
    BY <1>6, <1>8, <1>11, <1>12, <1>13 DEF Orderly, InTools
<1>15. Brings(ToolEvents(l.call, result), told) /\ ToolEvents(l.call, result) \in Seq(EventSet)
  BY <1>2, <1>3, BringsResult, ToolEventsType
<1>16. Plain(told)
  BY <1>3 DEF Plain
<1> HIDE DEF told
<1>17. Carries(l, m, told)
  BY <1>1, <1>7, <1>9, <1>10, <1>16 DEF Carries
<1> QED
  BY <1>5, <1>9, <1>14, <1>15, <1>17 DEF Advances

LEMMA EndToolTurnAdvances ==
    ASSUME LoopsTyped, NEW r \in Runs, Orderly(loop[r]), EndToolTurn(r)
    PROVE  Advances(r)
<1> DEFINE l == loop[r]  m == loop'[r]
           context == l.context \o l.results
           next == NextPending(r)
<1>1. /\ l \in LoopSet /\ LoopShape(l) /\ l.pc = "toolsDone" /\ ~l.partial /\ l.context # <<>>
      /\ l.pending = <<>> /\ UNCHANGED followUpQueue
      /\ IF l.steering # <<>> THEN UNCHANGED steeringQueue ELSE PollSteering
  BY DEF LoopsTyped, LoopShape, EndToolTurn, Orderly
<1>2. m = [l EXCEPT !.pc = "polled", !.hasMore = TRUE, !.call = 0, !.context = context,
                    !.results = <<>>, !.pending = next, !.steering = <<>>]
  BY DEF EndToolTurn, LoopsTyped
<1>3. Push(r, <<TurnEnd>>)
  BY DEF EndToolTurn
<1>4. /\ l.context \in Seq(MessageSet) /\ l.results \in Seq(MessageSet) /\ l.results \in Seq(ToolResults)
      /\ Told(l) = context /\ Told(l) \in Seq(MessageSet) /\ Held(l) = l.steering
  <2>1. l.results \in Seq(ToolResults)
    BY <1>1 DEF LoopSet
  <2> QED
    BY <1>1, <2>1, ToldParts
<1>5. next \in Seq(UserMessages) /\ (l.steering # <<>> => next = l.steering)
      /\ (l.steering = <<>> => next = Steering)
  <2>1. Steering \in Seq(UserMessages) /\ l.steering \in Seq(UserMessages)
    BY <1>1, PollType DEF LoopsTyped, Steering, LoopSet
  <2> QED
    BY <2>1 DEF NextPending
<1> HIDE DEF context, next
<1>6. /\ m.pc = "polled" /\ m.context = context /\ m.results = <<>> /\ m.pending = next
      /\ m.steering = <<>> /\ ~m.partial
  <2> HIDE DEF l, m
  <2> QED
    BY <1>1, <1>2 DEF LoopSet
<1>7. Told(m) = Told(l) /\ Held(m) = next
  <2>1. Told(m) = context \o <<>> /\ context \o <<>> = context
    BY <1>4, <1>6, ConcatEmptySeq DEF Told
  <2>2. Held(m) = next
    BY <1>5, <1>6, ConcatEmptySeq DEF Held
  <2> QED
    BY <1>4, <2>1, <2>2
<1>8. AnsweredTo(Told(m), Len(Told(m)))
  <2>1. AnsweredTo(l.context \o l.results, Len(l.context) - 1)
    BY <1>1, <1>4 DEF Orderly, InTools, context
  <2>2. Last(l.context).n = Len(l.results) /\ \A i \in 1..Len(l.results) : l.results[i].n = i
    BY <1>1 DEF Orderly
  <2>3. AnsweredTo(l.context \o l.results, Len(l.context \o l.results))
    BY <1>1, <1>4, <2>1, <2>2, AnsweredAll
  <2> QED
    BY <1>4, <1>7, <2>3 DEF context
<1>9. SkipsLead(Told(m), Held(m))
  <2>1. SkipsLead(Told(l), l.steering)
    BY <1>4 DEF Orderly
  <2>2. l.steering = <<>> => SkipsLead(Told(l), next)
    BY <2>1, SkipsAny
  <2> QED
    BY <1>5, <1>7, <2>1, <2>2
<1>10. Orderly(m)
  <2>1. Len(<<>>) = 0
    OBVIOUS
  <2> HIDE DEF l, m
  <2> QED
    BY <1>6, <1>8, <1>9, <2>1 DEF Orderly, InTools
<1>11. TurnEnd \in EventSet /\ ~Appends(TurnEnd)
  BY Subsets, WhatAppends
<1>12. Carries(l, m, <<>>)
  <2>1. /\ Told(m) = Told(l) \o <<>> /\ Plain(<<>>)
    BY <1>3, <1>7, <1>11, SaysOne
  <2>2. \/ Held(m) = Held(l) /\ UNCHANGED <<steeringQueue, followUpQueue>>
        \/ Held(l) = <<>> /\ Held(m) = Steering /\ PollSteering /\ UNCHANGED followUpQueue
    BY <1>1, <1>4, <1>5, <1>7
  <2> HIDE DEF l, m
  <2> QED
    BY <2>1, <2>2 DEF Carries
<1> QED
  BY <1>3, <1>7, <1>10, <1>11, <1>12, SaysOne DEF Advances

LEMMA AfterResponseAdvances ==
    ASSUME LoopsTyped, NEW r \in Runs, Orderly(loop[r]), AfterResponse(r)
    PROVE  Advances(r)
<1> DEFINE l == loop[r]  m == loop'[r]
<1>1. /\ l \in LoopSet /\ LoopShape(l) /\ l.pc = "responded" /\ ~l.partial /\ l.context # <<>>
      /\ l.results = <<>> /\ l.pending = <<>> /\ l.steering = <<>> /\ UNCHANGED followUpQueue
  BY DEF LoopsTyped, LoopShape, AfterResponse, Orderly
<1>2. /\ l.context \in Seq(MessageSet) /\ Told(l) = l.context /\ Held(l) = <<>>
  BY <1>1, ToldParts
<1>3. AnsweredTo(Told(l), Len(l.context) - 1) /\ SkipsLead(Told(l), <<>>)
  BY <1>1, <1>2 DEF Orderly, InTools
<1>4. Steering \in Seq(UserMessages)
  BY PollType DEF LoopsTyped, Steering
<1>5. <<>> \in Seq(UserMessages) /\ Len(<<>>) = 0
  OBVIOUS
<1>6. CASE /\ StopsRun(Last(l.context))
           /\ loop' = [loop EXCEPT ![r].pc = "ended"] /\ Push(r, <<TurnEnd, AgentEnd>>) /\ UNCHANGED steeringQueue
  <2>1. m = [l EXCEPT !.pc = "ended"]
    BY <1>6 DEF LoopsTyped
  <2>2. /\ m.pc = "ended" /\ m.context = l.context /\ m.results = <<>> /\ m.pending = <<>>
        /\ m.steering = <<>> /\ ~m.partial
    <3> HIDE DEF l, m
    <3> QED
      BY <1>1, <2>1 DEF LoopSet
  <2>3. Told(m) = Told(l) /\ Held(m) = Held(l)
    BY <1>1, <2>2 DEF Told, Held
  <2>4. AnsweredTo(Told(m), Len(Told(m)))
    <3>1. Last(l.context).kind # "toolUse"
      BY <1>6 DEF StopsRun
    <3> HIDE DEF l, m
    <3> QED
      BY <1>1, <1>2, <1>3, <2>3, <3>1, AnsweredLast
  <2>5. Orderly(m)
    <3> HIDE DEF l, m
    <3> QED
      BY <1>2, <1>3, <1>5, <2>2, <2>3, <2>4 DEF Orderly, InTools
  <2> DEFINE events == <<TurnEnd, AgentEnd>>
  <2>6. events \in Seq(EventSet) /\ Brings(events, <<>>)
    <3>1. /\ <<TurnEnd>> \in Seq(EventSet) /\ <<AgentEnd>> \in Seq(EventSet)
          /\ Brings(<<TurnEnd>>, <<>>) /\ Brings(<<AgentEnd>>, <<>>)
      BY Subsets, BringsNone, WhatAppends
    <3>2. <<>> \in Seq(MessageSet) /\ <<>> \o <<>> = <<>>
      BY ConcatEmptySeq
    <3>3. events \in Seq(EventSet) /\ events = <<TurnEnd>> \o <<AgentEnd>>
      BY Subsets
    <3> HIDE DEF events
    <3>4. Brings(<<TurnEnd>> \o <<AgentEnd>>, <<>> \o <<>>)
      BY <3>1, <3>2, BringsConcat
    <3> QED
      BY <3>2, <3>3, <3>4
  <2>7. stream' = [stream EXCEPT ![r] = stream[r] \o events]
    BY <1>6 DEF Push
  <2> HIDE DEF events
  <2>8. Told(m) = Told(l) \o <<>> /\ <<>> \in Seq(MessageSet) /\ Plain(<<>>)
    <3>1. l.context \o <<>> = l.context
      BY <1>2, ConcatEmptySeq
    <3> QED
      BY <1>2, <2>3, <3>1 DEF Plain
  <2>9. Carries(l, m, <<>>)
    <3> HIDE DEF l, m
    <3> QED
      BY <1>1, <1>6, <2>3, <2>8 DEF Carries
  <2> QED
    BY <2>5, <2>6, <2>7, <2>8, <2>9 DEF Advances
<1>7. CASE /\ loop' = [loop EXCEPT ![r].pc = "tool", ![r].call = 1] /\ Push(r, <<ToolStart(1)>>)
           /\ UNCHANGED steeringQueue
  <2>1. m = [l EXCEPT !.pc = "tool", !.call = 1]
    BY <1>7 DEF LoopsTyped
  <2>2. /\ m.pc = "tool" /\ m.context = l.context /\ m.results = <<>> /\ m.pending = <<>>
        /\ m.steering = <<>> /\ ~m.partial /\ m.call = 1
    <3> HIDE DEF l, m
    <3> QED
      BY <1>1, <2>1 DEF LoopSet
  <2>3. Told(m) = Told(l) /\ Held(m) = Held(l)
    BY <1>1, <2>2 DEF Told, Held
  <2>4. Orderly(m)
    <3> HIDE DEF l, m
    <3> QED
      BY <1>2, <1>3, <1>5, <2>2, <2>3 DEF Orderly, InTools
  <2>5. ToolStart(1) \in EventSet /\ ~Appends(ToolStart(1))
    BY LoopAssumption, Subsets, WhatAppends DEF ToolCalls
  <2>6. Carries(l, m, <<>>)
    BY <1>1, <1>7, <2>3, <2>5, SaysOne DEF Carries
  <2> QED
    BY <1>7, <2>3, <2>4, <2>5, <2>6, SaysOne DEF Advances
<1>8. CASE /\ Last(l.context).n = 0
           /\ loop' = [loop EXCEPT ![r].pc = "polled", ![r].hasMore = FALSE, ![r].pending = Steering]
           /\ Push(r, <<TurnEnd>>) /\ PollSteering
  <2>1. m = [l EXCEPT !.pc = "polled", !.hasMore = FALSE, !.pending = Steering]
    BY <1>8 DEF LoopsTyped
  <2>2. /\ m.pc = "polled" /\ m.context = l.context /\ m.results = <<>> /\ m.pending = Steering
        /\ m.steering = <<>> /\ ~m.partial
    <3> HIDE DEF l, m
    <3> QED
      BY <1>1, <2>1 DEF LoopSet
  <2>3. Told(m) = Told(l) /\ Held(m) = Steering
    <3>1. Told(m) = Told(l)
      BY <1>1, <2>2 DEF Told
    <3>2. Held(m) = Steering
      BY <1>4, <2>2, ConcatEmptySeq DEF Held
    <3> QED
      BY <3>1, <3>2
  <2>4. AnsweredTo(Told(m), Len(Told(m))) /\ SkipsLead(Told(m), Held(m))
    <3> HIDE DEF l, m
    <3> QED
      BY <1>1, <1>2, <1>3, <1>8, <2>3, AnsweredLast, SkipsAny
  <2>5. Orderly(m)
    <3> HIDE DEF l, m
    <3> QED
      BY <1>5, <2>2, <2>3, <2>4 DEF Orderly, InTools
  <2>6. TurnEnd \in EventSet /\ ~Appends(TurnEnd)
    BY Subsets, WhatAppends
  <2>7. Carries(l, m, <<>>)
    BY <1>1, <1>2, <1>8, <2>3, <2>6, SaysOne DEF Carries
  <2> QED
    BY <1>8, <2>3, <2>5, <2>6, <2>7, SaysOne DEF Advances
<1> QED
  BY <1>6, <1>7, <1>8 DEF AfterResponse

\* The results of skipped calls.
LEMMA GivenShape ==
    ASSUME NEW calls \in Seq(ToolCalls), NEW given, given = [i \in 1..Len(calls) |-> Skipped(calls[i])]
    PROVE  /\ given \in Seq(MessageSet) /\ Len(given) = Len(calls)
           /\ \A i \in 1..Len(given) : given[i].kind = "skipped" /\ given[i].n = calls[i]
<1>1. Len(calls) \in Nat /\ \A i \in 1..Len(calls) : calls[i] \in ToolCalls
  OBVIOUS
<1>2. \A call \in ToolCalls : Skipped(call) \in MessageSet /\ Skipped(call).kind = "skipped" /\ Skipped(call).n = call
  <2>1. \A call \in ToolCalls : Skipped(call) \in MessageSet
    BY SkippedType
  <2>2. \A call \in ToolCalls : Skipped(call).kind = "skipped" /\ Skipped(call).n = call
    BY DEF Skipped, Message
  <2> QED
    BY <2>1, <2>2
<1>3. \A i \in 1..Len(calls) : Skipped(calls[i]) \in MessageSet
  BY <1>1, <1>2
<1>4. given \in Seq(MessageSet) /\ Len(given) = Len(calls)
  BY <1>1, <1>3
<1>5. \A i \in 1..Len(given) : given[i] = Skipped(calls[i])
  BY <1>4
<1> QED
  BY <1>1, <1>2, <1>4, <1>5

LEMMA AfterToolAdvances ==
    ASSUME LoopsTyped, NEW r \in Runs, Orderly(loop[r]), AfterTool(r)
    PROVE  Advances(r)
<1> DEFINE l == loop[r]  m == loop'[r]
           skipped == SkippedCalls(r)
           given == [i \in DOMAIN SkippedCalls(r) |-> Skipped(SkippedCalls(r)[i])]
           results == l.results \o given
<1>1. /\ l \in LoopSet /\ LoopShape(l) /\ l.pc = "toolPolled" /\ ~l.partial
      /\ l.pending = <<>> /\ UNCHANGED <<steeringQueue, followUpQueue>>
  BY DEF LoopsTyped, LoopShape, AfterTool, Orderly
<1>2. /\ MaxCalls \in Nat /\ Calls(r) \in 0..MaxCalls /\ l.call \in 1..Calls(r) /\ l.context # <<>>
      /\ Last(l.context) \in AssistantMessages /\ Calls(r) = Last(l.context).n
  BY <1>1, CallsType, LoopAssumption DEF Calls, LoopShape
<1>3. /\ l.context \in Seq(MessageSet) /\ l.results \in Seq(MessageSet) /\ l.results \in Seq(ToolResults)
      /\ Told(l) = l.context \o l.results /\ Told(l) \in Seq(MessageSet) /\ Held(l) = l.steering
  <2>1. l.results \in Seq(ToolResults)
    BY <1>1 DEF LoopSet
  <2> QED
    BY <1>1, <2>1, ToldParts
<1>4. /\ AnsweredTo(Told(l), Len(l.context) - 1) /\ SkipsLead(Told(l), Held(l))
      /\ Len(l.results) = l.call
      /\ \A i \in 1..Len(l.results) : l.results[i].n = i /\ l.results[i].kind = "ran"
      /\ \A i \in 1..Len(l.steering) : l.steering[i].kind = "steer"
  BY <1>1 DEF Orderly, InTools
<1>5. CASE /\ l.steering # <<>> /\ Push(r, AllSkipped(SkippedCalls(r)))
           /\ loop' = [loop EXCEPT ![r] = [l EXCEPT !.pc = "toolsDone", !.results = results]]
  <2>1. /\ skipped \in Seq(ToolCalls) /\ Len(skipped) = Calls(r) - l.call
        /\ \A i \in 1..Len(skipped) : skipped[i] = l.call + i
    <3> DEFINE n == Calls(r) - l.call
    <3>1. n \in Nat
      BY <1>2
    <3>2. \A i \in 1..n : l.call + i \in ToolCalls
      BY <1>2 DEF ToolCalls
    <3>3. skipped = [i \in 1..n |-> l.call + i]
      BY DEF SkippedCalls
    <3>4. skipped \in Seq(ToolCalls) /\ Len(skipped) = n /\ \A i \in 1..n : skipped[i] = l.call + i
      <4> HIDE DEF n, skipped
      <4> QED
        BY <3>1, <3>2, <3>3
    <3> QED
      BY <3>4
  <2>2. /\ given \in Seq(MessageSet) /\ Len(given) = Len(skipped)
        /\ \A i \in 1..Len(given) : given[i].kind = "skipped" /\ given[i].n = skipped[i]
        /\ Brings(AllSkipped(skipped), given) /\ AllSkipped(skipped) \in Seq(EventSet)
    <3>1. given = [i \in 1..Len(skipped) |-> Skipped(skipped[i])]
      BY <2>1
    <3> HIDE DEF given, skipped
    <3>2. /\ given \in Seq(MessageSet) /\ Len(given) = Len(skipped)
          /\ \A i \in 1..Len(given) : given[i].kind = "skipped" /\ given[i].n = skipped[i]
      BY <2>1, <3>1, GivenShape
    <3> QED
      BY <2>1, <3>1, <3>2, BringsSkipped, AllSkippedShape
  <2> HIDE DEF given, skipped
  <2>3. m = [l EXCEPT !.pc = "toolsDone", !.results = results]
    BY <1>5 DEF LoopsTyped
  <2>4. /\ m.pc = "toolsDone" /\ m.context = l.context /\ m.results = results /\ m.pending = <<>>
        /\ m.steering = l.steering /\ ~m.partial
    <3> HIDE DEF l, m, results
    <3> QED
      BY <1>1, <2>3 DEF LoopSet
  <2>5. Told(m) = Told(l) \o given /\ Held(m) = Held(l)
    <3>1. l.context \o (l.results \o given) = (l.context \o l.results) \o given
      <4> HIDE DEF l
      <4> QED
        <5>1. \A a, b, c \in Seq(MessageSet) : a \o (b \o c) = (a \o b) \o c
          BY Regroup, Zenon
        <5> QED
          BY <1>3, <2>2, <5>1
    <3>2. Held(m) = Held(l)
      BY <1>1, <2>4 DEF Held
    <3> QED
      BY <1>3, <2>4, <3>1, <3>2 DEF Told
  <2>6. /\ Len(l.context) \in Nat /\ Len(l.results) \in Nat /\ Len(Told(l)) = Len(l.context) + Len(l.results)
        /\ \A i \in 1..(Len(l.context) + Len(l.results)) :
               Told(l)[i] = IF i <= Len(l.context) THEN l.context[i] ELSE l.results[i - Len(l.context)]
    <3> HIDE DEF l
    <3>1. \A a, b \in Seq(MessageSet) :
              /\ Len(a) \in Nat /\ Len(b) \in Nat /\ Len(a \o b) = Len(a) + Len(b)
              /\ \A i \in 1..(Len(a) + Len(b)) : (a \o b)[i] = IF i <= Len(a) THEN a[i] ELSE b[i - Len(a)]
      BY ConcatProperties
    <3> DEFINE told == Told(l)
    <3>2. told = l.context \o l.results
      BY <1>3
    <3>3. /\ Len(l.context) \in Nat /\ Len(l.results) \in Nat
          /\ Len(l.context \o l.results) = Len(l.context) + Len(l.results)
          /\ \A i \in 1..(Len(l.context) + Len(l.results)) :
                 (l.context \o l.results)[i] =
                     IF i <= Len(l.context) THEN l.context[i] ELSE l.results[i - Len(l.context)]
      BY <1>3, <3>1, Zenon
    <3> QED
      BY <3>2, <3>3, Zenon
  <2>7. AnsweredTo(Told(m), Len(m.context) - 1)
    <3>1. Len(l.context) - 1 \in Int /\ Len(l.context) - 1 <= Len(Told(l))
      <4>1. \A a, b \in Nat : a - 1 \in Int /\ a - 1 <= a + b
        OBVIOUS
      <4> HIDE DEF l
      <4> QED
        BY <2>6, <4>1
    <3> DEFINE told == Told(l)  n == Len(l.context) - 1
    <3>2. told \in Seq(MessageSet) /\ given \in Seq(MessageSet) /\ AnsweredTo(told, n)
      BY <1>3, <1>4, <2>2
    <3>3. n \in Int /\ n <= Len(told)
      BY <3>1
    <3> HIDE DEF told, n
    <3>4. AnsweredTo(told \o given, n)
      BY <3>2, <3>3, AnsweredKeeps
    <3> HIDE DEF l, m
    <3>5. Told(m) = told \o given /\ Len(m.context) - 1 = n
      BY <2>4, <2>5 DEF told, n
    <3> QED
      BY <3>4, <3>5
  <2>8. SkipsLead(Told(m), Held(m))
    <3>1. Told(l) # <<>> /\ Told(l)[Len(Told(l))].kind # "skipped"
      <4> HIDE DEF l
      <4>1. l.call \in Nat /\ l.call >= 1
        BY <1>2
      <4>2. Len(Told(l)) \in 1..(Len(l.context) + Len(l.results)) /\ ~(Len(Told(l)) <= Len(l.context))
            /\ Len(Told(l)) - Len(l.context) = Len(l.results)
        BY <1>4, <2>6, <4>1
      <4>3. Told(l)[Len(Told(l))] = l.results[Len(l.results)]
        BY <2>6, <4>2
      <4>4. Len(l.results) \in 1..Len(l.results)
        BY <1>4, <4>1
      <4>5. Told(l) # <<>>
        <5>1. Len(<<>>) = 0
          OBVIOUS
        <5>2. Len(Told(l)) # 0
          BY <4>2
        <5> QED
          BY <5>1, <5>2
      <4> QED
        BY <1>4, <4>3, <4>4, <4>5
    <3>2. Held(l) # <<>> /\ Held(l)[1].kind = "steer"
      <4>1. l.steering \in Seq(UserMessages)
        BY <1>1 DEF LoopSet
      <4> HIDE DEF l
      <4>2. 1 \in 1..Len(l.steering)
        BY <1>5, <4>1
      <4> QED
        BY <1>3, <1>4, <1>5, <4>2
    <3>3. \A i \in 1..Len(given) : given[i].kind = "skipped"
      BY <2>2
    <3> DEFINE told == Told(l)  held == Held(l)
    <3>4. told \in Seq(MessageSet) /\ given \in Seq(MessageSet) /\ SkipsLead(told, held)
      BY <1>3, <1>4, <2>2
    <3>5. /\ told # <<>> /\ told[Len(told)].kind # "skipped" /\ held # <<>> /\ held[1].kind = "steer"
      BY <3>1, <3>2
    <3> HIDE DEF told, held
    <3>6. SkipsLead(told \o given, held)
      BY <3>3, <3>4, <3>5, SkipsSkipped
    <3> HIDE DEF l, m
    <3>7. Told(m) = told \o given /\ Held(m) = held
      BY <2>5 DEF told, held
    <3> QED
      BY <3>6, <3>7
  <2>9. Len(results) = Last(l.context).n /\ \A i \in 1..Len(results) : results[i].n = i
    <3> HIDE DEF l
    <3>1. /\ Len(results) = Len(l.results) + Len(given) /\ Len(given) \in Nat
          /\ \A i \in 1..(Len(l.results) + Len(given)) :
                 results[i] = IF i <= Len(l.results) THEN l.results[i] ELSE given[i - Len(l.results)]
      <4>1. \A a, b \in Seq(MessageSet) :
                /\ Len(b) \in Nat /\ Len(a \o b) = Len(a) + Len(b)
                /\ \A i \in 1..(Len(a) + Len(b)) : (a \o b)[i] = IF i <= Len(a) THEN a[i] ELSE b[i - Len(a)]
        BY ConcatProperties
      <4> QED
        BY <1>3, <2>2, <4>1
    <3> HIDE DEF results
    <3>2. l.call \in Nat /\ Calls(r) \in Nat /\ Len(given) = Calls(r) - l.call /\ Len(l.results) = l.call
      BY <1>2, <1>4, <2>1, <2>2
    <3>3. Len(results) = Calls(r)
      BY <3>1, <3>2
    <3>4. ASSUME NEW i \in 1..Len(results)
          PROVE  results[i].n = i
      <4>1. CASE i <= Len(l.results)
        <5>1. i \in 1..Len(l.results) /\ i \in 1..(Len(l.results) + Len(given))
          BY <3>1, <3>2, <4>1
        <5> QED
          BY <1>4, <3>1, <4>1, <5>1
      <4>2. CASE ~(i <= Len(l.results))
        <5>1. i - l.call \in 1..Len(given) /\ i \in 1..(Len(l.results) + Len(given)) /\ l.call + (i - l.call) = i
          <6>1. \A a, b \in Nat : \A k \in 1..(a + b) :
                    ~(k <= a) => k - a \in 1..b /\ a + (k - a) = k
            OBVIOUS
          <6>2. i \in 1..(Len(l.results) + Len(given))
            BY <3>1
          <6>3. Len(l.results) \in Nat /\ Len(given) \in Nat
            BY <2>6, <3>1
          <6>4. i - Len(l.results) \in 1..Len(given) /\ Len(l.results) + (i - Len(l.results)) = i
            BY <4>2, <6>1, <6>2, <6>3, Zenon
          <6> QED
            BY <3>2, <6>2, <6>4
        <5>2. results[i] = given[i - l.call]
          BY <3>1, <3>2, <4>2, <5>1
        <5>3. given[i - l.call].n = skipped[i - l.call] /\ skipped[i - l.call] = l.call + (i - l.call)
          BY <2>1, <2>2, <5>1
        <5> QED
          BY <5>1, <5>2, <5>3
      <4> QED
        BY <4>1, <4>2
    <3> QED
      BY <1>2, <3>3, <3>4
  <2>10. Orderly(m)
    <3> HIDE DEF l, m, results
    <3> QED
      BY <1>4, <2>4, <2>7, <2>8, <2>9 DEF Orderly, InTools
  <2>11. Plain(given)
    BY <2>2 DEF Plain
  <2>12. Carries(l, m, given)
    <3> HIDE DEF l, m
    <3> QED
      BY <1>1, <2>5, <2>11 DEF Carries
  <2>13. stream' = [stream EXCEPT ![r] = stream[r] \o AllSkipped(skipped)]
    BY <1>5 DEF Push, skipped
  <2> QED
    BY <2>2, <2>10, <2>12, <2>13 DEF Advances
<1>6. CASE /\ l.steering = <<>> /\ l.call < Calls(r)
           /\ loop' = [loop EXCEPT ![r] = [l EXCEPT !.pc = "tool", !.call = l.call + 1]]
           /\ Push(r, <<ToolStart(l.call + 1)>>)
  <2> DEFINE call == l.call + 1
  <2>1. m = [l EXCEPT !.pc = "tool", !.call = call]
    BY <1>6 DEF LoopsTyped
  <2>2. /\ m.pc = "tool" /\ m.context = l.context /\ m.results = l.results /\ m.pending = <<>>
        /\ m.steering = <<>> /\ ~m.partial /\ m.call = call
    <3> HIDE DEF l, m, call
    <3> QED
      BY <1>1, <1>6, <2>1 DEF LoopSet
  <2>3. Told(m) = Told(l) /\ Held(m) = Held(l)
    BY <1>1, <1>6, <2>2 DEF Told, Held
  <2>4. Orderly(m)
    <3>1. Len(m.results) = m.call - 1
      <4> HIDE DEF l, m
      <4> QED
        BY <1>2, <1>4, <2>2
    <3>2. Len(<<>>) = 0
      OBVIOUS
    <3> HIDE DEF l, m, call
    <3> QED
      BY <1>4, <2>2, <2>3, <3>1, <3>2 DEF Orderly, InTools
  <2>5. Push(r, <<ToolStart(call)>>)
    BY <1>6
  <2>6. Carries(l, m, <<>>) /\ \E events \in Seq(EventSet) :
            stream' = [stream EXCEPT ![r] = stream[r] \o events] /\ Brings(events, <<>>)
    <3>1. UNCHANGED stream \/ \E event \in EventSet : ~Appends(event) /\ Push(r, <<event>>)
      <4>1. call \in ToolCalls
        BY <1>2, <1>6 DEF ToolCalls
      <4> QED
        BY <2>5, <4>1, Subsets, WhatAppends
    <3> QED
      BY <1>1, <2>3, <3>1, SaysOne, SaysNothing DEF Carries
  <2>7. <<>> \in Seq(MessageSet)
    OBVIOUS
  <2> QED
    BY <2>4, <2>6, <2>7 DEF Advances
<1>7. CASE /\ l.steering = <<>> /\ l.call = Calls(r)
           /\ loop' = [loop EXCEPT ![r] = [l EXCEPT !.pc = "toolsDone"]] /\ UNCHANGED stream
  <2>1. m = [l EXCEPT !.pc = "toolsDone"]
    BY <1>7 DEF LoopsTyped
  <2>2. /\ m.pc = "toolsDone" /\ m.context = l.context /\ m.results = l.results /\ m.pending = <<>>
        /\ m.steering = <<>> /\ ~m.partial
    <3> HIDE DEF l, m
    <3> QED
      BY <1>1, <1>7, <2>1 DEF LoopSet
  <2>3. Told(m) = Told(l) /\ Held(m) = Held(l)
    BY <1>1, <1>7, <2>2 DEF Told, Held
  <2>4. Orderly(m)
    <3>1. Len(<<>>) = 0 /\ Len(m.results) = Last(m.context).n
      BY <1>2, <1>4, <1>7, <2>2
    <3> HIDE DEF l, m
    <3> QED
      BY <1>4, <2>2, <2>3, <3>1 DEF Orderly, InTools
  <2>5. Carries(l, m, <<>>)
    BY <1>1, <1>7, <2>3, SaysNothing DEF Carries
  <2> QED
    BY <1>7, <2>3, <2>4, <2>5, SaysNothing DEF Advances
<1> QED
  BY <1>5, <1>6, <1>7 DEF AfterTool

LEMMA LoopAdvances ==
    ASSUME LoopsTyped, NEW r \in Runs, Orderly(loop[r]), LoopStep(r) \/ LoopIO(r),
           \A i \in 1..Len(steeringQueue) : steeringQueue[i].kind = "steer"
    PROVE  Advances(r)
BY BeginTurnAdvances, PollFollowUpAdvances, AfterFollowUpAdvances, AfterResponseAdvances, AfterToolAdvances,
   EndToolTurnAdvances, RequestAdvances, ResponseStartAdvances, ResponseEndAdvances, ToolDoneAdvances
DEF LoopStep, LoopIO

-------------------------------------------------------------------------------
(* The messages of one kind in a line of messages, and their order.           *)

\* The lines hold the same messages of a kind, in an order that is as good.
Alike(s, t, kind) ==
    /\ OfKind(s, kind) = OfKind(t, kind)
    /\ Ascending(s, kind) <=> Ascending(t, kind)

Below(S, T) == \A a \in S, b \in T : a.n < b.n

LEMMA KindOf ==
    ASSUME NEW s \in Seq(MessageSet), NEW kind
    PROVE  OfKind(s, kind) = {m \in {s[i] : i \in 1..Len(s)} : m.kind = kind}
BY ToSetOfSeq DEF OfKind

LEMMA KindConcat ==
    ASSUME NEW s \in Seq(MessageSet), NEW t \in Seq(MessageSet), NEW kind
    PROVE  OfKind(s \o t, kind) = OfKind(s, kind) \cup OfKind(t, kind)
<1> DEFINE u == s \o t
<1>1. /\ Len(u) = Len(s) + Len(t) /\ Len(s) \in Nat /\ Len(t) \in Nat /\ u \in Seq(MessageSet)
      /\ \A i \in 1..(Len(s) + Len(t)) : u[i] = IF i <= Len(s) THEN s[i] ELSE t[i - Len(s)]
  BY ConcatProperties
<1> HIDE DEF u
<1>2. \A i \in 1..Len(s) : i \in 1..Len(u) /\ u[i] = s[i]
  BY <1>1
<1>3. \A i \in 1..Len(t) : Len(s) + i \in 1..Len(u) /\ u[Len(s) + i] = t[i]
  <2> SUFFICES ASSUME NEW i \in 1..Len(t) PROVE Len(s) + i \in 1..Len(u) /\ u[Len(s) + i] = t[i]
    OBVIOUS
  <2>1. Len(s) + i \in 1..(Len(s) + Len(t)) /\ ~(Len(s) + i <= Len(s)) /\ (Len(s) + i) - Len(s) = i
    BY <1>1
  <2> QED
    BY <1>1, <2>1
<1>4. \A i \in 1..Len(u) : (i \in 1..Len(s) /\ u[i] = s[i]) \/ (\E j \in 1..Len(t) : u[i] = t[j])
  <2> SUFFICES ASSUME NEW i \in 1..Len(u), ~(i <= Len(s)) PROVE \E j \in 1..Len(t) : u[i] = t[j]
    BY <1>1, <1>2
  <2>1. i - Len(s) \in 1..Len(t) /\ u[i] = t[i - Len(s)]
    BY <1>1
  <2> QED
    BY <2>1
<1>5. {u[i] : i \in 1..Len(u)} = {s[i] : i \in 1..Len(s)} \cup {t[i] : i \in 1..Len(t)}
  <2>1. {u[i] : i \in 1..Len(u)} \subseteq {s[i] : i \in 1..Len(s)} \cup {t[i] : i \in 1..Len(t)}
    BY <1>4
  <2>2. {s[i] : i \in 1..Len(s)} \subseteq {u[i] : i \in 1..Len(u)}
    BY <1>2
  <2>3. {t[i] : i \in 1..Len(t)} \subseteq {u[i] : i \in 1..Len(u)}
    <3> SUFFICES ASSUME NEW i \in 1..Len(t) PROVE t[i] \in {u[j] : j \in 1..Len(u)}
      OBVIOUS
    <3> QED
      BY <1>3
  <2> QED
    BY <2>1, <2>2, <2>3
<1>6. OfKind(u, kind) = OfKind(s, kind) \cup OfKind(t, kind)
  <2>1. OfKind(u, kind) = {m \in {u[i] : i \in 1..Len(u)} : m.kind = kind}
    BY <1>1, KindOf
  <2>2. OfKind(s, kind) = {m \in {s[i] : i \in 1..Len(s)} : m.kind = kind}
    BY KindOf
  <2>3. OfKind(t, kind) = {m \in {t[i] : i \in 1..Len(t)} : m.kind = kind}
    BY KindOf
  <2> QED
    BY <1>5, <2>1, <2>2, <2>3
<1> QED
  BY <1>6 DEF u

LEMMA AscendingConcat ==
    ASSUME NEW s \in Seq(MessageSet), NEW t \in Seq(MessageSet), NEW kind
    PROVE  Ascending(s \o t, kind) <=>
               Ascending(s, kind) /\ Ascending(t, kind) /\ Below(OfKind(s, kind), OfKind(t, kind))
<1> DEFINE u == s \o t
<1>1. /\ Len(u) = Len(s) + Len(t) /\ Len(s) \in Nat /\ Len(t) \in Nat /\ u \in Seq(MessageSet)
      /\ \A i \in 1..(Len(s) + Len(t)) : u[i] = IF i <= Len(s) THEN s[i] ELSE t[i - Len(s)]
  BY ConcatProperties
<1> HIDE DEF u
<1>2. \A i \in 1..Len(s) : i \in 1..Len(u) /\ u[i] = s[i]
  BY <1>1
<1>3. \A i \in 1..Len(t) : Len(s) + i \in 1..Len(u) /\ u[Len(s) + i] = t[i]
  <2> SUFFICES ASSUME NEW i \in 1..Len(t) PROVE Len(s) + i \in 1..Len(u) /\ u[Len(s) + i] = t[i]
    OBVIOUS
  <2>1. Len(s) + i \in 1..(Len(s) + Len(t)) /\ ~(Len(s) + i <= Len(s)) /\ (Len(s) + i) - Len(s) = i
    BY <1>1
  <2> QED
    BY <1>1, <2>1
<1>4. \A i \in 1..Len(u) : \/ i \in 1..Len(s) /\ u[i] = s[i]
                           \/ i > Len(s) /\ i - Len(s) \in 1..Len(t) /\ u[i] = t[i - Len(s)]
  BY <1>1
<1>5. /\ \A m : m \in OfKind(s, kind) <=> \E i \in 1..Len(s) : m = s[i] /\ s[i].kind = kind
      /\ \A m : m \in OfKind(t, kind) <=> \E i \in 1..Len(t) : m = t[i] /\ t[i].kind = kind
  BY KindOf
<1>6. ASSUME Ascending(u, kind)
      PROVE  Ascending(s, kind) /\ Ascending(t, kind) /\ Below(OfKind(s, kind), OfKind(t, kind))
  <2>1. ASSUME NEW i \in 1..Len(s), NEW j \in 1..Len(s), i < j, s[i].kind = kind, s[j].kind = kind
        PROVE  s[i].n < s[j].n
    BY <1>2, <1>6, <2>1 DEF Ascending
  <2>2. ASSUME NEW i \in 1..Len(t), NEW j \in 1..Len(t), i < j, t[i].kind = kind, t[j].kind = kind
        PROVE  t[i].n < t[j].n
    <3>1. Len(s) + i < Len(s) + j
      BY <1>1, <2>2
    <3> QED
      BY <1>3, <1>6, <2>2, <3>1 DEF Ascending
  <2>3. ASSUME NEW i \in 1..Len(s), NEW j \in 1..Len(t), s[i].kind = kind, t[j].kind = kind
        PROVE  s[i].n < t[j].n
    <3>1. i < Len(s) + j
      BY <1>1
    <3> QED
      BY <1>2, <1>3, <1>6, <2>3, <3>1 DEF Ascending
  <2>4. Below(OfKind(s, kind), OfKind(t, kind))
    BY <1>5, <2>3 DEF Below
  <2> QED
    BY <2>1, <2>2, <2>4 DEF Ascending
<1>7. ASSUME Ascending(s, kind), Ascending(t, kind), Below(OfKind(s, kind), OfKind(t, kind))
      PROVE  Ascending(u, kind)
  <2> SUFFICES ASSUME NEW i \in 1..Len(u), NEW j \in 1..Len(u), i < j, u[i].kind = kind, u[j].kind = kind
               PROVE  u[i].n < u[j].n
    BY DEF Ascending
  <2>1. CASE j \in 1..Len(s) /\ u[j] = s[j]
    <3>1. i \in 1..Len(s) /\ u[i] = s[i]
      BY <1>2, <1>4, <2>1
    <3> QED
      BY <1>7, <2>1, <3>1 DEF Ascending
  <2>2. CASE j > Len(s) /\ j - Len(s) \in 1..Len(t) /\ u[j] = t[j - Len(s)]
    <3>1. CASE i \in 1..Len(s) /\ u[i] = s[i]
      <4>1. u[i] \in OfKind(s, kind) /\ u[j] \in OfKind(t, kind)
        BY <1>5, <2>2, <3>1
      <4> QED
        BY <1>7, <4>1 DEF Below
    <3>2. CASE i > Len(s) /\ i - Len(s) \in 1..Len(t) /\ u[i] = t[i - Len(s)]
      <4>1. i - Len(s) < j - Len(s)
        BY <1>1
      <4> QED
        BY <1>7, <2>2, <3>2, <4>1 DEF Ascending
    <3> QED
      BY <1>4, <3>1, <3>2
  <2> QED
    BY <1>4, <2>1, <2>2
<1> QED
  BY <1>6, <1>7 DEF u

LEMMA Without ==
    ASSUME NEW s \in Seq(MessageSet), NEW kind, \A i \in 1..Len(s) : s[i].kind # kind
    PROVE  OfKind(s, kind) = {} /\ Ascending(s, kind)
BY KindOf DEF Ascending

\* What has none of the kind changes nothing, wherever it stands.
LEMMA AlikeInsert ==
    ASSUME NEW a \in Seq(MessageSet), NEW x \in Seq(MessageSet), NEW b \in Seq(MessageSet), NEW kind,
           \A i \in 1..Len(x) : x[i].kind # kind
    PROVE  Alike((a \o x) \o b, a \o b, kind)
<1>1. OfKind(x, kind) = {} /\ Ascending(x, kind)
  BY Without
<1>2. a \o x \in Seq(MessageSet)
  BY ConcatProperties
<1>3. OfKind(a \o x, kind) = OfKind(a, kind) /\ (Ascending(a \o x, kind) <=> Ascending(a, kind))
  <2>1. OfKind(a \o x, kind) = OfKind(a, kind) \cup OfKind(x, kind)
    BY KindConcat
  <2>2. Ascending(a \o x, kind) <=>
            Ascending(a, kind) /\ Ascending(x, kind) /\ Below(OfKind(a, kind), OfKind(x, kind))
    BY AscendingConcat
  <2>3. Below(OfKind(a, kind), {})
    BY DEF Below
  <2> QED
    BY <1>1, <2>1, <2>2, <2>3
<1>4. OfKind((a \o x) \o b, kind) = OfKind(a \o b, kind)
  <2>1. OfKind((a \o x) \o b, kind) = OfKind(a \o x, kind) \cup OfKind(b, kind)
    <3>1. \A s, t \in Seq(MessageSet) : OfKind(s \o t, kind) = OfKind(s, kind) \cup OfKind(t, kind)
      BY KindConcat
    <3> QED
      BY <1>2, <3>1
  <2>2. OfKind(a \o b, kind) = OfKind(a, kind) \cup OfKind(b, kind)
    BY KindConcat
  <2> QED
    BY <1>3, <2>1, <2>2
<1>5. Ascending((a \o x) \o b, kind) <=> Ascending(a \o b, kind)
  <2>1. Ascending((a \o x) \o b, kind) <=>
            Ascending(a \o x, kind) /\ Ascending(b, kind) /\ Below(OfKind(a \o x, kind), OfKind(b, kind))
    BY <1>2, AscendingConcat
  <2>2. Ascending(a \o b, kind) <=>
            Ascending(a, kind) /\ Ascending(b, kind) /\ Below(OfKind(a, kind), OfKind(b, kind))
    BY AscendingConcat
  <2> QED
    BY <1>3, <2>1, <2>2
<1> QED
  BY <1>4, <1>5 DEF Alike

-------------------------------------------------------------------------------
(* Queued messages on their way: what the run told its consumer, what it holds *)
(* and what the queues still hold.                                            *)

AllKind(s, kind) == \A i \in 1..Len(s) : s[i].kind = kind

Flow(told, held, steered, followed, due, count) ==
    /\ OfKind((told \o held) \o steered, "steer") \cup OfKind((told \o held) \o followed, "followUp") = due
    /\ Ascending((told \o held) \o steered, "steer")
    /\ Ascending((told \o held) \o followed, "followUp")
    /\ AllKind(steered, "steer") /\ AllKind(followed, "followUp")
    /\ \A m \in due : m.n <= count

FlowArgs(told, held, steered, followed) ==
    /\ told \in Seq(MessageSet) /\ held \in Seq(MessageSet)
    /\ steered \in Seq(MessageSet) /\ followed \in Seq(MessageSet)

\* Lines that are alike carry the same messages.
LEMMA FlowAlike ==
    ASSUME NEW told, NEW held, NEW steered, NEW followed, NEW due, NEW count,
           NEW told2, NEW held2, NEW steered2, NEW followed2,
           Flow(told, held, steered, followed, due, count),
           Alike((told2 \o held2) \o steered2, (told \o held) \o steered, "steer"),
           Alike((told2 \o held2) \o followed2, (told \o held) \o followed, "followUp"),
           AllKind(steered2, "steer"), AllKind(followed2, "followUp")
    PROVE  Flow(told2, held2, steered2, followed2, due, count)
BY DEF Flow, Alike

LEMMA AlikeSame == \A s, kind : Alike(s, s, kind)
BY DEF Alike

\* The run tells its consumer of what it held.
LEMMA FlowTold ==
    ASSUME NEW told, NEW held, NEW steered, NEW followed, NEW due, NEW count,
           FlowArgs(told, held, steered, followed), Flow(told, held, steered, followed, due, count)
    PROVE  Flow(told \o held, <<>>, steered, followed, due, count)
<1>1. told \o held \in Seq(MessageSet)
  BY ConcatProperties DEF FlowArgs
<1>2. (told \o held) \o <<>> = told \o held
  BY <1>1, ConcatEmptySeq
<1> QED
  BY <1>2 DEF Flow

\* The run tells its consumer of messages of its own.
LEMMA FlowPlain ==
    ASSUME NEW told, NEW held, NEW steered, NEW followed, NEW due, NEW count,
           FlowArgs(told, held, steered, followed), Flow(told, held, steered, followed, due, count),
           NEW x \in Seq(MessageSet), Plain(x)
    PROVE  Flow(told \o x, held, steered, followed, due, count)
<1>1. /\ told \in Seq(MessageSet) /\ held \in Seq(MessageSet)
      /\ steered \in Seq(MessageSet) /\ followed \in Seq(MessageSet)
  BY DEF FlowArgs
<1>2. /\ \A i \in 1..Len(x) : x[i].kind # "steer"
      /\ \A i \in 1..Len(x) : x[i].kind # "followUp"
  BY DEF Plain
<1>3. \A queue \in Seq(MessageSet) : (told \o held) \o queue = told \o (held \o queue)
  <2>1. told \in Seq(MessageSet) /\ held \in Seq(MessageSet)
    BY <1>1
  <2> QED
    BY <2>1, Regroup, Zenon
<1>4. ASSUME NEW queue \in Seq(MessageSet), NEW kind, \A i \in 1..Len(x) : x[i].kind # kind
      PROVE  Alike(((told \o x) \o held) \o queue, (told \o held) \o queue, kind)
  <2>1. held \o queue \in Seq(MessageSet) /\ told \o x \in Seq(MessageSet)
    BY <1>1, ConcatProperties
  <2>2. Alike((told \o x) \o (held \o queue), told \o (held \o queue), kind)
    BY <1>1, <1>4, <2>1, AlikeInsert
  <2>3. ((told \o x) \o held) \o queue = (told \o x) \o (held \o queue)
    <3> DEFINE begun == told \o x
    <3>1. begun \in Seq(MessageSet)
      BY <2>1
    <3> HIDE DEF begun
    <3>2. (begun \o held) \o queue = begun \o (held \o queue)
      BY <1>1, <1>4, <3>1, Regroup, Zenon
    <3> QED
      BY <3>2 DEF begun
  <2>4. (told \o held) \o queue = told \o (held \o queue)
    BY <1>3
  <2> QED
    BY <2>2, <2>3, <2>4
<1>5. /\ Alike(((told \o x) \o held) \o steered, (told \o held) \o steered, "steer")
      /\ Alike(((told \o x) \o held) \o followed, (told \o held) \o followed, "followUp")
  BY <1>1, <1>2, <1>4
<1>6. AllKind(steered, "steer") /\ AllKind(followed, "followUp")
  BY DEF Flow
<1> QED
  BY <1>5, <1>6, FlowAlike

LEMMA AllKindParts ==
    ASSUME NEW a \in Seq(MessageSet), NEW b \in Seq(MessageSet), NEW kind, AllKind(a \o b, kind)
    PROVE  AllKind(a, kind) /\ AllKind(b, kind)
<1>1. /\ Len(a \o b) = Len(a) + Len(b) /\ Len(a) \in Nat /\ Len(b) \in Nat
      /\ \A i \in 1..(Len(a) + Len(b)) :
             (a \o b)[i] = IF i <= Len(a) THEN a[i] ELSE b[i - Len(a)]
  BY ConcatProperties
<1>2. \A i \in 1..(Len(a) + Len(b)) : (a \o b)[i].kind = kind
  BY <1>1 DEF AllKind
<1>3. ASSUME NEW i \in 1..Len(a)
      PROVE  a[i].kind = kind
  <2>1. i \in 1..(Len(a) + Len(b)) /\ i <= Len(a)
    BY <1>1
  <2> QED
    BY <1>1, <1>2, <2>1
<1>4. ASSUME NEW i \in 1..Len(b)
      PROVE  b[i].kind = kind
  <2>1. Len(a) + i \in 1..(Len(a) + Len(b)) /\ ~(Len(a) + i <= Len(a))
        /\ (Len(a) + i) - Len(a) = i
    BY <1>1
  <2> QED
    BY <1>1, <1>2, <2>1
<1> QED
  BY <1>3, <1>4 DEF AllKind

\* The run takes the first messages of the steering queue.
LEMMA FlowSteered ==
    ASSUME NEW told, NEW taken \in Seq(MessageSet), NEW rest \in Seq(MessageSet), NEW followed, NEW due, NEW count,
           FlowArgs(told, <<>>, taken \o rest, followed), Flow(told, <<>>, taken \o rest, followed, due, count)
    PROVE  Flow(told, taken, rest, followed, due, count)
<1>1. told \in Seq(MessageSet) /\ followed \in Seq(MessageSet) /\ told \o <<>> = told
  BY ConcatEmptySeq DEF FlowArgs
<1>2. AllKind(taken, "steer") /\ AllKind(rest, "steer")
  BY AllKindParts DEF Flow
<1>3. Alike((told \o taken) \o rest, (told \o <<>>) \o (taken \o rest), "steer")
  <2>1. (told \o taken) \o rest = told \o (taken \o rest)
    BY <1>1, Regroup, Zenon
  <2> QED
    BY <1>1, <2>1, AlikeSame
<1>4. Alike((told \o taken) \o followed, (told \o <<>>) \o followed, "followUp")
  <2>1. \A i \in 1..Len(taken) : taken[i].kind # "followUp"
    BY <1>2 DEF AllKind
  <2> QED
    BY <1>1, <2>1, AlikeInsert
<1>5. AllKind(followed, "followUp")
  BY DEF Flow
<1> QED
  BY <1>2, <1>3, <1>4, <1>5, FlowAlike

\* The run takes the first messages of the follow-up queue.
LEMMA FlowFollowed ==
    ASSUME NEW told, NEW taken \in Seq(MessageSet), NEW rest \in Seq(MessageSet), NEW steered, NEW due, NEW count,
           FlowArgs(told, <<>>, steered, taken \o rest), Flow(told, <<>>, steered, taken \o rest, due, count)
    PROVE  Flow(told, taken, steered, rest, due, count)
<1>1. told \in Seq(MessageSet) /\ steered \in Seq(MessageSet) /\ told \o <<>> = told
  BY ConcatEmptySeq DEF FlowArgs
<1>2. AllKind(taken, "followUp") /\ AllKind(rest, "followUp")
  BY AllKindParts DEF Flow
<1>3. Alike((told \o taken) \o rest, (told \o <<>>) \o (taken \o rest), "followUp")
  <2>1. (told \o taken) \o rest = told \o (taken \o rest)
    BY <1>1, Regroup, Zenon
  <2> QED
    BY <1>1, <2>1, AlikeSame
<1>4. Alike((told \o taken) \o steered, (told \o <<>>) \o steered, "steer")
  <2>1. \A i \in 1..Len(taken) : taken[i].kind # "steer"
    BY <1>2 DEF AllKind
  <2> QED
    BY <1>1, <2>1, AlikeInsert
<1>5. AllKind(steered, "steer")
  BY DEF Flow
<1> QED
  BY <1>2, <1>3, <1>4, <1>5, FlowAlike

LEMMA PoppedRest ==
    ASSUME NEW queue \in Seq(UserMessages), NEW mode
    PROVE  /\ Popped(queue, mode) \in Seq(MessageSet) /\ Rest(queue, mode) \in Seq(MessageSet)
           /\ queue \in Seq(MessageSet) /\ queue = Popped(queue, mode) \o Rest(queue, mode)
<1>1. Popped(queue, mode) \in Seq(UserMessages) /\ Rest(queue, mode) \in Seq(UserMessages)
  BY PollType
<1>2. \A s \in Seq(UserMessages) : s \in Seq(MessageSet)
  BY Subsets, SeqMonotonic
<1>3. CASE mode = "one-at-a-time" /\ queue # <<>>
  <2>1. Popped(queue, mode) = <<Head(queue)>> /\ Rest(queue, mode) = Tail(queue)
    BY <1>3 DEF Popped, Rest
  <2>2. queue = <<Head(queue)>> \o Tail(queue)
    BY <1>3
  <2> QED
    BY <1>1, <1>2, <2>1, <2>2
<1>4. CASE ~(mode = "one-at-a-time" /\ queue # <<>>)
  <2>1. Popped(queue, mode) = queue /\ Rest(queue, mode) = <<>>
    BY <1>4 DEF Popped, Rest
  <2>2. queue \o <<>> = queue
    BY ConcatEmptySeq
  <2> QED
    BY <1>1, <1>2, <2>1, <2>2
<1> QED
  BY <1>3, <1>4

LEMMA Numbers == \A m \in MessageSet : m.n \in Int
<1>1. \A m \in UserMessages : m.n \in Int
  BY DEF UserMessages
<1>2. \A m \in AssistantMessages : m.n \in Int
  BY DEF AssistantMessages
<1>3. \A m \in ToolResults : m.n \in Int
  BY DEF ToolResults, ToolCalls
<1> QED
  BY <1>1, <1>2, <1>3 DEF MessageSet

\* The newest message goes to the end of its line.
LEMMA LineGrows ==
    ASSUME NEW s \in Seq(MessageSet), NEW queue \in Seq(MessageSet), NEW m \in MessageSet, NEW kind, m.kind = kind,
           Ascending(s \o queue, kind), Below(OfKind(s \o queue, kind), {m})
    PROVE  /\ OfKind(s \o Append(queue, m), kind) = OfKind(s \o queue, kind) \cup {m}
           /\ Ascending(s \o Append(queue, m), kind)
<1> DEFINE line == s \o queue  one == <<m>>
<1>1. line \in Seq(MessageSet)
  BY ConcatProperties
<1>2. one \in Seq(MessageSet) /\ Len(one) = 1 /\ one[1] = m
  OBVIOUS
<1>3. s \o Append(queue, m) = line \o one
  <2>1. s \o Append(queue, m) = Append(s \o queue, m)
    BY ConcatAppend
  <2> HIDE DEF line
  <2>2. Append(line, m) = line \o one
    BY <1>1, AppendIsConcat
  <2> QED
    BY <2>1, <2>2 DEF line
<1> HIDE DEF line, one
<1>4. OfKind(one, kind) = {m} /\ Ascending(one, kind)
  <2>1. OfKind(one, kind) = {x \in {one[i] : i \in 1..Len(one)} : x.kind = kind}
    BY <1>2, KindOf
  <2> QED
    BY <1>2, <2>1 DEF Ascending
<1>6. Below(OfKind(line, kind), {m})
  BY DEF line
<1>7. OfKind(line \o one, kind) = OfKind(line, kind) \cup {m}
  BY <1>1, <1>2, <1>4, KindConcat
<1>8. Ascending(line \o one, kind)
  BY <1>1, <1>2, <1>4, <1>6, AscendingConcat DEF line
<1> QED
  BY <1>3, <1>7, <1>8 DEF line

LEMMA AllKindAppend ==
    ASSUME NEW s \in Seq(MessageSet), NEW m \in MessageSet, AllKind(s, m.kind)
    PROVE  AllKind(Append(s, m), m.kind)
<1>1. /\ Len(Append(s, m)) = Len(s) + 1 /\ Len(s) \in Nat /\ Append(s, m)[Len(s) + 1] = m
      /\ \A i \in 1..Len(s) : Append(s, m)[i] = s[i]
  BY AppendProperties
<1> QED
  BY <1>1 DEF AllKind

LEMMA KindMembers ==
    ASSUME NEW told \in Seq(MessageSet), NEW held \in Seq(MessageSet), NEW queue \in Seq(MessageSet), NEW kind
    PROVE  OfKind((told \o held) \o queue, kind) \subseteq MessageSet
<1> DEFINE line == (told \o held) \o queue
<1>1. line \in Seq(MessageSet)
  <2>1. told \o held \in Seq(MessageSet)
    BY ConcatProperties
  <2> QED
    BY <2>1, ConcatProperties
<1> HIDE DEF line
<1>2. \A i \in 1..Len(line) : line[i] \in MessageSet
  BY <1>1
<1>3. OfKind(line, kind) = {m \in {line[i] : i \in 1..Len(line)} : m.kind = kind}
  BY <1>1, KindOf
<1>4. OfKind(line, kind) \subseteq MessageSet
  BY <1>2, <1>3
<1> QED
  BY <1>4 DEF line

LEMMA FlowSteer ==
    ASSUME NEW told, NEW held, NEW steered, NEW followed, NEW due, NEW count \in Int,
           FlowArgs(told, held, steered, followed), Flow(told, held, steered, followed, due, count),
           NEW m \in MessageSet, m.kind = "steer", m.n = count + 1
    PROVE  Flow(told, held, Append(steered, m), followed, due \cup {m}, count + 1)
<1>1. told \o held \in Seq(MessageSet) /\ steered \in Seq(MessageSet)
  BY ConcatProperties DEF FlowArgs
<1>2. \A x \in OfKind((told \o held) \o steered, "steer") : x.n <= count
  BY DEF Flow
<1>3. Ascending((told \o held) \o steered, "steer")
  BY DEF Flow
<1>4. /\ OfKind((told \o held) \o Append(steered, m), "steer") = OfKind((told \o held) \o steered, "steer") \cup {m}
      /\ Ascending((told \o held) \o Append(steered, m), "steer")
  <2> DEFINE s == told \o held
  <2> HIDE DEF s
  <2>1. s \in Seq(MessageSet) /\ steered \in Seq(MessageSet) /\ Ascending(s \o steered, "steer")
    BY <1>1, <1>3 DEF s
  <2>2. Below(OfKind(s \o steered, "steer"), {m})
    <3> SUFFICES ASSUME NEW x \in OfKind(s \o steered, "steer") PROVE x.n < m.n
      BY DEF Below
    <3>1. x \in MessageSet /\ x.n <= count
      BY <1>2, KindMembers DEF FlowArgs, s
    <3> QED
      BY <3>1, Numbers
  <2>3. /\ OfKind(s \o Append(steered, m), "steer") = OfKind(s \o steered, "steer") \cup {m}
        /\ Ascending(s \o Append(steered, m), "steer")
    BY <2>1, <2>2, LineGrows
  <2> QED
    BY <2>3 DEF s
<1>5. AllKind(Append(steered, m), "steer") /\ AllKind(followed, "followUp")
  BY <1>1, AllKindAppend DEF Flow
<1>6. \A x \in due \cup {m} : x.n <= count + 1
  <2> SUFFICES ASSUME NEW x \in due, x # m PROVE x.n <= count + 1
    OBVIOUS
  <2>1. x.n <= count /\ x \in OfKind((told \o held) \o steered, "steer") \cup OfKind((told \o held) \o followed, "followUp")
    BY DEF Flow
  <2>2. x \in MessageSet
    BY <2>1, KindMembers DEF FlowArgs
  <2> QED
    BY <2>1, <2>2, Numbers
<1> QED
  BY <1>4, <1>5, <1>6 DEF Flow

LEMMA FlowFollowUp ==
    ASSUME NEW told, NEW held, NEW steered, NEW followed, NEW due, NEW count \in Int,
           FlowArgs(told, held, steered, followed), Flow(told, held, steered, followed, due, count),
           NEW m \in MessageSet, m.kind = "followUp", m.n = count + 1
    PROVE  Flow(told, held, steered, Append(followed, m), due \cup {m}, count + 1)
<1>1. told \o held \in Seq(MessageSet) /\ followed \in Seq(MessageSet)
  BY ConcatProperties DEF FlowArgs
<1>2. \A x \in OfKind((told \o held) \o followed, "followUp") : x.n <= count
  BY DEF Flow
<1>3. Ascending((told \o held) \o followed, "followUp")
  BY DEF Flow
<1>4. /\ OfKind((told \o held) \o Append(followed, m), "followUp")
             = OfKind((told \o held) \o followed, "followUp") \cup {m}
      /\ Ascending((told \o held) \o Append(followed, m), "followUp")
  <2> DEFINE s == told \o held
  <2> HIDE DEF s
  <2>1. s \in Seq(MessageSet) /\ followed \in Seq(MessageSet) /\ Ascending(s \o followed, "followUp")
    BY <1>1, <1>3 DEF s
  <2>2. Below(OfKind(s \o followed, "followUp"), {m})
    <3> SUFFICES ASSUME NEW x \in OfKind(s \o followed, "followUp") PROVE x.n < m.n
      BY DEF Below
    <3>1. x \in MessageSet /\ x.n <= count
      BY <1>2, KindMembers DEF FlowArgs, s
    <3> QED
      BY <3>1, Numbers
  <2>3. /\ OfKind(s \o Append(followed, m), "followUp") = OfKind(s \o followed, "followUp") \cup {m}
        /\ Ascending(s \o Append(followed, m), "followUp")
    BY <2>1, <2>2, LineGrows
  <2> QED
    BY <2>3 DEF s
<1>5. AllKind(Append(followed, m), "followUp") /\ AllKind(steered, "steer")
  BY <1>1, AllKindAppend DEF Flow
<1>6. \A x \in due \cup {m} : x.n <= count + 1
  <2> SUFFICES ASSUME NEW x \in due, x # m PROVE x.n <= count + 1
    OBVIOUS
  <2>1. x.n <= count /\ x \in OfKind((told \o held) \o steered, "steer") \cup OfKind((told \o held) \o followed, "followUp")
    BY DEF Flow
  <2>2. x \in MessageSet
    BY <2>1, KindMembers DEF FlowArgs
  <2> QED
    BY <2>1, <2>2, Numbers
<1> QED
  BY <1>4, <1>5, <1>6 DEF Flow

LEMMA FlowSameDue ==
    ASSUME NEW told, NEW held, NEW steered, NEW followed, NEW due, NEW count \in Int,
           FlowArgs(told, held, steered, followed), Flow(told, held, steered, followed, due, count)
    PROVE  Flow(told, held, steered, followed, due, count + 1)
<1>1. \A x \in due : x.n <= count + 1
  <2> SUFFICES ASSUME NEW x \in due PROVE x.n <= count + 1
    OBVIOUS
  <2>1. x.n <= count /\ x \in OfKind((told \o held) \o steered, "steer") \cup OfKind((told \o held) \o followed, "followUp")
    BY DEF Flow
  <2>2. x \in MessageSet
    BY <2>1, KindMembers DEF FlowArgs
  <2> QED
    BY <2>1, <2>2, Numbers
<1> QED
  BY <1>1 DEF Flow

\* A line without its queue, and what the queue had.
LEMMA LineShrinks ==
    ASSUME NEW s \in Seq(MessageSet), NEW queue \in Seq(MessageSet), NEW kind,
           Ascending(s \o queue, kind), AllKind(queue, kind)
    PROVE  /\ OfKind(s, kind) = OfKind(s \o queue, kind) \ ToSet(queue) /\ Ascending(s, kind)
           /\ \A m \in ToSet(queue) : m.kind = kind
<1>1. OfKind(s \o queue, kind) = OfKind(s, kind) \cup OfKind(queue, kind)
  BY KindConcat
<1>2. Ascending(s, kind) /\ Below(OfKind(s, kind), OfKind(queue, kind))
  BY AscendingConcat
<1>3. ToSet(queue) = {queue[i] : i \in 1..Len(queue)}
  BY ToSetOfSeq
<1>4. \A m \in ToSet(queue) : m.kind = kind
  BY <1>3 DEF AllKind
<1>5. OfKind(queue, kind) = ToSet(queue)
  BY <1>4 DEF OfKind
<1>6. OfKind(s, kind) \cap OfKind(queue, kind) = {}
  <2> SUFFICES ASSUME NEW m \in OfKind(s, kind), m \in OfKind(queue, kind) PROVE FALSE
    OBVIOUS
  <2>1. m.n < m.n
    BY <1>2 DEF Below
  <2>2. m \in MessageSet
    <3>1. ToSet(queue) \subseteq MessageSet
      BY ToSetOfSeq
    <3> QED
      BY <1>5, <3>1
  <2>3. m.n \in Int
    BY <2>2, Numbers
  <2> QED
    BY <2>1, <2>3
<1> QED
  BY <1>1, <1>2, <1>4, <1>5, <1>6

LEMMA FlowCleared ==
    ASSUME NEW told, NEW held, NEW steered, NEW followed, NEW due, NEW count,
           FlowArgs(told, held, steered, followed), Flow(told, held, steered, followed, due, count)
    PROVE  Flow(told, held, <<>>, <<>>, due \ (ToSet(steered) \cup ToSet(followed)), count)
<1> DEFINE s == told \o held
<1>1. s \in Seq(MessageSet) /\ steered \in Seq(MessageSet) /\ followed \in Seq(MessageSet)
  BY ConcatProperties DEF FlowArgs
<1>2. /\ OfKind(s \o steered, "steer") \cup OfKind(s \o followed, "followUp") = due
      /\ Ascending(s \o steered, "steer") /\ Ascending(s \o followed, "followUp")
      /\ AllKind(steered, "steer") /\ AllKind(followed, "followUp")
      /\ \A m \in due : m.n <= count
  BY DEF Flow
<1> HIDE DEF s
<1>3. /\ OfKind(s, "steer") = OfKind(s \o steered, "steer") \ ToSet(steered) /\ Ascending(s, "steer")
      /\ \A m \in ToSet(steered) : m.kind = "steer"
  BY <1>1, <1>2, LineShrinks
<1>4. /\ OfKind(s, "followUp") = OfKind(s \o followed, "followUp") \ ToSet(followed) /\ Ascending(s, "followUp")
      /\ \A m \in ToSet(followed) : m.kind = "followUp"
  BY <1>1, <1>2, LineShrinks
<1>5. /\ \A m \in OfKind(s \o steered, "steer") : m.kind = "steer"
      /\ \A m \in OfKind(s \o followed, "followUp") : m.kind = "followUp"
  BY DEF OfKind
<1>6. OfKind(s, "steer") \cup OfKind(s, "followUp") = due \ (ToSet(steered) \cup ToSet(followed))
  BY <1>2, <1>3, <1>4, <1>5
<1>7. s \o <<>> = s
  BY <1>1, ConcatEmptySeq
<1>8. AllKind(<<>>, "steer") /\ AllKind(<<>>, "followUp")
  BY DEF AllKind
<1>9. \A m \in due \ (ToSet(steered) \cup ToSet(followed)) : m.n <= count
  BY <1>2
<1> QED
  BY <1>3, <1>4, <1>6, <1>7, <1>8, <1>9 DEF Flow, s

\* A transcript whose last message nobody queued is shortened by it.
LEMMA FlowDropped ==
    ASSUME NEW told \in Seq(MessageSet), NEW last \in MessageSet, last.kind \notin {"steer", "followUp"},
           NEW steered, NEW followed, NEW due, NEW count,
           FlowArgs(told, <<>>, steered, followed), Flow(Append(told, last), <<>>, steered, followed, due, count)
    PROVE  Flow(told, <<>>, steered, followed, due, count)
<1> DEFINE x == <<last>>
<1>1. /\ x \in Seq(MessageSet) /\ Append(told, last) = told \o x /\ Len(x) = 1 /\ x[1] = last
      /\ steered \in Seq(MessageSet) /\ followed \in Seq(MessageSet)
  BY AppendIsConcat DEF FlowArgs
<1> HIDE DEF x
<1>2. told \o <<>> = told /\ (told \o x) \o <<>> = told \o x
  <2>1. told \o x \in Seq(MessageSet)
    BY <1>1, ConcatProperties
  <2> QED
    BY <2>1, ConcatEmptySeq
<1>3. Flow(told \o x, <<>>, steered, followed, due, count)
  BY <1>1
<1>4. /\ Alike((told \o x) \o steered, told \o steered, "steer")
      /\ Alike((told \o x) \o followed, told \o followed, "followUp")
  <2>1. (\A i \in 1..Len(x) : x[i].kind # "steer") /\ (\A i \in 1..Len(x) : x[i].kind # "followUp")
    BY <1>1
  <2> QED
    BY <1>1, <2>1, AlikeInsert
<1> QED
  BY <1>2, <1>3, <1>4 DEF Flow, Alike

LEMMA QueueArgs ==
    ASSUME LoopsTyped
    PROVE  /\ steeringQueue \in Seq(MessageSet) /\ followUpQueue \in Seq(MessageSet)
           /\ \A told, held \in Seq(MessageSet) : FlowArgs(told, held, steeringQueue, followUpQueue)
<1>1. \A s \in Seq(UserMessages) : s \in Seq(MessageSet)
  BY Subsets, SeqMonotonic
<1>2. steeringQueue \in Seq(MessageSet) /\ followUpQueue \in Seq(MessageSet)
  BY <1>1 DEF LoopsTyped
<1> QED
  BY <1>2 DEF FlowArgs

\* Whatever a step of the loop carries on, no queued message is lost or overtaken.
LEMMA FlowCarried ==
    ASSUME LoopsTyped, NEW l, NEW m, LoopShape(l), NEW due, NEW count,
           Flow(Told(l), Held(l), steeringQueue, followUpQueue, due, count),
           NEW told \in Seq(MessageSet), Carries(l, m, told)
    PROVE  Flow(Told(m), Held(m), steeringQueue', followUpQueue', due, count)
<1>1. Told(l) \in Seq(MessageSet) /\ Held(l) \in Seq(MessageSet) /\ Told(m) = Told(l) \o told
  BY ToldParts DEF Carries
<1>2. /\ steeringQueue \in Seq(MessageSet) /\ followUpQueue \in Seq(MessageSet)
      /\ FlowArgs(Told(l), Held(l), steeringQueue, followUpQueue)
  BY <1>1, QueueArgs
<1>3. CASE told = Held(l) /\ Held(m) = <<>> /\ UNCHANGED <<steeringQueue, followUpQueue>>
  BY <1>1, <1>2, <1>3, FlowTold
<1>4. ASSUME Plain(told)
      PROVE  Flow(Told(m), Held(l), steeringQueue, followUpQueue, due, count)
  BY <1>1, <1>2, <1>4, FlowPlain
<1>5. CASE Plain(told) /\ Held(m) = Held(l) /\ UNCHANGED <<steeringQueue, followUpQueue>>
  BY <1>4, <1>5
<1>6. Told(m) \in Seq(MessageSet) /\ FlowArgs(Told(m), <<>>, steeringQueue, followUpQueue)
  <2>1. Told(m) \in Seq(MessageSet) /\ <<>> \in Seq(MessageSet)
    BY <1>1, ConcatProperties
  <2> QED
    BY <1>2, <2>1 DEF FlowArgs
<1>7. CASE Plain(told) /\ Held(l) = <<>> /\ Held(m) = Steering /\ PollSteering /\ UNCHANGED followUpQueue
  <2> DEFINE taken == Popped(steeringQueue, SteeringMode)  rest == Rest(steeringQueue, SteeringMode)
  <2>1. taken \in Seq(MessageSet) /\ rest \in Seq(MessageSet) /\ steeringQueue = taken \o rest
    BY PoppedRest DEF LoopsTyped
  <2>2. Held(m) = taken /\ steeringQueue' = rest /\ followUpQueue' = followUpQueue
    BY <1>7 DEF Steering, PollSteering
  <2>3. Flow(Told(m), <<>>, steeringQueue, followUpQueue, due, count)
    BY <1>4, <1>7
  <2> HIDE DEF taken, rest
  <2>4. FlowArgs(Told(m), <<>>, taken \o rest, followUpQueue) /\ Flow(Told(m), <<>>, taken \o rest, followUpQueue, due, count)
    BY <1>6, <2>1, <2>3, Zenon
  <2>5. Flow(Told(m), taken, rest, followUpQueue, due, count)
    BY <2>1, <2>4, FlowSteered
  <2> QED
    BY <2>2, <2>5
<1>8. CASE /\ Plain(told) /\ Held(l) = <<>> /\ Held(m) = Popped(followUpQueue, FollowUpMode)
           /\ followUpQueue' = Rest(followUpQueue, FollowUpMode) /\ UNCHANGED steeringQueue
  <2> DEFINE taken == Popped(followUpQueue, FollowUpMode)  rest == Rest(followUpQueue, FollowUpMode)
  <2>1. taken \in Seq(MessageSet) /\ rest \in Seq(MessageSet) /\ followUpQueue = taken \o rest
    BY PoppedRest DEF LoopsTyped
  <2>2. Held(m) = taken /\ steeringQueue' = steeringQueue /\ followUpQueue' = rest
    BY <1>8
  <2>3. Flow(Told(m), <<>>, steeringQueue, followUpQueue, due, count)
    BY <1>4, <1>8
  <2> HIDE DEF taken, rest
  <2>4. FlowArgs(Told(m), <<>>, steeringQueue, taken \o rest) /\ Flow(Told(m), <<>>, steeringQueue, taken \o rest, due, count)
    BY <1>6, <2>1, <2>3, Zenon
  <2>5. Flow(Told(m), taken, steeringQueue, rest, due, count)
    BY <2>1, <2>4, FlowFollowed
  <2> QED
    BY <2>2, <2>5
<1> QED
  BY <1>3, <1>5, <1>7, <1>8 DEF Carries

\* A loop that starts has told its consumer of the prompts, and holds what it polled.
LEMMA StartLoopTells ==
    ASSUME LoopsTyped, NEW r \in Runs, NEW context \in Seq(MessageSet), NEW prompts \in Seq(UserMessages),
           StartLoop(r, context, prompts), AnsweredTo(context, Len(context)), SkipsLead(context, <<>>)
    PROVE  /\ prompts \in Seq(MessageSet)
           /\ Delivers(context, stream'[r], context \o prompts)
           /\ Told(loop'[r]) = context \o prompts /\ Held(loop'[r]) = Steering
           /\ Orderly(loop'[r])
<1> DEFINE before == context \o prompts  m == loop'[r]
           opening == <<Event("agent_start", None), TurnStart>>
           events == opening \o Announce(prompts)
<1>1. prompts \in Seq(MessageSet) /\ before \in Seq(MessageSet)
  <2>1. prompts \in Seq(MessageSet)
    BY Subsets, SeqMonotonic
  <2> QED
    BY <2>1, ConcatProperties
<1>2. Steering \in Seq(UserMessages)
  BY PollType DEF LoopsTyped, Steering
<1>3. /\ m = [NoLoop EXCEPT !.pc = "polled", !.context = before, !.pending = Steering, !.hasMore = TRUE]
      /\ stream'[r] = events
  BY DEF StartLoop, LoopsTyped
<1>4. Brings(events, prompts)
  <2>1. /\ <<Event("agent_start", None)>> \in Seq(EventSet) /\ <<TurnStart>> \in Seq(EventSet)
        /\ Brings(<<Event("agent_start", None)>>, <<>>) /\ Brings(<<TurnStart>>, <<>>)
    BY Subsets, BringsNone, WhatAppends
  <2>2. <<>> \in Seq(MessageSet) /\ <<>> \o <<>> = <<>> /\ <<>> \o prompts = prompts
    BY <1>1, ConcatEmptySeq
  <2>3. opening \in Seq(EventSet) /\ opening = <<Event("agent_start", None)>> \o <<TurnStart>>
    BY Subsets
  <2>4. Announce(prompts) \in Seq(EventSet) /\ Brings(Announce(prompts), prompts)
    BY <1>1, AnnounceShape, BringsAnnounced
  <2> HIDE DEF opening
  <2>5. Brings(<<Event("agent_start", None)>> \o <<TurnStart>>, <<>> \o <<>>)
    BY <2>1, <2>2, BringsConcat
  <2>6. Brings(opening, <<>>)
    BY <2>2, <2>3, <2>5
  <2>7. Brings(opening \o Announce(prompts), <<>> \o prompts)
    BY <1>1, <2>2, <2>3, <2>4, <2>6, BringsConcat
  <2> QED
    BY <2>2, <2>7
<1>5. /\ m.pc = "polled" /\ m.context = before /\ m.pending = Steering /\ m.steering = <<>> /\ m.results = <<>>
      /\ ~m.partial
  <2> HIDE DEF m, before
  <2> QED
    BY <1>3 DEF NoLoop
<1> HIDE DEF before, events
<1>6. Told(m) = before /\ Held(m) = Steering
  <2> HIDE DEF m
  <2>1. before \o <<>> = before /\ Steering \o <<>> = Steering
    BY <1>1, <1>2, ConcatEmptySeq
  <2> QED
    BY <1>5, <2>1 DEF Told, Held
<1>7. AnsweredTo(before, Len(before)) /\ SkipsLead(before, Steering)
  <2>1. \A i \in 1..Len(prompts) : prompts[i].kind \in {"prompt", "steer", "followUp"}
    BY FromUsers
  <2>2. (\A i \in 1..Len(prompts) : prompts[i].kind # "toolUse") /\ (\A i \in 1..Len(prompts) : prompts[i].kind # "skipped")
    BY <2>1
  <2>3. SkipsLead(context, prompts)
    BY SkipsAny
  <2> QED
    BY <1>1, <2>2, <2>3, AnsweredMore, SkipsMore DEF before
<1>8. Orderly(m)
  <2>1. Len(<<>>) = 0
    OBVIOUS
  <2> HIDE DEF m
  <2> QED
    BY <1>5, <1>6, <1>7, <2>1 DEF Orderly, InTools
<1>9. Delivers(context, events, before)
  BY <1>4 DEF Brings, before
<1> QED
  BY <1>1, <1>3, <1>6, <1>8, <1>9 DEF before

-------------------------------------------------------------------------------
(* What the transcript, the run and the queues hold together.                 *)

\* The consumer of a run is on its way to what the loop told it, and the queued
\* messages are in line behind.
Following(r) ==
    /\ Delivers(messages, stream[r], Told(loop[r]))
    /\ Orderly(loop[r])
    /\ Flow(Told(loop[r]), Held(loop[r]), steeringQueue, followUpQueue, owed, inputs)

\* Between runs the transcript is one a run may start from.
Resting ==
    /\ AnsweredTo(messages, Len(messages)) /\ SkipsLead(messages, <<>>)
    /\ Flow(messages, <<>>, steeringQueue, followUpQueue, owed, inputs)

Exact ==
    /\ \A r \in Runs : consumer[r] = "consuming" => Following(r)
    /\ (\A r \in Runs : consumer[r] # "consuming") => Resting

\* A transcript with nothing in it.
LEMMA EmptyRests ==
    /\ AnsweredTo(<<>>, Len(<<>>)) /\ SkipsLead(<<>>, <<>>)
    /\ \A count : Flow(<<>>, <<>>, <<>>, <<>>, {}, count)
<1>1. Len(<<>>) = 0 /\ <<>> \in Seq(MessageSet) /\ 0 = Len(<<>>)
  OBVIOUS
<1>2. AnsweredTo(<<>>, 0) /\ SkipsLead(<<>>, <<>>)
  BY <1>1 DEF AnsweredTo, SkipsLead
<1>3. (<<>> \o <<>>) \o <<>> = <<>>
  OBVIOUS
<1>4. \A kind : OfKind(<<>>, kind) = {} /\ Ascending(<<>>, kind) /\ AllKind(<<>>, kind)
  <2> SUFFICES ASSUME NEW kind PROVE OfKind(<<>>, kind) = {} /\ Ascending(<<>>, kind) /\ AllKind(<<>>, kind)
    OBVIOUS
  <2>1. OfKind(<<>>, kind) = {}
    <3>1. OfKind(<<>>, kind) = {m \in {<<>>[i] : i \in 1..Len(<<>>)} : m.kind = kind}
      BY <1>1, KindOf
    <3>2. {<<>>[i] : i \in 1..Len(<<>>)} = {}
      BY <1>1
    <3> QED
      BY <3>1, <3>2
  <2> QED
    BY <1>1, <2>1 DEF Ascending, AllKind
<1> QED
  BY <1>1, <1>2, <1>3, <1>4 DEF Flow

LEMMA ExactInit == Init => Exact
<1> SUFFICES ASSUME Init PROVE Exact
  OBVIOUS
<1>1. \A r \in Runs : consumer[r] # "consuming"
  BY DEF Init
<1>2. messages = <<>> /\ steeringQueue = <<>> /\ followUpQueue = <<>> /\ owed = {}
  BY DEF Init, LoopInit
<1> QED
  BY <1>1, <1>2, EmptyRests DEF Exact, Resting

\* Two consuming runs are one, and there is none while nobody waits for one.
LEMMA OnlyRun ==
    ASSUME OneRun
    PROVE  /\ \A r, q \in Runs : consumer[r] = "consuming" /\ consumer[q] = "consuming" => r = q
           /\ runningPrompt = {} => \A r \in Runs : consumer[r] # "consuming"
<1>1. \A r \in Runs : consumer[r] = "consuming" => runningPrompt = {r}
  BY DEF OneRun, Current
<1>2. ASSUME NEW r \in Runs, NEW q \in Runs, consumer[r] = "consuming", consumer[q] = "consuming"
      PROVE  r = q
  <2>1. runningPrompt = {r} /\ runningPrompt = {q}
    BY <1>1, <1>2
  <2> QED
    BY <2>1
<1> QED
  BY <1>1, <1>2

\* Whatever leaves the runs and the transcript alone, and keeps the line of every transcript.
LEMMA ExactFrame ==
    ASSUME Typed, Exact, UNCHANGED <<loop, stream, messages, consumer>>,
           \A told, held \in Seq(MessageSet) :
               Flow(told, held, steeringQueue, followUpQueue, owed, inputs)
               => Flow(told, held, steeringQueue', followUpQueue', owed', inputs')
    PROVE  Exact'
<1>1. LoopsTyped /\ AgentTyped
  BY TypedParts
<1>2. \A r \in Runs : LoopShape(loop[r])
  BY <1>1 DEF LoopsTyped
<1>3. \A r \in Runs : consumer'[r] = "consuming" => Following(r)'
  <2> SUFFICES ASSUME NEW r \in Runs, consumer'[r] = "consuming" PROVE Following(r)'
    OBVIOUS
  <2>1. Following(r)
    BY DEF Exact
  <2>2. Told(loop[r]) \in Seq(MessageSet) /\ Held(loop[r]) \in Seq(MessageSet)
    BY <1>2, ToldParts
  <2>3. Flow(Told(loop[r]), Held(loop[r]), steeringQueue', followUpQueue', owed', inputs')
    BY <2>1, <2>2 DEF Following
  <2> QED
    BY <2>1, <2>3 DEF Following
<1>4. (\A r \in Runs : consumer'[r] # "consuming") => Resting'
  <2> SUFFICES ASSUME \A r \in Runs : consumer'[r] # "consuming" PROVE Resting'
    OBVIOUS
  <2>1. Resting
    BY DEF Exact
  <2>2. messages \in Seq(MessageSet) /\ <<>> \in Seq(MessageSet)
    BY <1>1 DEF AgentTyped
  <2>3. Flow(messages, <<>>, steeringQueue', followUpQueue', owed', inputs')
    BY <2>1, <2>2 DEF Resting
  <2> QED
    BY <2>1, <2>3 DEF Resting
<1> QED
  BY <1>3, <1>4 DEF Exact

LEMMA SentIs ==
    ASSUME AgentTyped, MaySend, NEW kind \in {"prompt", "steer", "followUp"}
    PROVE  Sent(kind) \in MessageSet /\ Sent(kind).kind = kind /\ Sent(kind).n = inputs + 1
<1>1. Sent(kind) \in MessageSet
  BY SentType DEF MessageSet
<1> QED
  BY <1>1 DEF Sent, Message

LEMMA ExactSteer ==
    ASSUME Typed, Exact, Steer
    PROVE  Exact'
<1> DEFINE m == Sent("steer")
<1>1. LoopsTyped /\ AgentTyped
  BY TypedParts
<1>2. m \in MessageSet /\ m.kind = "steer" /\ m.n = inputs + 1
  BY <1>1, SentIs DEF Steer
<1>3. inputs \in Int
  BY <1>1, AgentAssumption DEF AgentTyped
<1>4. /\ steeringQueue' = Append(steeringQueue, m) /\ followUpQueue' = followUpQueue
      /\ owed' = owed \cup {m} /\ inputs' = inputs + 1
      /\ UNCHANGED <<loop, stream, messages, consumer>>
  BY DEF Steer
<1> HIDE DEF m
<1>5. ASSUME NEW told \in Seq(MessageSet), NEW held \in Seq(MessageSet),
             Flow(told, held, steeringQueue, followUpQueue, owed, inputs)
      PROVE  Flow(told, held, Append(steeringQueue, m), followUpQueue, owed \cup {m}, inputs + 1)
  <2>1. FlowArgs(told, held, steeringQueue, followUpQueue)
    BY <1>1, QueueArgs
  <2> QED
    BY <1>2, <1>3, <1>5, <2>1, FlowSteer
<1> QED
  BY <1>4, <1>5, ExactFrame

LEMMA ExactFollowUp ==
    ASSUME Typed, Exact, FollowUp
    PROVE  Exact'
<1> DEFINE m == Sent("followUp")
<1>1. LoopsTyped /\ AgentTyped
  BY TypedParts
<1>2. m \in MessageSet /\ m.kind = "followUp" /\ m.n = inputs + 1
  BY <1>1, SentIs DEF FollowUp
<1>3. inputs \in Int
  BY <1>1, AgentAssumption DEF AgentTyped
<1>4. /\ followUpQueue' = Append(followUpQueue, m) /\ steeringQueue' = steeringQueue
      /\ owed' = owed \cup {m} /\ inputs' = inputs + 1
      /\ UNCHANGED <<loop, stream, messages, consumer>>
  BY DEF FollowUp
<1> HIDE DEF m
<1>5. ASSUME NEW told \in Seq(MessageSet), NEW held \in Seq(MessageSet),
             Flow(told, held, steeringQueue, followUpQueue, owed, inputs)
      PROVE  Flow(told, held, steeringQueue, Append(followUpQueue, m), owed \cup {m}, inputs + 1)
  <2>1. FlowArgs(told, held, steeringQueue, followUpQueue)
    BY <1>1, QueueArgs
  <2> QED
    BY <1>2, <1>3, <1>5, <2>1, FlowFollowUp
<1> QED
  BY <1>4, <1>5, ExactFrame

LEMMA ExactClears ==
    ASSUME Typed, Exact, ClearAllQueues
    PROVE  Exact'
<1>1. LoopsTyped
  BY TypedParts
<1>2. ASSUME NEW told \in Seq(MessageSet), NEW held \in Seq(MessageSet),
             Flow(told, held, steeringQueue, followUpQueue, owed, inputs)
      PROVE  Flow(told, held, steeringQueue', followUpQueue', owed', inputs')
  <2>1. FlowArgs(told, held, steeringQueue, followUpQueue)
    BY <1>1, QueueArgs
  <2>2. Flow(told, held, <<>>, <<>>, owed \ (ToSet(steeringQueue) \cup ToSet(followUpQueue)), inputs)
    BY <1>2, <2>1, FlowCleared
  <2> QED
    BY <2>2 DEF ClearAllQueues
<1>3. UNCHANGED <<loop, stream, messages, consumer>>
  BY DEF ClearAllQueues
<1> QED
  BY <1>2, <1>3, ExactFrame

LEMMA ExactReset ==
    ASSUME Typed, OneRun, Exact, Reset
    PROVE  Exact'
<1>1. \A r \in Runs : consumer'[r] # "consuming"
  BY OnlyRun DEF Reset
<1>2. messages' = <<>> /\ steeringQueue' = <<>> /\ followUpQueue' = <<>> /\ owed' = {}
  BY DEF Reset
<1> QED
  BY <1>1, <1>2, EmptyRests DEF Exact, Resting

LEMMA ExactDrops ==
    ASSUME Typed, OneRun, Exact, DropFailure
    PROVE  Exact'
<1> DEFINE kept == Front(messages)  last == Last(messages)  n == Len(messages)
<1>1. LoopsTyped /\ AgentTyped
  BY TypedParts
<1>2. \A r \in Runs : consumer[r] # "consuming" /\ consumer'[r] # "consuming"
  BY OnlyRun DEF DropFailure
<1>3. Resting
  BY <1>2 DEF Exact
<1>4. /\ messages \in Seq(MessageSet) /\ messages # <<>> /\ last = Message("assistant", 0, "error")
      /\ messages' = kept /\ UNCHANGED <<steeringQueue, followUpQueue, owed, inputs>>
  BY <1>1 DEF DropFailure, loopVars, AgentTyped
<1>5. /\ last.kind = "error" /\ last.role = "assistant" /\ last = messages[n] /\ n \in Nat /\ n > 0
      /\ last \in MessageSet
  <2>1. n \in Nat /\ n > 0 /\ last = messages[n] /\ messages[n] \in MessageSet
    BY <1>4 DEF Last
  <2>2. last.kind = "error" /\ last.role = "assistant"
    BY <1>4 DEF Message
  <2> QED
    BY <2>1, <2>2
<1>6. /\ kept \in Seq(MessageSet) /\ Len(kept) = n - 1 /\ \A i \in 1..(n - 1) : kept[i] = messages[i]
      /\ messages = Append(kept, last)
  <2>1. kept \in Seq(MessageSet) /\ Len(kept) = n - 1 /\ \A i \in 1..(n - 1) : kept[i] = messages[i]
    <3>1. kept = SubSeq(messages, 1, n - 1)
      BY DEF Front
    <3>2. 1 \in 1..(n + 1) /\ n - 1 \in 0..n /\ (n - 1) - 1 + 1 = n - 1
      BY <1>5
    <3> QED
      BY <1>4, <3>1, <3>2, SubSeqProperties
  <2> HIDE DEF kept, last
  <2>2. messages = Append(kept, last)
    BY <1>4, <1>5, <2>1
  <2> QED
    BY <2>1, <2>2
<1> HIDE DEF kept, last
<1>7. AnsweredTo(kept, Len(kept))
  <2> SUFFICES ASSUME NEW i \in 1..(n - 1), kept[i].kind = "toolUse", NEW call \in 1..kept[i].n
               PROVE  i + call <= n - 1 /\ kept[i + call].role = "toolResult" /\ kept[i + call].n = call
    BY <1>6 DEF AnsweredTo, AnsweredIn
  <2>1. i \in 1..n /\ kept[i] = messages[i]
    BY <1>5, <1>6
  <2>2. /\ i + call <= n /\ messages[i + call].role = "toolResult" /\ messages[i + call].n = call
    BY <1>3, <2>1 DEF Resting, AnsweredTo, AnsweredIn
  <2>3. i + call # n
    BY <1>5, <2>2
  <2>4. kept[i].n \in Int
    BY <1>6, Numbers
  <2>5. i + call \in 1..(n - 1)
    BY <1>5, <2>2, <2>3, <2>4
  <2> QED
    BY <1>6, <2>2, <2>5
<1>8. SkipsLead(kept, <<>>)
  <2> SUFFICES ASSUME NEW i \in 1..(n - 1), kept[i].kind = "skipped"
               PROVE  i < n - 1 /\ kept[i + 1].kind \in {"skipped", "steer"}
    BY <1>6 DEF SkipsLead
  <2>1. i \in 1..n /\ kept[i] = messages[i] /\ i < n
    BY <1>5, <1>6
  <2>2. messages[i + 1].kind \in {"skipped", "steer"}
    BY <1>3, <2>1 DEF Resting, SkipsLead
  <2>3. i + 1 # n
    BY <1>5, <2>2
  <2>4. i < n - 1 /\ i + 1 \in 1..(n - 1)
    BY <1>5, <2>3
  <2> QED
    BY <1>6, <2>2, <2>4
<1>9. Flow(kept, <<>>, steeringQueue, followUpQueue, owed, inputs)
  <2>1. FlowArgs(kept, <<>>, steeringQueue, followUpQueue)
    <3>1. <<>> \in Seq(MessageSet)
      OBVIOUS
    <3> QED
      BY <1>1, <1>6, <3>1, QueueArgs
  <2>2. Flow(Append(kept, last), <<>>, steeringQueue, followUpQueue, owed, inputs)
    BY <1>3, <1>6, Zenon DEF Resting
  <2> QED
    BY <1>5, <1>6, <2>1, <2>2, FlowDropped
<1> QED
  BY <1>2, <1>4, <1>7, <1>8, <1>9 DEF Exact, Resting

\* A run that starts: it tells its consumer of the prompts and holds what it polled.
LEMMA ExactStarts ==
    ASSUME Typed, Grammar, OneRun, Exact, NEW r \in Runs, NEW prompts \in Seq(UserMessages),
           AllKind(prompts, "prompt"), runningPrompt = {},
           RunLoop(r), StartLoop(r, messages, prompts), inputs' \in {inputs, inputs + 1},
           UNCHANGED <<messages, owed>>
    PROVE  Exact'
<1> DEFINE before == messages \o prompts
           taken == Popped(steeringQueue, SteeringMode)
           rest == Rest(steeringQueue, SteeringMode)
<1>1. LoopsTyped /\ AgentTyped /\ messages \in Seq(MessageSet)
  BY TypedParts DEF AgentTyped
<1>2. (\A q \in Runs : consumer[q] # "consuming") /\ Resting
  BY OnlyRun DEF Exact
<1>3. /\ consumer' = [consumer EXCEPT ![r] = "consuming"] /\ consumer'[r] = "consuming"
      /\ \A q \in Runs \ {r} : consumer'[q] # "consuming"
  BY <1>1, <1>2 DEF RunLoop, AgentTyped
<1>4. /\ prompts \in Seq(MessageSet)
      /\ Delivers(messages, stream'[r], messages \o prompts)
      /\ Told(loop'[r]) = messages \o prompts /\ Held(loop'[r]) = Steering
      /\ Orderly(loop'[r])
  BY <1>1, <1>2, StartLoopTells DEF Resting
<1>5. /\ Steering = taken /\ steeringQueue' = rest /\ followUpQueue' = followUpQueue
      /\ taken \in Seq(MessageSet) /\ rest \in Seq(MessageSet) /\ steeringQueue = taken \o rest
      /\ followUpQueue \in Seq(MessageSet)
  <2>1. Steering = taken /\ steeringQueue' = rest /\ followUpQueue' = followUpQueue
    BY DEF StartLoop, Steering, PollSteering
  <2>2. taken \in Seq(MessageSet) /\ rest \in Seq(MessageSet) /\ steeringQueue = taken \o rest
    BY <1>1, PoppedRest DEF LoopsTyped
  <2> QED
    BY <1>1, <2>1, <2>2, QueueArgs
<1> HIDE DEF taken, rest
<1>6. before \in Seq(MessageSet) /\ <<>> \in Seq(MessageSet)
  BY <1>1, <1>4, ConcatProperties
<1>7. Plain(prompts)
  BY DEF Plain, AllKind
<1>8. Flow(before, <<>>, steeringQueue, followUpQueue, owed, inputs)
  <2>1. FlowArgs(messages, <<>>, steeringQueue, followUpQueue)
    BY <1>1, <1>6, QueueArgs
  <2>2. Flow(messages, <<>>, steeringQueue, followUpQueue, owed, inputs)
    BY <1>2 DEF Resting
  <2> QED
    BY <1>4, <1>7, <2>1, <2>2, FlowPlain
<1> HIDE DEF before
<1>9. Flow(before, taken, rest, followUpQueue, owed, inputs)
  <2>1. /\ FlowArgs(before, <<>>, taken \o rest, followUpQueue)
        /\ Flow(before, <<>>, taken \o rest, followUpQueue, owed, inputs)
    <3>1. FlowArgs(before, <<>>, steeringQueue, followUpQueue)
      BY <1>1, <1>6, QueueArgs
    <3> QED
      BY <1>5, <1>8, <3>1, Zenon
  <2> QED
    BY <1>5, <2>1, FlowSteered
<1>10. Flow(before, taken, rest, followUpQueue, owed, inputs')
  <2>1. inputs \in Int
    BY <1>1, AgentAssumption DEF AgentTyped
  <2>2. FlowArgs(before, taken, rest, followUpQueue)
    BY <1>5, <1>6 DEF FlowArgs
  <2>3. Flow(before, taken, rest, followUpQueue, owed, inputs + 1)
    BY <1>9, <2>1, <2>2, FlowSameDue
  <2>4. inputs' = inputs \/ inputs' = inputs + 1
    OBVIOUS
  <2> QED
    BY <1>9, <2>3, <2>4
<1>11. Following(r)'
  <2>1. Told(loop'[r]) = before /\ Held(loop'[r]) = taken /\ Delivers(messages', stream'[r], before)
    BY <1>4, <1>5 DEF before
  <2>2. Flow(Told(loop'[r]), Held(loop'[r]), steeringQueue', followUpQueue', owed', inputs')
    BY <1>5, <1>10, <2>1
  <2> QED
    BY <1>4, <2>1, <2>2 DEF Following
<1> QED
  BY <1>3, <1>11 DEF Exact

LEMMA ExactCalls ==
    ASSUME ~EarlyPrompts, Typed, Grammar, OneRun, Exact, Calling
    PROVE  Exact'
<1>1. LoopsTyped /\ AgentTyped
  BY TypedParts
<1>2. CASE Abort
  BY <1>2, ExactFrame DEF Abort, agentVars
<1>3. ASSUME NEW r \in Runs, Prompt(r)
      PROVE  Exact'
  <2> DEFINE prompts == <<Sent("prompt")>>
  <2>1. runningPrompt = {}
    BY <1>3 DEF Prompt, PromptGuard, MayCall
  <2>2. Sent("prompt") \in UserMessages /\ Sent("prompt").kind = "prompt"
    BY <1>1, <1>3, SentType, SentIs DEF Prompt
  <2>3. prompts \in Seq(UserMessages) /\ AllKind(prompts, "prompt")
    BY <2>2 DEF AllKind
  <2>4. /\ RunLoop(r) /\ StartLoop(r, messages, prompts) /\ inputs' = inputs + 1
        /\ UNCHANGED <<messages, owed>>
    BY <1>3 DEF Prompt
  <2> HIDE DEF prompts
  <2> QED
    BY <2>1, <2>3, <2>4, ExactStarts
<1>4. ASSUME NEW r \in Runs, Continue(r)
      PROVE  Exact'
  <2> DEFINE prompts == <<>>
  <2>1. runningPrompt = {}
    BY <1>4 DEF Continue, PromptGuard, MayCall
  <2>2. prompts \in Seq(UserMessages) /\ AllKind(prompts, "prompt")
    BY DEF AllKind
  <2>3. /\ RunLoop(r) /\ StartLoop(r, messages, prompts) /\ inputs' = inputs
        /\ UNCHANGED <<messages, owed>>
    BY <1>4 DEF Continue
  <2> HIDE DEF prompts
  <2> QED
    BY <2>1, <2>2, <2>3, ExactStarts
<1> QED
  BY <1>2, <1>3, <1>4, ExactSteer, ExactFollowUp, ExactClears, ExactReset, ExactDrops DEF Calling

LEMMA ExactConsume ==
    ASSUME Typed, OneRun, Exact, NEW r \in Runs, Consume(r)
    PROVE  Exact'
<1>1. LoopsTyped /\ AgentTyped
  BY TypedParts
<1>2. /\ stream[r] \in Seq(EventSet) /\ stream[r] # <<>> /\ consumer[r] = "consuming"
      /\ stream' = [stream EXCEPT ![r] = Tail(stream[r])]
      /\ messages' = Taken(messages, Head(stream[r]))
      /\ UNCHANGED <<loop, consumer, steeringQueue, followUpQueue, owed, inputs>>
  BY <1>1 DEF Consume, Take, LoopsTyped, Transcript, Taken
<1>3. stream'[r] = Tail(stream[r])
  BY <1>1, <1>2 DEF LoopsTyped
<1>4. Following(r)
  BY <1>2 DEF Exact
<1>5. Delivers(messages', stream'[r], Told(loop[r]))
  BY <1>2, <1>3, <1>4, DeliversTail DEF Following
<1>6. Following(r)'
  BY <1>2, <1>4, <1>5 DEF Following
<1>7. \A q \in Runs : consumer'[q] = "consuming" => q = r
  BY <1>2, OnlyRun
<1> QED
  BY <1>2, <1>6, <1>7 DEF Exact

\* A run that is over leaves a transcript the next one may start from.
LEMMA ExactFinish ==
    ASSUME Typed, OneRun, Exact, NEW r \in Runs, Finish(r)
    PROVE  Exact'
<1> DEFINE l == loop[r]
<1>1. LoopsTyped /\ AgentTyped /\ LoopShape(l)
  BY TypedParts DEF LoopsTyped
<1>2. /\ consumer[r] = "consuming" /\ stream[r] = <<>> /\ l.pc = "ended"
      /\ consumer' = [consumer EXCEPT ![r] = "none"]
      /\ UNCHANGED <<messages, steeringQueue, followUpQueue, owed, inputs>>
  BY DEF Finish
<1>3. Following(r)
  BY <1>2 DEF Exact
<1>4. Told(l) = messages
  BY <1>2, <1>3, DeliversEnds DEF Following
<1>5. Orderly(l)
  BY <1>3 DEF Following
<1> HIDE DEF l
<1>6. l.pending = <<>> /\ l.steering = <<>> /\ AnsweredTo(Told(l), Len(Told(l))) /\ SkipsLead(Told(l), Held(l))
  BY <1>2, <1>5 DEF Orderly, InTools
<1>7. Held(l) = <<>>
  BY <1>1, <1>6, ToldParts
<1>8. Flow(messages, <<>>, steeringQueue, followUpQueue, owed, inputs)
  BY <1>3, <1>4, <1>7 DEF Following, l
<1>9. Resting'
  BY <1>2, <1>4, <1>6, <1>7, <1>8 DEF Resting
<1>10. \A q \in Runs : consumer'[q] # "consuming"
  BY <1>1, <1>2, OnlyRun DEF AgentTyped
<1> QED
  BY <1>9, <1>10 DEF Exact

LEMMA ExactLoop ==
    ASSUME Typed, Grammar, OneRun, Exact, NEW r \in Runs, LoopStep(r) \/ LoopIO(r), UNCHANGED agentVars
    PROVE  Exact'
<1>1. LoopsTyped /\ AgentTyped
  BY TypedParts
<1>2. loop[r].pc # "none" /\ LoopShape(loop[r]) /\ stream[r] \in Seq(EventSet)
  BY <1>1, LoopMoves DEF Moves, LoopsTyped
<1>3. consumer[r] = "consuming" /\ UNCHANGED <<messages, consumer, owed, inputs>>
  BY <1>2 DEF Grammar, OneRun, agentVars
<1>4. Following(r)
  BY <1>3 DEF Exact
<1>5. \A i \in 1..Len(steeringQueue) : steeringQueue[i].kind = "steer"
  BY <1>4 DEF Following, Flow, AllKind
<1>6. Advances(r)
  BY <1>1, <1>4, <1>5, LoopAdvances DEF Following
<1>7. PICK events \in Seq(EventSet), told \in Seq(MessageSet) :
          /\ stream' = [stream EXCEPT ![r] = stream[r] \o events]
          /\ Brings(events, told)
          /\ Carries(loop[r], loop'[r], told)
  BY <1>6 DEF Advances
<1>8. stream'[r] = stream[r] \o events
  BY <1>1, <1>7 DEF LoopsTyped
<1>9. Delivers(messages', stream'[r], Told(loop'[r]))
  <2>1. Told(loop[r]) \in Seq(MessageSet)
    BY <1>2, ToldParts
  <2>2. Delivers(messages, stream[r], Told(loop[r])) /\ Told(loop'[r]) = Told(loop[r]) \o told
    BY <1>4, <1>7 DEF Following, Carries
  <2>3. Delivers(messages, stream[r] \o events, Told(loop[r]) \o told)
    BY <1>2, <1>7, <2>1, <2>2, DeliversPush
  <2> QED
    BY <1>3, <1>8, <2>2, <2>3
<1>10. Flow(Told(loop'[r]), Held(loop'[r]), steeringQueue', followUpQueue', owed, inputs)
  <2>1. Flow(Told(loop[r]), Held(loop[r]), steeringQueue, followUpQueue, owed, inputs)
    BY <1>4 DEF Following
  <2> QED
    BY <1>1, <1>2, <1>7, <2>1, FlowCarried
<1>11. Following(r)'
  BY <1>3, <1>6, <1>9, <1>10 DEF Following, Advances
<1>12. \A q \in Runs : consumer'[q] = "consuming" => q = r
  BY <1>3, OnlyRun
<1> QED
  BY <1>3, <1>11, <1>12 DEF Exact

LEMMA ExactStep ==
    ASSUME ~EarlyPrompts, ~ListenersThrow, Typed, Grammar, OneRun, Exact, [Next]_vars
    PROVE  Exact'
<1>1. CASE UNCHANGED vars
  BY <1>1, ExactFrame DEF vars, loopVars, agentVars
<1>2. ASSUME NEW r \in Runs, Collect(r)
      PROVE  Exact'
  BY <1>2 DEF Collect, OneRun
<1>3. ASSUME NEW r \in Runs, ListenerThrows(r)
      PROVE  Exact'
  BY <1>3 DEF ListenerThrows
<1> QED
  BY <1>1, <1>2, <1>3, ExactCalls, ExactConsume, ExactFinish, ExactLoop DEF Next, Consuming

\* What the consumer has and what it will get are what the loop told it.
LEMMA CompletesTold ==
    ASSUME Typed, NEW r \in Runs, Following(r)
    PROVE  Completed(stream[r]) \in Seq(MessageSet) /\ messages \o Completed(stream[r]) = Told(loop[r])
<1>1. stream[r] \in Seq(EventSet)
  BY TypedParts DEF LoopsTyped
<1>2. PICK ms \in Seq(MessageSet) : Told(loop[r]) = messages \o ms /\ Delivers(<<>>, stream[r], ms)
  BY <1>1, DeliversAdds DEF Following
<1>3. Completed(stream[r]) = ms
  BY <1>1, <1>2, DeliversCompleted
<1> QED
  BY <1>2, <1>3

LEMMA MirrorsContext ==
    ASSUME Typed, Exact
    PROVE  TranscriptMirrorsContext
<1> SUFFICES ASSUME NEW r \in Runs, consumer[r] = "consuming"
             PROVE  messages \o Completed(stream[r]) = Known(r)
  BY DEF TranscriptMirrorsContext
<1>1. messages \o Completed(stream[r]) = Told(loop[r])
  BY CompletesTold DEF Exact
<1> QED
  BY <1>1 DEF Known, Told

LEMMA AnswersRequests ==
    ASSUME Typed, Grammar, OneRun, Exact
    PROVE  RequestsAnswered
<1> SUFFICES ASSUME NEW r \in Runs, loop[r].pc = "response"
             PROVE  LET context == loop[r].context
                    IN  /\ loop[r].partial \/ Paired(context)
                        /\ \A i \in DOMAIN context : context[i].kind = "skipped" =>
                               i < Len(context) /\ context[i + 1].kind \in {"skipped", "steer"}
  BY DEF RequestsAnswered
<1> DEFINE l == loop[r]
           context == l.context
<1>1. LoopShape(l)
  BY TypedParts DEF LoopsTyped
<1>2. consumer[r] = "consuming"
  BY DEF Grammar, OneRun
<1>3. Orderly(l)
  BY <1>2 DEF Exact, Following
<1>4. l.pc = "response"
  OBVIOUS
<1> HIDE DEF l
<1>5. /\ l.results = <<>> /\ l.pending = <<>> /\ l.steering = <<>> /\ (l.partial => Last(context) = Partial)
      /\ AnsweredTo(Told(l), Len(Told(l))) /\ SkipsLead(Told(l), Held(l))
  BY <1>3, <1>4 DEF Orderly, InTools
<1>6. Held(l) = <<>> /\ context \in Seq(MessageSet)
  BY <1>1, <1>5, ToldParts
<1>7. SkipsLead(Told(l), <<>>)
  BY <1>5, <1>6
<1>8. DOMAIN context = 1..Len(context) /\ Len(context) \in Nat
  BY <1>6
<1>9. CASE ~l.partial
  <2>1. Told(l) = context
    BY <1>1, <1>5, <1>9, ToldParts
  <2>2. Paired(context)
    BY <1>5, <1>8, <2>1 DEF Paired, AnsweredTo, AnsweredIn
  <2>3. \A i \in DOMAIN context : context[i].kind = "skipped" =>
            i < Len(context) /\ context[i + 1].kind \in {"skipped", "steer"}
    BY <1>7, <1>8, <2>1 DEF SkipsLead
  <2> QED
    BY <2>2, <2>3 DEF l
<1>10. CASE l.partial
  <2> DEFINE told == Front(context)  n == Len(context)
  <2>1. Told(l) = told /\ context # <<>>
    BY <1>1, <1>5, <1>10, ToldParts DEF LoopShape
  <2>2. n \in Nat /\ n > 0 /\ context[n] = Partial
    BY <1>5, <1>6, <1>10, <2>1 DEF Last
  <2>3. Len(told) = n - 1 /\ \A i \in 1..(n - 1) : told[i] = context[i]
    <3>1. told = SubSeq(context, 1, n - 1)
      BY DEF Front
    <3> HIDE DEF context
    <3>2. 1 \in 1..(n + 1) /\ n - 1 \in 0..n /\ (n - 1) - 1 + 1 = n - 1
      BY <2>2
    <3> QED
      BY <1>6, <3>1, <3>2, SubSeqProperties
  <2> HIDE DEF told
  <2>4. SkipsLead(told, <<>>)
    BY <1>7, <2>1
  <2>5. ASSUME NEW i \in 1..n, context[i].kind = "skipped"
        PROVE  i < n /\ context[i + 1].kind \in {"skipped", "steer"}
    <3>1. i # n
      BY <2>2, <2>5 DEF Partial, Message
    <3>2. i \in 1..(n - 1)
      BY <2>2, <3>1
    <3>3. i < n - 1 /\ told[i + 1].kind \in {"skipped", "steer"}
      BY <2>3, <2>4, <2>5, <3>2 DEF SkipsLead
    <3>4. i + 1 \in 1..(n - 1) /\ i < n
      BY <2>2, <3>2, <3>3
    <3> QED
      BY <2>3, <3>3, <3>4
  <2> QED
    BY <1>8, <1>10, <2>5 DEF l
<1> QED
  BY <1>9, <1>10

\* The line a queue ends, while a run goes on and while none does.
LEMMA LineFollows ==
    ASSUME Typed, OneRun, NEW r \in Runs, consumer[r] = "consuming", Following(r), NEW queue \in Seq(MessageSet)
    PROVE  Line(queue) = (Told(loop[r]) \o Held(loop[r])) \o queue
<1> DEFINE current == {q \in Runs : consumer[q] = "consuming"}
           seen == Completed(stream[r])
           held == Held(loop[r])
<1>1. current = {r}
  BY OnlyRun
<1>2. (CHOOSE q \in current : TRUE) = r /\ current # {}
  BY <1>1
<1>3. LoopShape(loop[r]) /\ messages \in Seq(MessageSet)
  BY TypedParts DEF LoopsTyped, AgentTyped
<1>4. /\ seen \in Seq(MessageSet) /\ messages \o seen = Told(loop[r]) /\ held \in Seq(MessageSet)
      /\ held = loop[r].pending \o loop[r].steering
  <2>1. seen \in Seq(MessageSet) /\ messages \o seen = Told(loop[r])
    BY CompletesTold
  <2>2. held \in Seq(MessageSet)
    BY <1>3, ToldParts
  <2>3. held = loop[r].pending \o loop[r].steering
    BY DEF Held
  <2> QED
    BY <2>1, <2>2, <2>3
<1>5. Line(queue) = (messages \o (seen \o held)) \o queue
  <2>1. Line(queue) =
            (messages \o (IF current = {} THEN <<>>
                          ELSE LET q == CHOOSE q \in current : TRUE
                               IN  Completed(stream[q]) \o (loop[q].pending \o loop[q].steering))) \o queue
    BY DEF Line
  <2> HIDE DEF current
  <2> QED
    BY <1>2, <2>1 DEF Held
<1> HIDE DEF seen, held
<1>6. messages \o (seen \o held) = (messages \o seen) \o held
  BY <1>3, <1>4, Regroup, Zenon
<1> QED
  BY <1>4, <1>5, <1>6 DEF held

LEMMA LineRests ==
    ASSUME Typed, \A r \in Runs : consumer[r] # "consuming", NEW queue
    PROVE  Line(queue) = (messages \o <<>>) \o queue
<1>1. {q \in Runs : consumer[q] = "consuming"} = {}
  OBVIOUS
<1> QED
  BY <1>1 DEF Line

LEMMA QueuesInOrder ==
    ASSUME Typed, OneRun, Exact
    PROVE  QueuedOnceInOrder
<1>1. LoopsTyped /\ AgentTyped
  BY TypedParts
<1>2. steeringQueue \in Seq(MessageSet) /\ followUpQueue \in Seq(MessageSet)
  BY <1>1, QueueArgs
<1>3. CASE \E r \in Runs : consumer[r] = "consuming"
  <2>1. PICK r \in Runs : consumer[r] = "consuming"
    BY <1>3
  <2>2. Following(r)
    BY <2>1 DEF Exact
  <2>3. /\ Line(steeringQueue) = (Told(loop[r]) \o Held(loop[r])) \o steeringQueue
        /\ Line(followUpQueue) = (Told(loop[r]) \o Held(loop[r])) \o followUpQueue
    BY <1>2, <2>1, <2>2, LineFollows
  <2> QED
    BY <2>2, <2>3 DEF Following, Flow, QueuedOnceInOrder
<1>4. CASE \A r \in Runs : consumer[r] # "consuming"
  <2>1. Resting
    BY <1>4 DEF Exact
  <2>2. /\ Line(steeringQueue) = (messages \o <<>>) \o steeringQueue
        /\ Line(followUpQueue) = (messages \o <<>>) \o followUpQueue
    BY <1>4, LineRests
  <2> QED
    BY <2>1, <2>2 DEF Resting, Flow, QueuedOnceInOrder
<1> QED
  BY <1>3, <1>4

\* What the three theorems below share: the invariant holds, step by step.
LEMMA ExactAlways ==
    ASSUME ~EarlyPrompts, ~ListenersThrow
    PROVE  /\ Init => Typed /\ Grammar /\ OneRun /\ Exact
           /\ Typed /\ Grammar /\ OneRun /\ Exact /\ [Next]_vars => (Typed /\ Grammar /\ OneRun /\ Exact)'
<1>1. Init => Typed /\ Grammar /\ OneRun /\ Exact
  BY TypedInit, OneRunInit, ExactInit
<1>2. Typed /\ Grammar /\ OneRun /\ Exact /\ [Next]_vars => (Typed /\ Grammar /\ OneRun /\ Exact)'
  BY TypedStep, OneRunStep, ExactStep
<1> QED
  BY <1>1, <1>2

\* The agent's transcript is the context its LLM sees: for every number of runs,
\* calls and responses, and whatever callers, hooks and aborts do meanwhile, the
\* transcript followed by the messages the stream still carries is what the loop
\* works with.  Callers wait for a run to be over before they start the next one.
THEOREM MirrorHolds ==
    ASSUME ~EarlyPrompts, ~ListenersThrow
    PROVE  Spec => []TranscriptMirrorsContext
<1>1. /\ Init => Typed /\ Grammar /\ OneRun /\ Exact
      /\ Typed /\ Grammar /\ OneRun /\ Exact /\ [Next]_vars => (Typed /\ Grammar /\ OneRun /\ Exact)'
  BY ExactAlways
<1>2. Typed /\ Grammar /\ OneRun /\ Exact => TranscriptMirrorsContext
  BY MirrorsContext
<1> QED
  BY <1>1, <1>2, PTL DEF Spec

\* No response is asked for while a tool call of the context has no result, on
\* any path of the loop - steering interruptions that skip calls, aborts and
\* retries included - and skipped results are followed by the message that
\* caused them before the LLM is asked again.
THEOREM AnswersHold ==
    ASSUME ~EarlyPrompts, ~ListenersThrow
    PROVE  Spec => []RequestsAnswered
<1>1. /\ Init => Typed /\ Grammar /\ OneRun /\ Exact
      /\ Typed /\ Grammar /\ OneRun /\ Exact /\ [Next]_vars => (Typed /\ Grammar /\ OneRun /\ Exact)'
  BY ExactAlways
<1>2. Typed /\ Grammar /\ OneRun /\ Exact => RequestsAnswered
  BY AnswersRequests
<1> QED
  BY <1>1, <1>2, PTL DEF Spec

\* steer() and followUp() lose, repeat and reorder nothing: a message not
\* withdrawn by clearAllQueues() or reset() is in its queue, in the run, or in the
\* transcript, exactly once and in the order of the calls, in both queue modes.
THEOREM QueuesExact ==
    ASSUME ~EarlyPrompts, ~ListenersThrow
    PROVE  Spec => []QueuedOnceInOrder
<1>1. Typed /\ Grammar /\ OneRun /\ Exact => QueuedOnceInOrder
  BY QueuesInOrder
<1> QED
  BY ExactAlways, <1>1, PTL DEF Spec

================================================================================
