----------------------------- MODULE FrontEndProofs -----------------------------
(***************************************************************************)
(* What the maps of the RPC client and of the RPC mode hold, and whose      *)
(* events a caller collects, for every number of calls and dialogs; and    *)
(* what the terminal shows, for every height, content and order of renders. *)
(***************************************************************************)
EXTENDS Rpc, Renderer, SequenceLemmas, TLAPS

\* Whose request a response answers was noted before it was written.
Replied == \A i \in DOMAIN toClient : toClient[i].type = "response" => toClient[i].of \in replied \cup {"none"}

\* RpcExact is inductive together with that: a response on its way is true.
RpcInv == RpcExact /\ Replied

-------------------------------------------------------------------------------
(* The pipes. *)

LEMMA ThoseOfAppend ==
    ASSUME NEW S, NEW s \in Seq(S), NEW line \in S, NEW types
    PROVE  /\ Those(s, types) \subseteq Those(Append(s, line), types)
           /\ line.type \in types => line.of \in Those(Append(s, line), types)
<1>1. /\ Append(s, line) \in Seq(S) /\ Len(Append(s, line)) = Len(s) + 1 /\ Len(s) \in Nat
      /\ \A i \in 1..Len(s) : Append(s, line)[i] = s[i]
      /\ Append(s, line)[Len(s) + 1] = line
  BY AppendProperties
<1>2. DOMAIN s = 1..Len(s) /\ DOMAIN Append(s, line) = 1..(Len(s) + 1)
  BY <1>1
<1>3. \A i \in DOMAIN s : i \in DOMAIN Append(s, line) /\ Append(s, line)[i] = s[i]
  BY <1>1, <1>2
<1>4. Len(s) + 1 \in DOMAIN Append(s, line)
  BY <1>1, <1>2
<1> QED
  BY <1>1, <1>3, <1>4 DEF Those

LEMMA ThoseOfConcat ==
    ASSUME NEW S, NEW s \in Seq(S), NEW t \in Seq(S), NEW types
    PROVE  /\ Those(s, types) \subseteq Those(s \o t, types)
           /\ Those(t, types) \subseteq Those(s \o t, types)
<1>1. /\ s \o t \in Seq(S) /\ Len(s \o t) = Len(s) + Len(t) /\ Len(s) \in Nat /\ Len(t) \in Nat
      /\ \A i \in 1..(Len(s) + Len(t)) :
             (s \o t)[i] = IF i <= Len(s) THEN s[i] ELSE t[i - Len(s)]
  BY ConcatProperties
<1>2. DOMAIN s = 1..Len(s) /\ DOMAIN t = 1..Len(t) /\ DOMAIN (s \o t) = 1..(Len(s) + Len(t))
  BY <1>1
<1>3. \A i \in DOMAIN s : i \in DOMAIN (s \o t) /\ (s \o t)[i] = s[i]
  BY <1>1, <1>2
<1>4. ASSUME NEW i \in DOMAIN t PROVE \E j \in DOMAIN (s \o t) : (s \o t)[j] = t[i]
  <2>1. Len(s) + i \in DOMAIN (s \o t) /\ (s \o t)[Len(s) + i] = t[i]
    BY <1>1, <1>2
  <2> QED
    BY <2>1
<1>5. Those(s, types) \subseteq Those(s \o t, types)
  BY <1>3 DEF Those
<1>6. Those(t, types) \subseteq Those(s \o t, types)
  BY <1>4 DEF Those
<1> QED
  BY <1>5, <1>6

LEMMA ThoseOfTail ==
    ASSUME NEW S, NEW s \in Seq(S), s # <<>>, NEW types
    PROVE  /\ Head(s) \in S /\ Tail(s) \in Seq(S) /\ Head(s) = s[1] /\ 1 \in DOMAIN s
           /\ \A i \in DOMAIN Tail(s) : i + 1 \in DOMAIN s /\ Tail(s)[i] = s[i + 1]
           /\ Those(s, types) \subseteq Those(Tail(s), types) \cup {Head(s).of}
           /\ Head(s).type \notin types => Those(s, types) \subseteq Those(Tail(s), types)
<1>1. /\ Head(s) \in S /\ Tail(s) \in Seq(S) /\ Head(s) = s[1] /\ Len(s) \in Nat \ {0}
      /\ Len(Tail(s)) = Len(s) - 1 /\ \A i \in 1..Len(Tail(s)) : Tail(s)[i] = s[i + 1]
  BY HeadTailProperties, EmptySeq
<1>2. DOMAIN s = 1..Len(s) /\ DOMAIN Tail(s) = 1..(Len(s) - 1)
  BY <1>1
<1>3. ASSUME NEW i \in DOMAIN s PROVE i = 1 \/ \E j \in DOMAIN Tail(s) : Tail(s)[j] = s[i]
  <2>1. CASE i # 1
    <3>1. i - 1 \in DOMAIN Tail(s) /\ Tail(s)[i - 1] = s[i]
      BY <1>1, <1>2, <2>1
    <3> QED
      BY <3>1
  <2> QED
    BY <2>1
<1>4. Those(s, types) \subseteq Those(Tail(s), types) \cup {Head(s).of}
  BY <1>1, <1>3 DEF Those
<1>5. Head(s).type \notin types => Those(s, types) \subseteq Those(Tail(s), types)
  BY <1>1, <1>3 DEF Those
<1> QED
  BY <1>1, <1>2, <1>4, <1>5

\* The agent writes one line, or the two of a refused prompt.
LEMMA OutputProperties ==
    ASSUME RpcInv, NEW lines \in Seq(ClientLine), Output(lines),
           \A i \in DOMAIN lines : lines[i].type = "response" => lines[i].of \in replied' \cup {"none"},
           replied \subseteq replied'
    PROVE  /\ toClient' \in Seq(ClientLine) /\ Replied'
           /\ \A types : Those(toClient, types) \subseteq Those(toClient', types)
           /\ \A types : Those(lines, types) \subseteq Those(toClient', types)
<1>1. toClient \in Seq(ClientLine) /\ toClient' = toClient \o lines
  BY DEF RpcInv, RpcExact, RpcTypeOK, Output
<1>2. /\ toClient' \in Seq(ClientLine) /\ Len(toClient') = Len(toClient) + Len(lines)
      /\ Len(toClient) \in Nat /\ Len(lines) \in Nat
      /\ \A i \in 1..(Len(toClient) + Len(lines)) :
             toClient'[i] = IF i <= Len(toClient) THEN toClient[i] ELSE lines[i - Len(toClient)]
  BY <1>1, ConcatProperties
<1>3. ASSUME NEW i \in DOMAIN toClient', toClient'[i].type = "response"
      PROVE  toClient'[i].of \in replied' \cup {"none"}
  <2>1. i \in 1..(Len(toClient) + Len(lines))
    BY <1>2, <1>3
  <2>2. CASE i <= Len(toClient)
    <3>1. i \in DOMAIN toClient /\ toClient'[i] = toClient[i]
      BY <1>1, <1>2, <2>1, <2>2
    <3> QED
      BY <1>3, <3>1 DEF RpcInv, Replied
  <2>3. CASE i > Len(toClient)
    <3>1. i - Len(toClient) \in DOMAIN lines /\ toClient'[i] = lines[i - Len(toClient)]
      BY <1>1, <1>2, <2>1, <2>3
    <3> QED
      BY <1>3, <3>1
  <2> QED
    BY <1>2, <2>1, <2>2, <2>3
<1>4. \A types : Those(toClient, types) \cup Those(lines, types) \subseteq Those(toClient', types)
  BY <1>1, ThoseOfConcat
<1> QED
  BY <1>2, <1>3, <1>4 DEF Replied

-------------------------------------------------------------------------------
(* The client.  Its actions write toAgent and read toClient. *)

LEMMA RpcInitInv == RpcInit => RpcInv
<1> SUFFICES ASSUME RpcInit PROVE RpcInv
  OBVIOUS
<1>1. DOMAIN toClient = {} /\ DOMAIN eventListeners = {} /\ ToSet(eventListeners) = {}
  BY DEF RpcInit, ToSet
<1>2. RpcTypeOK
  <2>1. \A S : <<>> \in Seq(S)
    OBVIOUS
  <2>2. /\ request \in [Calls -> {"none", "pending", "answered", "timed out"}]
        /\ waiter \in [Calls -> {"none", "waiting", "done", "timed out"}]
        /\ dialog \in [Dialogs -> {"none", "open", "answered", "default"}]
    BY DEF RpcInit
  <2> QED
    BY <2>1, <2>2 DEF RpcInit, RpcTypeOK
<1> QED
  BY <1>1, <1>2 DEF RpcInit, RpcInv, RpcExact, RequestsOpen, AnswersComing, AnswersOwn,
     ListensOnce, DialogsOpen, Replied, IsInjective

\* Nothing that the pipe from the agent and the dialogs have to do with changes.
AgentUnchanged == UNCHANGED <<client, collected, toClient, agentVars, dialogVars>>

LEMMA SendRequestInv ==
    ASSUME RpcInv, NEW c \in Calls, NEW type \in {"prompt", "command"}, SendRequest(c, type),
           AgentUnchanged, tidy' \in BOOLEAN,
           waiter' \in [Calls -> {"none", "waiting", "done", "timed out"}],
           eventListeners' \in Seq(Calls), ListensOnce'
    PROVE  RpcInv'
<1> DEFINE line == Message(type, c)
<1>1. /\ line \in AgentLine /\ line.type = type /\ line.of = c
  BY DEF Message, AgentLine
<1>2. toAgent \in Seq(AgentLine) /\ toAgent' = Append(toAgent, line)
  BY DEF SendRequest, RpcInv, RpcExact, RpcTypeOK
<1> HIDE DEF line
<1>3. /\ toAgent' \in Seq(AgentLine)
      /\ Those(toAgent, {"prompt", "command"}) \cup {c} \subseteq Those(toAgent', {"prompt", "command"})
  BY <1>1, <1>2, AppendProperties, ThoseOfAppend
<1>4. RpcTypeOK'
  BY <1>3 DEF SendRequest, AgentUnchanged, agentVars, dialogVars, RpcInv, RpcExact, RpcTypeOK
<1>5. RequestsOpen' /\ AnswersComing' /\ AnswersOwn' /\ DialogsOpen' /\ Replied'
  <2>1. RequestsOpen'
    BY DEF SendRequest, AgentUnchanged, RpcInv, RpcExact, RpcTypeOK, RequestsOpen
  <2>2. AnswersComing'
    BY <1>3 DEF SendRequest, AgentUnchanged, agentVars, RpcInv, RpcExact, AnswersComing
  <2>3. AnswersOwn'
    BY DEF SendRequest, AgentUnchanged, agentVars, RpcInv, RpcExact, RpcTypeOK, AnswersOwn
  <2>4. DialogsOpen' /\ Replied'
    BY DEF AgentUnchanged, agentVars, dialogVars, RpcInv, RpcExact, DialogsOpen, Replied
  <2> QED
    BY <2>1, <2>2, <2>3, <2>4
<1> QED
  BY <1>4, <1>5 DEF RpcInv, RpcExact

LEMMA ListenInv ==
    ASSUME RpcInv, NEW c \in Calls, waiter[c] = "none", Listen(c)
    PROVE  /\ waiter' \in [Calls -> {"none", "waiting", "done", "timed out"}]
           /\ eventListeners' \in Seq(Calls) /\ ListensOnce'
<1>1. eventListeners \in Seq(Calls) /\ eventListeners' = Append(eventListeners, c)
  BY DEF Listen, RpcInv, RpcExact, RpcTypeOK
<1>2. /\ eventListeners' \in Seq(Calls)
      /\ Len(eventListeners) \in Nat /\ DOMAIN eventListeners = 1..Len(eventListeners)
      /\ DOMAIN eventListeners' = 1..(Len(eventListeners) + 1)
      /\ \A i \in 1..Len(eventListeners) : eventListeners'[i] = eventListeners[i]
      /\ eventListeners'[Len(eventListeners) + 1] = c
  BY <1>1, AppendProperties
<1>3. \A i \in DOMAIN eventListeners : eventListeners[i] # c
  BY DEF RpcInv, RpcExact, ListensOnce, ToSet
<1>4. ToSet(eventListeners') = ToSet(eventListeners) \cup {c}
  BY <1>2 DEF ToSet
<1>5. IsInjective(eventListeners')
  BY <1>2, <1>3 DEF IsInjective, RpcInv, RpcExact, ListensOnce
<1>6. \A d \in Calls : waiter'[d] = "waiting" <=> d = c \/ waiter[d] = "waiting"
  BY DEF Listen, RpcInv, RpcExact, RpcTypeOK
<1>7. ListensOnce'
  BY <1>4, <1>5, <1>6 DEF RpcInv, RpcExact, ListensOnce
<1> QED
  BY <1>2, <1>7 DEF Listen, RpcInv, RpcExact, RpcTypeOK

\* Only the waiters change, or a request that is given up.
LEMMA WaiterInv ==
    ASSUME RpcInv, AgentUnchanged, UNCHANGED <<request, pendingRequests, toAgent, tidy>>,
           waiter' \in [Calls -> {"none", "waiting", "done", "timed out"}],
           eventListeners' \in Seq(Calls), ListensOnce'
    PROVE  RpcInv'
<1>1. RpcTypeOK'
  BY DEF AgentUnchanged, agentVars, dialogVars, RpcInv, RpcExact, RpcTypeOK
<1> QED
  BY <1>1 DEF AgentUnchanged, agentVars, dialogVars, RpcInv, RpcExact, RequestsOpen, AnswersComing,
     AnswersOwn, DialogsOpen, Replied

LEMMA CommandInv ==
    ASSUME RpcInv, NEW c \in Calls, Command(c) \/ Prompt(c) \/ PromptAndWait(c) \/ WaitForIdle(c)
    PROVE  RpcInv'
<1>1. CASE Command(c)
  BY <1>1, SendRequestInv DEF Command, AgentUnchanged, RpcInv, RpcExact, RpcTypeOK, ListensOnce
<1>2. tidy \in BOOLEAN
  BY DEF RpcInv, RpcExact, RpcTypeOK
<1>3. CASE Prompt(c)
  <2>1. tidy' \in BOOLEAN
    BY <1>2, <1>3, Zenon DEF Prompt
  <2> QED
    BY <1>3, <2>1, SendRequestInv DEF Prompt, AgentUnchanged, RpcInv, RpcExact, RpcTypeOK, ListensOnce
<1>4. CASE PromptAndWait(c)
  <2>1. tidy' \in BOOLEAN
    BY <1>2, <1>4, Zenon DEF PromptAndWait
  <2>2. waiter[c] = "none"
    BY <1>4 DEF PromptAndWait, SendRequest
  <2> QED
    BY <1>4, <2>1, <2>2, ListenInv, SendRequestInv DEF PromptAndWait, AgentUnchanged
<1>5. CASE WaitForIdle(c)
  BY <1>5, ListenInv, WaiterInv DEF WaitForIdle, AgentUnchanged
<1> QED
  BY <1>1, <1>3, <1>4, <1>5

LEMMA WaiterTimeoutInv ==
    ASSUME RpcInv, NEW c \in Calls, WaiterTimeout(c)
    PROVE  RpcInv'
<1>1. PICK i \in DOMAIN eventListeners :
          eventListeners[i] = c /\ eventListeners' = RemoveAt(eventListeners, i)
  BY DEF WaiterTimeout
<1>2. eventListeners \in Seq(Calls) /\ IsInjective(eventListeners)
  BY DEF RpcInv, RpcExact, RpcTypeOK, ListensOnce
<1>3. /\ eventListeners' \in Seq(Calls) /\ IsInjective(eventListeners')
      /\ ToSet(eventListeners') = ToSet(eventListeners) \ {c}
  <2>1. i \in 1..Len(eventListeners)
    BY <1>2
  <2> QED
    BY <1>1, <1>2, <2>1, RemoveAtInjective
<1>4. \A d \in Calls : waiter'[d] = "waiting" <=> d # c /\ waiter[d] = "waiting"
  BY DEF WaiterTimeout, RpcInv, RpcExact, RpcTypeOK
<1>5. ListensOnce'
  BY <1>3, <1>4 DEF RpcInv, RpcExact, ListensOnce
<1>6. waiter' \in [Calls -> {"none", "waiting", "done", "timed out"}]
  BY DEF WaiterTimeout, RpcInv, RpcExact, RpcTypeOK
<1> QED
  BY <1>3, <1>5, <1>6, WaiterInv DEF WaiterTimeout, AgentUnchanged

LEMMA RequestTimeoutInv ==
    ASSUME RpcInv, NEW c \in Calls, RequestTimeout(c)
    PROVE  RpcInv'
<1>1. RpcTypeOK'
  BY DEF RequestTimeout, agentVars, dialogVars, RpcInv, RpcExact, RpcTypeOK
<1>2. RequestsOpen' /\ AnswersComing' /\ AnswersOwn'
  BY DEF RequestTimeout, agentVars, RpcInv, RpcExact, RpcTypeOK, RequestsOpen, AnswersComing, AnswersOwn
<1>3. ListensOnce' /\ DialogsOpen' /\ Replied'
  BY DEF RequestTimeout, agentVars, dialogVars, RpcInv, RpcExact, ListensOnce, DialogsOpen, Replied
<1> QED
  BY <1>1, <1>2, <1>3 DEF RpcInv, RpcExact

LEMMA StopInv ==
    ASSUME RpcInv, Stop \/ Stopped \/ Shutdown
    PROVE  RpcInv'
<1>1. RpcTypeOK'
  BY DEF Stop, Stopped, Shutdown, clientVars, agentVars, dialogVars, RpcInv, RpcExact, RpcTypeOK
<1>2. RequestsOpen' /\ AnswersComing' /\ AnswersOwn'
  BY DEF Stop, Stopped, Shutdown, clientVars, agentVars, RpcInv, RpcExact, RequestsOpen, AnswersComing,
     AnswersOwn
<1>3. ListensOnce' /\ DialogsOpen' /\ Replied'
  BY DEF Stop, Stopped, Shutdown, clientVars, agentVars, dialogVars, RpcInv, RpcExact, ListensOnce,
     DialogsOpen, Replied
<1> QED
  BY <1>1, <1>2, <1>3 DEF RpcInv, RpcExact

\* When a run ends, every other listener is told and goes.
LEMMA EndHeard ==
    ASSUME RpcInv, NEW line \in ClientLine, line.type = "end",
           waiter' = [c \in Calls |-> IF c \in Heard(line) THEN "done" ELSE waiter[c]],
           eventListeners' = [i \in 1..(Len(eventListeners) \div 2) |-> eventListeners[2 * i]]
    PROVE  /\ waiter' \in [Calls -> {"none", "waiting", "done", "timed out"}]
           /\ eventListeners' \in Seq(Calls) /\ ListensOnce'
<1> DEFINE n == Len(eventListeners)
           half == n \div 2
           told == {eventListeners[i] : i \in {j \in 1..n : j % 2 = 1}}
<1>1. /\ eventListeners \in Seq(Calls) /\ n \in Nat /\ DOMAIN eventListeners = 1..n
      /\ \A i, j \in 1..n : eventListeners[i] = eventListeners[j] => i = j
      /\ \A i \in 1..n : eventListeners[i] \in Calls
  <2>1. eventListeners \in Seq(Calls) /\ IsInjective(eventListeners)
    BY DEF RpcInv, RpcExact, RpcTypeOK, ListensOnce
  <2>2. n \in Nat /\ DOMAIN eventListeners = 1..n
    BY <2>1
  <2>3. \A i \in 1..n : eventListeners[i] \in Calls
    BY <2>1, ElementOfSeq
  <2> QED
    BY <2>1, <2>2, <2>3 DEF IsInjective
<1>2. Heard(line) = told
  BY <1>1 DEF Heard
<1> HIDE DEF n
<1>3. half \in Nat /\ \A i \in 1..half : 2 * i \in 1..n /\ (2 * i) % 2 # 1
  BY <1>1
<1>4. \A j \in 1..n : j % 2 # 1 => \E i \in 1..half : j = 2 * i
  <2> SUFFICES ASSUME NEW j \in 1..n, j % 2 # 1 PROVE \E i \in 1..half : j = 2 * i
    OBVIOUS
  <2>1. j \div 2 \in 1..half /\ j = 2 * (j \div 2)
    BY <1>1
  <2> QED
    BY <2>1
<1> HIDE DEF half
<1>5. eventListeners' = [i \in 1..half |-> eventListeners[2 * i]]
  BY DEF half, n
<1>6. eventListeners' \in Seq(Calls) /\ DOMAIN eventListeners' = 1..half
  <2>1. \A i \in 1..half : eventListeners[2 * i] \in Calls
    BY <1>1, <1>3
  <2>2. eventListeners' \in [1..half -> Calls]
    BY <1>5, <2>1
  <2> QED
    BY <1>3, <2>2, IsASeq
<1>7. IsInjective(eventListeners')
  BY <1>1, <1>3, <1>5 DEF IsInjective
<1>8. ToSet(eventListeners') = ToSet(eventListeners) \ told
  <2>1. ASSUME NEW i \in 1..half PROVE eventListeners'[i] \in ToSet(eventListeners) \ told
    <3>1. eventListeners'[i] = eventListeners[2 * i] /\ 2 * i \in 1..n /\ (2 * i) % 2 # 1
      BY <1>3, <1>5
    <3>2. \A j \in 1..n : j % 2 = 1 => eventListeners[j] # eventListeners[2 * i]
      BY <1>1, <3>1
    <3> QED
      BY <1>1, <3>1, <3>2 DEF ToSet
  <2>2. ASSUME NEW j \in 1..n, eventListeners[j] \notin told PROVE eventListeners[j] \in ToSet(eventListeners')
    <3>1. PICK i \in 1..half : j = 2 * i
      BY <1>4, <2>2
    <3>2. eventListeners'[i] = eventListeners[j]
      BY <1>5, <3>1
    <3> QED
      BY <1>6, <3>2 DEF ToSet
  <2>3. ToSet(eventListeners') \subseteq ToSet(eventListeners) \ told
    BY <1>6, <2>1 DEF ToSet
  <2>4. ToSet(eventListeners) \ told \subseteq ToSet(eventListeners')
    BY <1>1, <2>2 DEF ToSet
  <2> QED
    BY <2>3, <2>4
<1> HIDE DEF told
<1>9. \A c \in Calls : waiter'[c] = "waiting" <=> c \notin told /\ waiter[c] = "waiting"
  BY <1>2
<1>10. ListensOnce'
  BY <1>7, <1>8, <1>9 DEF RpcInv, RpcExact, ListensOnce
<1> QED
  BY <1>6, <1>10 DEF RpcInv, RpcExact, RpcTypeOK

LEMMA ReceiveInv ==
    ASSUME RpcInv, Receive
    PROVE  RpcInv'
<1> DEFINE line == Head(toClient)
<1>1. /\ line \in ClientLine /\ toClient' \in Seq(ClientLine) /\ line = toClient[1] /\ 1 \in DOMAIN toClient
      /\ \A i \in DOMAIN toClient' : i + 1 \in DOMAIN toClient /\ toClient'[i] = toClient[i + 1]
      /\ Those(toClient, {"response"}) \subseteq Those(toClient', {"response"}) \cup {line.of}
      /\ line.type # "response" => Those(toClient, {"response"}) \subseteq Those(toClient', {"response"})
  BY ThoseOfTail DEF Receive, RpcInv, RpcExact, RpcTypeOK
<1>2. Replied'
  BY <1>1 DEF Receive, agentVars, RpcInv, Replied
<1>3. line.type = "response" => line.of \in replied \cup {"none"}
  BY <1>1 DEF RpcInv, Replied
<1> HIDE DEF line
<1>4. Deliver(line)
  BY DEF Receive, line
<1>5. /\ client = "up" /\ client' = "up" /\ UNCHANGED <<toAgent, agentVars, dialogVars, tidy>>
  BY DEF Receive
<1>6. CASE line.type = "response" /\ line.of \in pendingRequests
  <2>1. line.of \in Calls /\ line.of \in replied
    BY <1>3, <1>6, RpcAssumption DEF RpcInv, RpcExact, RpcTypeOK
  <2>2. /\ request' = [request EXCEPT ![line.of] = "answered"]
        /\ pendingRequests' = pendingRequests \ {line.of}
        /\ UNCHANGED <<waiter, eventListeners, collected>>
    BY <1>4, <1>6 DEF Deliver
  <2>3. RpcTypeOK'
    BY <1>1, <1>5, <2>1, <2>2 DEF agentVars, dialogVars, RpcInv, RpcExact, RpcTypeOK
  <2>4. RequestsOpen'
    BY <1>5, <2>1, <2>2 DEF RpcInv, RpcExact, RpcTypeOK, RequestsOpen
  <2>5. AnswersComing'
    BY <1>1, <1>5, <2>2 DEF agentVars, RpcInv, RpcExact, AnswersComing
  <2>6. AnswersOwn'
    BY <1>5, <2>1, <2>2 DEF agentVars, RpcInv, RpcExact, RpcTypeOK, AnswersOwn
  <2>7. ListensOnce' /\ DialogsOpen'
    BY <1>5, <2>2 DEF dialogVars, RpcInv, RpcExact, ListensOnce, DialogsOpen
  <2> QED
    BY <1>2, <2>3, <2>4, <2>5, <2>6, <2>7 DEF RpcInv, RpcExact
<1>7. CASE ~(line.type = "response" /\ line.of \in pendingRequests)
  <2>1. UNCHANGED <<request, pendingRequests>>
    BY <1>4, <1>7 DEF Deliver
  <2>2. /\ waiter' \in [Calls -> {"none", "waiting", "done", "timed out"}]
        /\ eventListeners' \in Seq(Calls) /\ ListensOnce'
    <3>1. CASE line.type = "end"
      <4>1. /\ waiter' = [c \in Calls |-> IF c \in Heard(line) THEN "done" ELSE waiter[c]]
            /\ eventListeners' = [i \in 1..(Len(eventListeners) \div 2) |-> eventListeners[2 * i]]
        BY <1>4, <1>7, <3>1 DEF Deliver
      <4> QED
        BY <1>1, <3>1, <4>1, EndHeard
    <3>2. CASE line.type # "end"
      <4>1. UNCHANGED <<waiter, eventListeners>>
        BY <1>4, <1>7, <3>2 DEF Deliver
      <4> QED
        BY <4>1 DEF RpcInv, RpcExact, RpcTypeOK, ListensOnce
    <3> QED
      BY <3>1, <3>2
  <2>3. RpcTypeOK'
    BY <1>1, <1>5, <2>1, <2>2 DEF agentVars, dialogVars, RpcInv, RpcExact, RpcTypeOK
  <2>4. AnswersComing'
    BY <1>1, <1>5, <1>7, <2>1 DEF agentVars, RpcInv, RpcExact, AnswersComing
  <2>5. RequestsOpen' /\ AnswersOwn' /\ DialogsOpen'
    BY <1>5, <2>1 DEF agentVars, dialogVars, RpcInv, RpcExact, RequestsOpen, AnswersOwn, DialogsOpen
  <2> QED
    BY <1>2, <2>2, <2>3, <2>4, <2>5 DEF RpcInv, RpcExact
<1> QED
  BY <1>6, <1>7

-------------------------------------------------------------------------------
(* The agent process.  Its actions read toAgent and write toClient. *)

\* One line, whose request is noted if it is a response.
LEMMA OneLine ==
    ASSUME NEW line \in ClientLine
    PROVE  /\ <<line>> \in Seq(ClientLine)
           /\ \A i \in DOMAIN <<line>> : <<line>>[i] = line
           /\ line.type = "response" => line.of \in Those(<<line>>, {"response"})
<1>1. DOMAIN <<line>> = {1} /\ <<line>>[1] = line
  OBVIOUS
<1> QED
  BY <1>1 DEF Those

LEMMA RunEventInv ==
    ASSUME RpcInv, RunEvent
    PROVE  RpcInv'
<1> DEFINE line == Message(IF started THEN "end" ELSE "start", run)
<1>1. run \in Calls /\ line \in ClientLine /\ line.type # "response"
  BY DEF RunEvent, RpcInv, RpcExact, RpcTypeOK, Message, ClientLine, RunLine
<1>2. Output(<<line>>) /\ UNCHANGED <<clientVars, toAgent, alive, handling, replied, dropped, dialogVars, tidy>>
  BY DEF RunEvent
<1> HIDE DEF line
<1>3. /\ toClient' \in Seq(ClientLine) /\ Replied'
      /\ Those(toClient, {"response"}) \subseteq Those(toClient', {"response"})
  BY <1>1, <1>2, OneLine, OutputProperties
<1>4. run' \in Calls \cup {"none"} /\ started' \in BOOLEAN
  BY DEF RunEvent, RpcInv, RpcExact, RpcTypeOK
<1>5. RpcTypeOK'
  BY <1>2, <1>3, <1>4 DEF clientVars, dialogVars, RpcInv, RpcExact, RpcTypeOK
<1>6. AnswersComing'
  BY <1>2, <1>3 DEF clientVars, RpcInv, RpcExact, AnswersComing
<1>7. RequestsOpen' /\ AnswersOwn' /\ ListensOnce' /\ DialogsOpen'
  BY <1>2 DEF clientVars, dialogVars, RpcInv, RpcExact, RequestsOpen, AnswersOwn, ListensOnce, DialogsOpen
<1> QED
  BY <1>3, <1>5, <1>6, <1>7 DEF RpcInv, RpcExact

LEMMA EndCommandInv ==
    ASSUME RpcInv, NEW c \in Calls, EndCommand(c)
    PROVE  RpcInv'
<1>1. PICK of \in {c, "none"} :
          /\ Output(<<Message("response", of)>>)
          /\ replied' = IF of = c THEN replied \cup {c} ELSE replied
          /\ dropped' = IF of = c THEN dropped ELSE dropped \cup {c}
  BY RpcAssumption DEF EndCommand
<1> DEFINE line == Message("response", of)
<1>2. line \in ClientLine /\ line.type = "response" /\ line.of = of
  BY DEF Message, ClientLine
<1> HIDE DEF line
<1>3. Output(<<line>>) /\ UNCHANGED <<clientVars, toAgent, alive, run, started, dialogVars, tidy>>
  BY <1>1 DEF EndCommand, line
<1>4. /\ toClient' \in Seq(ClientLine) /\ Replied'
      /\ Those(toClient, {"response"}) \cup {of} \subseteq Those(toClient', {"response"})
  <2>1. of \in replied' \cup {"none"} /\ replied \subseteq replied'
    BY <1>1
  <2> QED
    BY <1>2, <1>3, <2>1, OneLine, OutputProperties
<1>5. RpcTypeOK'
  BY <1>1, <1>3, <1>4 DEF EndCommand, clientVars, dialogVars, RpcInv, RpcExact, RpcTypeOK
<1>6. AnswersComing'
  BY <1>1, <1>3, <1>4 DEF EndCommand, clientVars, RpcInv, RpcExact, AnswersComing
<1>7. RequestsOpen' /\ AnswersOwn' /\ ListensOnce' /\ DialogsOpen'
  BY <1>1, <1>3 DEF clientVars, dialogVars, RpcInv, RpcExact, RequestsOpen, AnswersOwn, ListensOnce,
     DialogsOpen
<1> QED
  BY <1>4, <1>5, <1>6, <1>7 DEF RpcInv, RpcExact

\* A prompt that is taken or refused.
LEMMA StartPromptInv ==
    ASSUME RpcInv, NEW c \in Calls, StartPrompt(c), alive, UNCHANGED <<clientVars, tidy>>,
           toAgent' \in Seq(AgentLine),
           Those(toAgent, {"prompt", "command"}) \subseteq Those(toAgent', {"prompt", "command"}) \cup {c}
    PROVE  RpcInv'
<1> DEFINE line == Message("response", c)
<1>1. line \in ClientLine /\ line.type = "response" /\ line.of = c
  BY DEF Message, ClientLine
<1>2. \E lines \in {<<line>>, <<line, line>>} : Output(lines)
  BY DEF StartPrompt
<1> HIDE DEF line
<1>3. PICK lines \in Seq(ClientLine) : Output(lines) /\ DOMAIN lines # {} /\ \A i \in DOMAIN lines : lines[i] = line
  <2>1. <<line>> \in Seq(ClientLine) /\ <<line, line>> \in Seq(ClientLine)
    BY <1>1
  <2>2. /\ DOMAIN <<line>> = {1} /\ \A i \in {1} : <<line>>[i] = line
        /\ DOMAIN <<line, line>> = {1, 2} /\ \A i \in {1, 2} : <<line, line>>[i] = line
    OBVIOUS
  <2> QED
    BY <1>2, <2>1, <2>2
<1>4. replied' = replied \cup {c} /\ UNCHANGED <<alive, handling, dropped, dialogVars>>
  BY DEF StartPrompt
<1>5. /\ toClient' \in Seq(ClientLine) /\ Replied'
      /\ Those(toClient, {"response"}) \subseteq Those(toClient', {"response"})
      /\ Those(lines, {"response"}) \subseteq Those(toClient', {"response"})
  BY <1>1, <1>3, <1>4, OutputProperties
<1>6. c \in Those(toClient', {"response"})
  BY <1>1, <1>3, <1>5 DEF Those
<1>7. run' \in Calls \cup {"none"} /\ started' \in BOOLEAN
  BY DEF StartPrompt, RpcInv, RpcExact, RpcTypeOK
<1>8. RpcTypeOK'
  BY <1>4, <1>5, <1>7 DEF clientVars, dialogVars, RpcInv, RpcExact, RpcTypeOK
<1>9. AnswersComing'
  BY <1>4, <1>5, <1>6 DEF clientVars, RpcInv, RpcExact, AnswersComing
<1>10. RequestsOpen' /\ AnswersOwn' /\ ListensOnce' /\ DialogsOpen'
  BY <1>4 DEF clientVars, dialogVars, RpcInv, RpcExact, RequestsOpen, AnswersOwn, ListensOnce, DialogsOpen
<1> QED
  BY <1>5, <1>8, <1>9, <1>10 DEF RpcInv, RpcExact

LEMMA TakeLineInv ==
    ASSUME RpcInv, TakeLine
    PROVE  RpcInv'
<1> DEFINE line == Head(toAgent)
<1>1. /\ line \in AgentLine /\ toAgent' \in Seq(AgentLine)
      /\ Those(toAgent, {"prompt", "command"}) \subseteq Those(toAgent', {"prompt", "command"}) \cup {line.of}
      /\ line.type \notin {"prompt", "command"} =>
             Those(toAgent, {"prompt", "command"}) \subseteq Those(toAgent', {"prompt", "command"})
  BY ThoseOfTail DEF TakeLine, RpcInv, RpcExact, RpcTypeOK
<1>2. /\ alive /\ UNCHANGED <<clientVars, tidy>>
      /\ \/ line.type = "prompt" /\ StartPrompt(line.of)
         \/ line.type = "command" /\ StartCommand(line.of)
         \/ line.type = "answer" /\ TakeAnswer(line.of)
  BY DEF TakeLine
<1> HIDE DEF line
<1>3. CASE line.type = "prompt" /\ StartPrompt(line.of)
  <2>1. line.of \in Calls
    BY <1>1, <1>3 DEF AgentLine
  <2> QED
    BY <1>1, <1>2, <1>3, <2>1, StartPromptInv
<1>4. CASE line.type = "command" /\ StartCommand(line.of)
  <2>1. line.of \in Calls
    BY <1>1, <1>4 DEF AgentLine
  <2>2. RpcTypeOK'
    BY <1>1, <1>2, <1>4, <2>1 DEF StartCommand, clientVars, dialogVars, RpcInv, RpcExact, RpcTypeOK
  <2>3. AnswersComing'
    BY <1>1, <1>2, <1>4 DEF StartCommand, clientVars, RpcInv, RpcExact, AnswersComing
  <2>4. RequestsOpen' /\ AnswersOwn' /\ ListensOnce' /\ DialogsOpen' /\ Replied'
    BY <1>2, <1>4 DEF StartCommand, clientVars, dialogVars, RpcInv, RpcExact, RequestsOpen, AnswersOwn,
       ListensOnce, DialogsOpen, Replied
  <2> QED
    BY <2>2, <2>3, <2>4 DEF RpcInv, RpcExact
<1>5. CASE line.type = "answer" /\ TakeAnswer(line.of)
  <2>1. line.of \in Dialogs
    BY <1>1, <1>5 DEF AgentLine
  <2>2. RpcTypeOK'
    BY <1>1, <1>2, <1>5, <2>1 DEF TakeAnswer, clientVars, agentVars, RpcInv, RpcExact, RpcTypeOK
  <2>3. AnswersComing'
    BY <1>1, <1>2, <1>5 DEF TakeAnswer, clientVars, agentVars, RpcInv, RpcExact, AnswersComing
  <2>4. DialogsOpen'
    BY <1>5, <2>1 DEF TakeAnswer, RpcInv, RpcExact, RpcTypeOK, DialogsOpen
  <2>5. RequestsOpen' /\ AnswersOwn' /\ ListensOnce' /\ Replied'
    BY <1>2, <1>5 DEF TakeAnswer, clientVars, agentVars, RpcInv, RpcExact, RequestsOpen, AnswersOwn,
       ListensOnce, Replied
  <2> QED
    BY <2>2, <2>3, <2>4, <2>5 DEF RpcInv, RpcExact
<1> QED
  BY <1>2, <1>3, <1>4, <1>5

LEMMA DialogInv ==
    ASSUME RpcInv, NEW d \in Dialogs, OpenDialog(d) \/ Reply(d) \/ DialogTimeout(d)
    PROVE  RpcInv'
<1>1. CASE OpenDialog(d)
  <2> DEFINE line == Message("dialog", d)
  <2>1. line \in ClientLine /\ line.type # "response"
    BY DEF Message, ClientLine
  <2>2. Output(<<line>>) /\ UNCHANGED <<clientVars, toAgent, agentVars, tidy>>
    BY <1>1 DEF OpenDialog
  <2> HIDE DEF line
  <2>3. /\ toClient' \in Seq(ClientLine) /\ Replied'
        /\ Those(toClient, {"response"}) \subseteq Those(toClient', {"response"})
    <3>1. replied' = replied
      BY <2>2 DEF agentVars
    <3> QED
      BY <2>1, <2>2, <3>1, OneLine, OutputProperties
  <2>4. RpcTypeOK'
    BY <1>1, <2>2, <2>3 DEF OpenDialog, clientVars, agentVars, RpcInv, RpcExact, RpcTypeOK
  <2>5. AnswersComing'
    BY <2>2, <2>3 DEF clientVars, agentVars, RpcInv, RpcExact, AnswersComing
  <2>6. DialogsOpen'
    BY <1>1 DEF OpenDialog, RpcInv, RpcExact, RpcTypeOK, DialogsOpen
  <2>7. RequestsOpen' /\ AnswersOwn' /\ ListensOnce'
    BY <2>2 DEF clientVars, agentVars, RpcInv, RpcExact, RequestsOpen, AnswersOwn, ListensOnce
  <2> QED
    BY <2>3, <2>4, <2>5, <2>6, <2>7 DEF RpcInv, RpcExact
<1>2. CASE Reply(d)
  <2>1. Message("answer", d) \in AgentLine
    BY DEF Message, AgentLine
  <2>2. /\ toAgent' \in Seq(AgentLine)
        /\ Those(toAgent, {"prompt", "command"}) \subseteq Those(toAgent', {"prompt", "command"})
    BY <1>2, <2>1, AppendProperties, ThoseOfAppend DEF Reply, RpcInv, RpcExact, RpcTypeOK
  <2>3. RpcTypeOK'
    BY <1>2, <2>2 DEF Reply, clientVars, agentVars, dialogVars, RpcInv, RpcExact, RpcTypeOK
  <2>4. AnswersComing'
    BY <1>2, <2>2 DEF Reply, clientVars, agentVars, RpcInv, RpcExact, AnswersComing
  <2>5. RequestsOpen' /\ AnswersOwn' /\ ListensOnce' /\ DialogsOpen' /\ Replied'
    BY <1>2 DEF Reply, clientVars, agentVars, dialogVars, RpcInv, RpcExact, RequestsOpen, AnswersOwn,
       ListensOnce, DialogsOpen, Replied
  <2> QED
    BY <2>3, <2>4, <2>5 DEF RpcInv, RpcExact
<1>3. CASE DialogTimeout(d)
  <2>1. RpcTypeOK'
    BY <1>3 DEF DialogTimeout, clientVars, agentVars, RpcInv, RpcExact, RpcTypeOK
  <2>2. DialogsOpen'
    BY <1>3 DEF DialogTimeout, Cleanup, RpcInv, RpcExact, RpcTypeOK, DialogsOpen
  <2>3. RequestsOpen' /\ AnswersComing' /\ AnswersOwn' /\ ListensOnce' /\ Replied'
    BY <1>3 DEF DialogTimeout, clientVars, agentVars, RpcInv, RpcExact, RequestsOpen, AnswersComing,
       AnswersOwn, ListensOnce, Replied
  <2> QED
    BY <2>1, <2>2, <2>3 DEF RpcInv, RpcExact
<1> QED
  BY <1>1, <1>2, <1>3

-------------------------------------------------------------------------------

LEMMA RpcNextInv == RpcInv /\ [RpcNext]_rpcVars => RpcInv'
<1> SUFFICES ASSUME RpcInv, [RpcNext]_rpcVars PROVE RpcInv'
  OBVIOUS
<1>1. CASE RpcNext
  BY <1>1, ReceiveInv, StopInv, TakeLineInv, RunEventInv, CommandInv, RequestTimeoutInv,
     WaiterTimeoutInv, EndCommandInv, DialogInv DEF RpcNext
<1>2. CASE UNCHANGED rpcVars
  <2>1. RpcTypeOK'
    BY <1>2 DEF rpcVars, clientVars, agentVars, dialogVars, RpcInv, RpcExact, RpcTypeOK
  <2> QED
    BY <1>2, <2>1 DEF rpcVars, clientVars, agentVars, dialogVars, RpcInv, RpcExact, RequestsOpen,
       AnswersComing, AnswersOwn, ListensOnce, DialogsOpen, Replied
<1> QED
  BY <1>1, <1>2

\* However late answers, timeouts, the end of either side and the end of runs
\* meet, the maps hold what is open and nothing else, and every answer reaches
\* the call that asked for it.
THEOREM RpcStaysExact == RpcSpec => []RpcExact
<1>1. RpcInit => RpcInv
  BY RpcInitInv
<1>2. RpcInv /\ [RpcNext]_rpcVars => RpcInv'
  BY RpcNextInv
<1>3. RpcInv => RpcExact
  BY DEF RpcInv
<1> QED
  BY <1>1, <1>2, <1>3, PTL DEF RpcSpec

-------------------------------------------------------------------------------
(* The events of a run reach whoever sent its prompt. *)

PromptLine == [type : {"prompt"}, of : Calls]
Asked == Selected(toAgent, PromptLine)
Edges(lines) == Selected(lines, RunLine)

\* What a listener has collected and will collect of the runs so far.
Flow(c) == Edges(collected[c] \o toClient)
Whole(c) == <<Message("start", c), Message("end", c)>>

\* Its prompt is on its way or was refused, is being worked on, or is done.
Serves(c) ==
    \/ Flow(c) = <<>> /\ run = "none" /\ Asked \in {<<>>, <<Message("prompt", c)>>}
    \/ /\ run = c /\ Asked = <<>>
       /\ Flow(c) = IF started THEN <<Message("start", c)>> ELSE <<>>
    \/ run = "none" /\ Asked = <<>> /\ Flow(c) = Whole(c)

Owner(c) == waiter[c] = "waiting" /\ request[c] # "none"

\* Nobody who sent a prompt listens behind another listener: the end of the run
\* would pass over it.
First == \A i \in DOMAIN eventListeners : request[eventListeners[i]] # "none" => i = 1
Served == \A c \in Calls : Owner(c) => Serves(c)
Complete == \A c \in Calls : waiter[c] = "done" /\ request[c] # "none" => Edges(collected[c]) = Whole(c)

Collected ==
    /\ collected \in [Calls -> Seq(ClientLine)]
    /\ \A c \in Calls : waiter[c] = "none" => collected[c] = <<>>

RunInv == Collected /\ (tidy => First /\ Served /\ Complete)

LEMMA EdgesNone ==
    ASSUME NEW S, NEW s \in Seq(S), NEW K, \A i \in DOMAIN s : s[i] \notin K
    PROVE  Selected(s, K) = <<>>
<1> DEFINE T == {s[i] : i \in DOMAIN s}
<1>1. s \in Seq(T)
  OBVIOUS
<1>2. T \cap K = {}
  OBVIOUS
<1> HIDE DEF T
<1>3. Selected(s, K) \in Seq(T \cap K)
  BY <1>1, SelectedType
<1>4. Selected(s, K) \in Seq({})
  BY <1>2, <1>3
<1> QED
  BY <1>4

LEMMA Quietness ==
    ASSUME RpcInv, Quiet
    PROVE  Edges(toClient) = <<>> /\ Asked = <<>> /\ run = "none" /\ eventListeners = <<>>
<1>1. toClient \in Seq(ClientLine) /\ toAgent \in Seq(AgentLine)
  BY DEF RpcInv, RpcExact, RpcTypeOK
<1>2. \A i \in DOMAIN toClient : toClient[i] \notin RunLine
  BY DEF Quiet, Has, RunLine
<1>3. \A i \in DOMAIN toAgent : toAgent[i] \notin PromptLine
  BY DEF Quiet, Has, PromptLine
<1>4. Selected(toClient, RunLine) = <<>>
  BY <1>1, <1>2, EdgesNone
<1>5. Selected(toAgent, PromptLine) = <<>>
  BY <1>1, <1>3, EdgesNone
<1> QED
  BY <1>4, <1>5 DEF Edges, Asked, Quiet

\* A line taken from one end and put at the other.
LEMMA MovedLine ==
    ASSUME NEW E, NEW a \in Seq(E), NEW s \in Seq(E), s # <<>>
    PROVE  /\ Append(a, Head(s)) \o Tail(s) = a \o s
           /\ s = <<Head(s)>> \o Tail(s) /\ Head(s) \in E /\ Tail(s) \in Seq(E)
           /\ Append(a, Head(s)) = a \o <<Head(s)>> /\ Append(a, Head(s)) \in Seq(E)
<1> DEFINE one == <<Head(s)>>
           t == Tail(s)
<1>1. one \in Seq(E) /\ t \in Seq(E) /\ Append(a, Head(s)) = a \o one /\ s = one \o t
      /\ Append(a, Head(s)) \in Seq(E) /\ Head(s) \in E
  BY HeadTailProperties
<1> HIDE DEF one, t
<1>2. (a \o one) \o t = a \o (one \o t)
  BY <1>1, ConcatAssociative
<1>3. Append(a, Head(s)) \o t = a \o s
  BY <1>1, <1>2
<1> QED
  BY <1>1, <1>3 DEF one, t

LEMMA FlowOutput ==
    ASSUME RpcInv, Collected, NEW lines \in Seq(ClientLine), Output(lines), UNCHANGED collected
    PROVE  \A c \in Calls : /\ Flow(c) \in Seq(ClientLine)
                            /\ Flow(c)' = Flow(c) \o Edges(lines)
<1> SUFFICES ASSUME NEW c \in Calls
             PROVE  Flow(c) \in Seq(ClientLine) /\ Flow(c)' = Flow(c) \o Edges(lines)
  OBVIOUS
<1> DEFINE a == collected[c]
<1>1. a \in Seq(ClientLine) /\ toClient \in Seq(ClientLine) /\ toClient' = toClient \o lines /\ collected'[c] = a
  BY DEF Collected, RpcInv, RpcExact, RpcTypeOK, Output
<1> HIDE DEF a
<1>2. a \o toClient \in Seq(ClientLine)
  BY <1>1, ConcatProperties
<1>3. (a \o toClient) \o lines = a \o (toClient \o lines)
  <2>1. a \in Seq(ClientLine) /\ toClient \in Seq(ClientLine) /\ lines \in Seq(ClientLine)
    BY <1>1
  <2> QED
    BY ONLY <2>1, ConcatAssociative
<1> DEFINE f == a \o toClient
<1>4. f \in Seq(ClientLine) /\ f \o lines = a \o toClient'
  BY <1>1, <1>2, <1>3
<1>5. Flow(c) = Selected(f, RunLine)
  BY DEF Flow, Edges, a, f
<1> HIDE DEF f
<1>6. Selected(f \o lines, RunLine) = Selected(f, RunLine) \o Selected(lines, RunLine)
  <2>1. f \in Seq(ClientLine) /\ lines \in Seq(ClientLine)
    BY <1>4
  <2> QED
    BY ONLY <2>1, SelectedConcat
<1>7. Selected(f, RunLine) \in Seq(ClientLine)
  BY <1>4, SelectedType
<1>8. Flow(c)' = Selected(a \o toClient', RunLine)
  BY <1>1 DEF Flow, Edges
<1> QED
  BY <1>4, <1>5, <1>6, <1>7, <1>8 DEF Edges

LEMMA FlowSame ==
    ASSUME RpcInv, Collected, NEW lines \in Seq(ClientLine), Output(lines), UNCHANGED collected,
           \A i \in DOMAIN lines : lines[i].type \in {"response", "dialog"}
    PROVE  \A c \in Calls : Flow(c)' = Flow(c)
<1>1. \A i \in DOMAIN lines : lines[i] \notin RunLine
  BY DEF RunLine
<1>2. Edges(lines) = <<>>
  BY <1>1, EdgesNone DEF Edges
<1> SUFFICES ASSUME NEW c \in Calls PROVE Flow(c)' = Flow(c)
  OBVIOUS
<1>3. Flow(c) \in Seq(ClientLine) /\ Flow(c)' = Flow(c) \o Edges(lines)
  BY FlowOutput
<1> DEFINE f == Flow(c)  g == Flow(c)'
<1>4. f \in Seq(ClientLine) /\ g = f \o <<>>
  BY <1>2, <1>3
<1> HIDE DEF f, g
<1>5. g = f
  BY <1>4
<1> QED
  BY <1>5 DEF f, g

LEMMA FlowStill ==
    ASSUME UNCHANGED <<collected, toClient>>
    PROVE  \A c : Flow(c)' = Flow(c)
BY DEF Flow, Edges

LEMMA AskedAppend ==
    ASSUME RpcInv, NEW line \in AgentLine, toAgent' = Append(toAgent, line)
    PROVE  Asked' = IF line.type = "prompt" THEN Append(Asked, line) ELSE Asked
<1>1. toAgent \in Seq(AgentLine)
  BY DEF RpcInv, RpcExact, RpcTypeOK
<1>2. line \in PromptLine <=> line.type = "prompt"
  BY DEF AgentLine, PromptLine
<1>3. Selected(Append(toAgent, line), PromptLine) =
          IF line \in PromptLine THEN Append(Selected(toAgent, PromptLine), line) ELSE Selected(toAgent, PromptLine)
  BY <1>1, SelectedAppend
<1> QED
  BY <1>2, <1>3 DEF Asked

LEMMA AskedTail ==
    ASSUME RpcInv, toAgent # <<>>, toAgent' = Tail(toAgent)
    PROVE  /\ Head(toAgent) \in AgentLine /\ Asked' \in Seq(AgentLine)
           /\ Head(toAgent).type # "prompt" => Asked' = Asked
           /\ Head(toAgent).type = "prompt" => Asked = <<Head(toAgent)>> \o Asked'
<1> DEFINE line == Head(toAgent)
           one == <<line>>
           t == Tail(toAgent)
<1>1. toAgent = one \o t /\ line \in AgentLine /\ t \in Seq(AgentLine) /\ one \in Seq(AgentLine)
  <2>1. toAgent \in Seq(AgentLine)
    BY DEF RpcInv, RpcExact, RpcTypeOK
  <2>3. <<>> \in Seq(AgentLine)
    OBVIOUS
  <2>2. /\ toAgent = <<Head(toAgent)>> \o Tail(toAgent)
        /\ Head(toAgent) \in AgentLine /\ Tail(toAgent) \in Seq(AgentLine)
    BY <2>1, <2>3, MovedLine
  <2> QED
    BY <2>2
<1>2. line \in PromptLine <=> line.type = "prompt"
  BY <1>1 DEF AgentLine, PromptLine
<1>3. Selected(one, PromptLine) = IF line \in PromptLine THEN one ELSE <<>>
  <2> HIDE DEF line
  <2> QED
    BY <1>1, SelectedOne DEF one
<1>4. Asked' = Selected(t, PromptLine)
  BY DEF Asked
<1> HIDE DEF one, t, line
<1>5. Selected(one \o t, PromptLine) = Selected(one, PromptLine) \o Selected(t, PromptLine)
  BY <1>1, SelectedConcat
<1> DEFINE u == Selected(t, PromptLine)
<1>6. u \in Seq(AgentLine)
  BY <1>1, SelectedType
<1>7. Asked = Selected(one, PromptLine) \o u
  BY <1>1, <1>5 DEF Asked
<1>8. Asked' = u
  BY <1>4
<1> HIDE DEF u
<1>9. <<>> \o u = u
  BY <1>6
<1>10. line.type # "prompt" => Asked' = Asked
  BY <1>2, <1>3, <1>7, <1>8, <1>9
<1>11. line.type = "prompt" => Asked = one \o Asked'
  BY <1>2, <1>3, <1>7, <1>8
<1> QED
  BY <1>1, <1>6, <1>8, <1>10, <1>11 DEF one, line

\* A step that neither listens, delivers nor says anything of a run.
LEMMA Aside ==
    ASSUME RpcInv, RunInv, UNCHANGED <<collected, waiter, eventListeners, tidy, run, started>>,
           Asked' = Asked, \A c \in Calls : Flow(c)' = Flow(c),
           \A c \in Calls : waiter[c] # "none" => (request'[c] # "none" <=> request[c] # "none")
    PROVE  RunInv'
<1>1. Collected'
  BY DEF RunInv, Collected
<1>2. ASSUME tidy' PROVE First' /\ Served' /\ Complete'
  <2>1. First /\ Served /\ Complete
    BY <1>2 DEF RunInv
  <2>2. \A i \in DOMAIN eventListeners : eventListeners[i] \in Calls /\ waiter[eventListeners[i]] = "waiting"
    BY DEF RpcInv, RpcExact, RpcTypeOK, ListensOnce, ToSet
  <2>3. First'
    BY <2>1, <2>2 DEF First
  <2>4. \A c \in Calls : Serves(c) => Serves(c)'
    BY DEF Serves, Whole
  <2>5. Served'
    BY <2>1, <2>4 DEF Served, Owner
  <2>6. Complete'
    BY <2>1 DEF Complete, Edges, Whole
  <2> QED
    BY <2>3, <2>5, <2>6
<1> QED
  BY <1>1, <1>2 DEF RunInv

LEMMA SendRun ==
    ASSUME RpcInv, NEW c \in Calls, NEW type \in {"command", "prompt"}, SendRequest(c, type)
    PROVE  /\ Message(type, c) \in AgentLine
           /\ waiter[c] = "none" /\ request'[c] = "pending"
           /\ \A x \in Calls : x # c => request'[x] = request[x]
           /\ \A x \in Calls : waiter[x] # "none" => request'[x] = request[x]
           /\ Asked' = IF type = "prompt" THEN Append(Asked, Message(type, c)) ELSE Asked
<1>1. Message(type, c) \in AgentLine /\ Message(type, c).type = type
  BY DEF Message, AgentLine
<1>2. request' = [request EXCEPT ![c] = "pending"] /\ waiter[c] = "none"
      /\ toAgent' = Append(toAgent, Message(type, c))
  BY DEF SendRequest
<1>3. request'[c] = "pending" /\ \A x \in Calls : x # c => request'[x] = request[x]
  BY <1>2 DEF RpcInv, RpcExact, RpcTypeOK
<1> DEFINE line == Message(type, c)
<1>4. line \in AgentLine /\ line.type = type /\ toAgent' = Append(toAgent, line)
  BY <1>1, <1>2
<1> HIDE DEF line
<1>5. Asked' = IF line.type = "prompt" THEN Append(Asked, line) ELSE Asked
  BY <1>4, AskedAppend
<1> QED
  BY <1>1, <1>2, <1>3, <1>4, <1>5 DEF line

LEMMA CommandRun ==
    ASSUME RpcInv, RunInv, NEW c \in Calls, Command(c)
    PROVE  RunInv'
<1>1. SendRequest(c, "command") /\ UNCHANGED <<collected, waiter, eventListeners, tidy, run, started, toClient>>
  BY DEF Command, agentVars
<1>2. Asked' = Asked /\ \A x \in Calls : waiter[x] # "none" => request'[x] = request[x]
  BY <1>1, SendRun
<1> QED
  BY <1>1, <1>2, FlowStill, Aside

LEMMA PromptRun ==
    ASSUME RpcInv, RunInv, NEW c \in Calls, Prompt(c)
    PROVE  RunInv'
<1>1. SendRequest(c, "prompt") /\ tidy' = (tidy /\ Quiet) /\ UNCHANGED <<collected, waiter, eventListeners>>
  BY DEF Prompt
<1>2. Collected'
  BY <1>1 DEF RunInv, Collected
<1>3. ASSUME tidy' PROVE First' /\ Served' /\ Complete'
  <2>1. tidy /\ eventListeners = <<>>
    BY <1>1, <1>3, Quietness
  <2>2. First'
    <3>1. eventListeners' = <<>> /\ DOMAIN <<>> = {}
      BY <1>1, <2>1
    <3> QED
      BY <3>1 DEF First
  <2>3. \A x \in Calls : waiter'[x] # "waiting"
    <3>1. ToSet(<<>>) = {}
      BY DEF ToSet
    <3> QED
      BY <1>1, <2>1, <3>1 DEF RpcInv, RpcExact, ListensOnce
  <2>4. Served'
    BY <2>3 DEF Served, Owner
  <2>5. Complete'
    <3>1. \A x \in Calls : waiter[x] # "none" => request'[x] = request[x]
      BY <1>1, SendRun
    <3> QED
      BY <1>1, <2>1, <3>1 DEF RunInv, Complete, Edges, Whole
  <2> QED
    BY <2>2, <2>4, <2>5
<1> QED
  BY <1>2, <1>3 DEF RunInv

LEMMA ListenRun ==
    ASSUME RpcInv, RunInv, NEW c \in Calls, Listen(c), waiter[c] = "none", UNCHANGED collected
    PROVE  /\ Collected' /\ waiter'[c] = "waiting" /\ \A x \in Calls : x # c => waiter'[x] = waiter[x]
           /\ eventListeners' = Append(eventListeners, c) /\ collected[c] = <<>>
<1>1. waiter' = [waiter EXCEPT ![c] = "waiting"] /\ eventListeners' = Append(eventListeners, c)
  BY DEF Listen
<1>2. waiter'[c] = "waiting" /\ \A x \in Calls : x # c => waiter'[x] = waiter[x]
  BY <1>1 DEF RpcInv, RpcExact, RpcTypeOK
<1> QED
  BY <1>1, <1>2 DEF RunInv, Collected

LEMMA PromptAndWaitRun ==
    ASSUME RpcInv, RunInv, NEW c \in Calls, PromptAndWait(c)
    PROVE  RunInv'
<1>1. /\ SendRequest(c, "prompt") /\ Listen(c) /\ tidy' = (tidy /\ Quiet)
      /\ UNCHANGED <<collected, toClient, run, started>>
  BY DEF PromptAndWait, agentVars
<1>2. /\ waiter[c] = "none" /\ request'[c] = "pending" /\ Message("prompt", c) \in AgentLine
      /\ \A x \in Calls : waiter[x] # "none" => request'[x] = request[x]
      /\ Asked' = Append(Asked, Message("prompt", c))
  BY <1>1, SendRun
<1>3. /\ Collected' /\ waiter'[c] = "waiting" /\ (\A x \in Calls : x # c => waiter'[x] = waiter[x])
      /\ eventListeners' = Append(eventListeners, c) /\ collected[c] = <<>>
  BY <1>1, <1>2, ListenRun
<1>4. ASSUME tidy' PROVE First' /\ Served' /\ Complete'
  <2>1. tidy /\ eventListeners = <<>> /\ Edges(toClient) = <<>> /\ Asked = <<>> /\ run = "none"
    BY <1>1, <1>4, Quietness
  <2>2. First'
    <3>1. eventListeners' = <<c>> /\ DOMAIN <<c>> = {1}
      BY <1>3, <2>1
    <3> QED
      BY <3>1 DEF First
  <2>3. \A x \in Calls : waiter'[x] = "waiting" => x = c
    <3>1. ToSet(<<>>) = {}
      BY DEF ToSet
    <3> QED
      BY <1>3, <2>1, <3>1 DEF RpcInv, RpcExact, ListensOnce
  <2>4. Serves(c)'
    <3>1. Flow(c)' = <<>>
      <4>1. toClient \in Seq(ClientLine)
        BY DEF RpcInv, RpcExact, RpcTypeOK
      <4>2. <<>> \o toClient = toClient
        BY <4>1
      <4> QED
        BY <1>1, <1>3, <2>1, <4>2 DEF Flow, Edges
    <3>2. Asked' = <<Message("prompt", c)>>
      <4> DEFINE line == Message("prompt", c)
      <4> HIDE DEF line
      <4>1. Append(<<>>, line) = <<line>>
        OBVIOUS
      <4> QED
        BY <1>2, <2>1, <4>1 DEF line
    <3> QED
      BY <1>1, <2>1, <3>1, <3>2 DEF Serves
  <2>5. Served'
    BY <2>3, <2>4 DEF Served, Owner
  <2>6. Complete'
    BY <1>1, <1>2, <1>3, <2>1 DEF RunInv, Complete, Edges, Whole
  <2> QED
    BY <2>2, <2>5, <2>6
<1> QED
  BY <1>3, <1>4 DEF RunInv

LEMMA WaitForIdleRun ==
    ASSUME RpcInv, RunInv, NEW c \in Calls, WaitForIdle(c)
    PROVE  RunInv'
<1>1. /\ request[c] = "none" /\ waiter[c] = "none" /\ Listen(c)
      /\ UNCHANGED <<collected, toClient, toAgent, request, run, started, tidy>>
  BY DEF WaitForIdle, agentVars
<1>2. /\ Collected' /\ waiter'[c] = "waiting" /\ (\A x \in Calls : x # c => waiter'[x] = waiter[x])
      /\ eventListeners' = Append(eventListeners, c)
  BY <1>1, ListenRun
<1>3. ASSUME tidy' PROVE First' /\ Served' /\ Complete'
  <2>1. First /\ Served /\ Complete
    BY <1>1, <1>3 DEF RunInv
  <2>2. First'
    <3>1. eventListeners \in Seq(Calls)
      BY DEF RpcInv, RpcExact, RpcTypeOK
    <3>2. \A i \in DOMAIN eventListeners' :
              \/ i \in DOMAIN eventListeners /\ eventListeners'[i] = eventListeners[i]
              \/ eventListeners'[i] = c
      BY <1>2, <3>1
    <3> QED
      BY <1>1, <2>1, <3>2 DEF First
  <2>3. \A x \in Calls : Serves(x) => Serves(x)'
    BY <1>1 DEF Serves, Flow, Edges, Asked, Whole
  <2>4. \A x \in Calls : Owner(x)' => Owner(x)
    BY <1>1, <1>2 DEF Owner
  <2>5. Served'
    BY <2>1, <2>3, <2>4 DEF Served
  <2>6. Complete'
    BY <1>1, <1>2, <2>1 DEF Complete, Edges, Whole
  <2> QED
    BY <2>2, <2>5, <2>6
<1> QED
  BY <1>2, <1>3 DEF RunInv

LEMMA WaiterTimeoutRun ==
    ASSUME RpcInv, RunInv, NEW c \in Calls, WaiterTimeout(c)
    PROVE  RunInv'
<1>1. /\ waiter[c] = "waiting" /\ waiter' = [waiter EXCEPT ![c] = "timed out"]
      /\ UNCHANGED <<collected, toClient, toAgent, request, run, started, tidy>>
  BY DEF WaiterTimeout, agentVars
<1>2. waiter'[c] = "timed out" /\ \A x \in Calls : x # c => waiter'[x] = waiter[x]
  BY <1>1 DEF RpcInv, RpcExact, RpcTypeOK
<1>3. PICK index \in DOMAIN eventListeners : eventListeners' = RemoveAt(eventListeners, index)
  BY DEF WaiterTimeout
<1>4. eventListeners \in Seq(Calls) /\ index \in 1..Len(eventListeners) /\ Len(eventListeners) \in Nat
  <2>1. eventListeners \in Seq(Calls)
    BY DEF RpcInv, RpcExact, RpcTypeOK
  <2> QED
    BY <2>1
<1>5. /\ eventListeners' \in Seq(Calls) /\ Len(eventListeners') = Len(eventListeners) - 1
      /\ \A k \in 1..(index - 1) : eventListeners'[k] = eventListeners[k]
      /\ \A k \in index..(Len(eventListeners) - 1) : eventListeners'[k] = eventListeners[k + 1]
  BY <1>3, <1>4, RemoveAtProperties
<1>6. Collected'
  BY <1>1, <1>2 DEF RunInv, Collected
<1>7. ASSUME tidy' PROVE First' /\ Served' /\ Complete'
  <2>1. First /\ Served /\ Complete
    BY <1>1, <1>7 DEF RunInv
  <2>2. ASSUME NEW k \in DOMAIN eventListeners', request[eventListeners'[k]] # "none" PROVE k = 1
    <3>1. k \in 1..(Len(eventListeners) - 1)
      BY <1>4, <1>5
    <3>2. CASE k < index
      <4>1. eventListeners'[k] = eventListeners[k] /\ k \in DOMAIN eventListeners
        BY <1>4, <1>5, <3>1, <3>2
      <4> QED
        BY <2>1, <2>2, <4>1 DEF First
    <3>3. CASE k >= index
      <4>1. eventListeners'[k] = eventListeners[k + 1] /\ k + 1 \in DOMAIN eventListeners /\ k + 1 # 1
        BY <1>4, <1>5, <3>1, <3>3
      <4> QED
        BY <2>1, <2>2, <4>1 DEF First
    <3> QED
      BY <1>4, <3>1, <3>2, <3>3
  <2>3. First'
    BY <1>1, <2>2 DEF First
  <2>4. \A x \in Calls : Serves(x) => Serves(x)'
    BY <1>1 DEF Serves, Flow, Edges, Asked, Whole
  <2>5. Served'
    BY <1>1, <1>2, <2>1, <2>4 DEF Served, Owner
  <2>6. Complete'
    BY <1>1, <1>2, <2>1 DEF Complete, Edges, Whole
  <2> QED
    BY <2>3, <2>5, <2>6
<1> QED
  BY <1>6, <1>7 DEF RunInv

LEMMA RequestTimeoutRun ==
    ASSUME RpcInv, RunInv, NEW c \in Calls, RequestTimeout(c)
    PROVE  RunInv'
<1>1. /\ request[c] = "pending" /\ request' = [request EXCEPT ![c] = "timed out"]
      /\ UNCHANGED <<collected, waiter, eventListeners, tidy, run, started, toAgent, toClient>>
  BY DEF RequestTimeout, agentVars
<1>2. \A x \in Calls : request'[x] # "none" <=> request[x] # "none"
  BY <1>1 DEF RpcInv, RpcExact, RpcTypeOK
<1>3. Asked' = Asked
  BY <1>1 DEF Asked
<1> QED
  BY <1>1, <1>2, <1>3, FlowStill, Aside

LEMMA StopRun ==
    ASSUME RpcInv, RunInv, Stop \/ Stopped \/ Shutdown
    PROVE  RunInv'
<1>1. UNCHANGED <<collected, waiter, eventListeners, tidy, run, started, toAgent, toClient, request>>
  BY DEF Stop, Stopped, Shutdown, agentVars, clientVars
<1>2. Asked' = Asked
  BY <1>1 DEF Asked
<1> QED
  BY <1>1, <1>2, FlowStill, Aside

\* No line of a run of which "m" is the first and "n" the last, one, or both.
UpTo(lines, m, n) == lines \in {<<>>, <<m>>, <<m, n>>}

\* What ends with an end is all of it.
LEMMA EndOf ==
    ASSUME NEW E, NEW x \in Seq(E), NEW line \in E, NEW y \in Seq(E), NEW m, NEW n,
           line.type = "end", m.type = "start", UpTo((x \o <<line>>) \o y, m, n)
    PROVE  x \o <<line>> = <<m, n>>
<1> DEFINE one == <<line>>
           z == x \o one
           all == z \o y
           k == Len(x)
<1>1. one \in Seq(E) /\ Len(one) = 1 /\ one[1] = line
  OBVIOUS
<1>2. all \in {<<>>, <<m>>, <<m, n>>}
  BY DEF UpTo
<1>3. k \in Nat
  OBVIOUS
<1> HIDE DEF one
<1>4. /\ z \in Seq(E) /\ Len(z) = k + 1
      /\ \A i \in 1..(k + 1) : z[i] = IF i <= k THEN x[i] ELSE one[i - k]
  <2>1. /\ x \o one \in Seq(E) /\ Len(x \o one) = Len(x) + Len(one)
        /\ \A i \in 1..(Len(x) + Len(one)) : (x \o one)[i] = IF i <= Len(x) THEN x[i] ELSE one[i - Len(x)]
    BY <1>1, ConcatProperties
  <2> QED
    BY <1>1, <2>1
<1>5. z[k + 1] = line
  BY <1>1, <1>3, <1>4
<1> HIDE DEF z, k
<1>6. Len(y) \in Nat
  OBVIOUS
<1>7. /\ Len(all) = k + 1 + Len(y) /\ \A i \in 1..(k + 1) : all[i] = z[i]
  <2>1. /\ Len(z \o y) = Len(z) + Len(y)
        /\ \A i \in 1..(Len(z) + Len(y)) : (z \o y)[i] = IF i <= Len(z) THEN z[i] ELSE y[i - Len(z)]
    BY <1>4, ConcatProperties
  <2> DEFINE w == z \o y
  <2>2. /\ Len(w) = Len(z) + Len(y)
        /\ \A i \in 1..(Len(z) + Len(y)) : w[i] = IF i <= Len(z) THEN z[i] ELSE y[i - Len(z)]
    BY <2>1
  <2> HIDE DEF w
  <2>3. Len(w) = k + 1 + Len(y) /\ \A i \in 1..(k + 1) : w[i] = z[i]
    BY <1>3, <1>4, <1>6, <2>2
  <2> QED
    BY <2>3 DEF w
<1>8. all[k + 1] = line /\ all[1] = z[1]
  BY <1>3, <1>5, <1>7
<1> HIDE DEF all
<1>9. Len(<<>>) = 0 /\ Len(<<m>>) = 1 /\ Len(<<m, n>>) = 2 /\ <<m>>[1] = m /\ <<m, n>>[1] = m /\ <<m, n>>[2] = n
  OBVIOUS
<1>10. k # 0
  <2> SUFFICES ASSUME k = 0 PROVE FALSE
    OBVIOUS
  <2>1. all[1] = line /\ Len(all) >= 1
    BY <1>6, <1>7, <1>8
  <2>2. all[1] = m
    BY <1>2, <1>9, <2>1
  <2> QED
    BY <2>1, <2>2
<1>11. Len(all) = 2 /\ k = 1
  BY <1>2, <1>3, <1>6, <1>7, <1>9, <1>10
<1>12. all = <<m, n>>
  <2>1. 2 # 0 /\ 2 # 1
    OBVIOUS
  <2>2. all # <<>> /\ all # <<m>>
    BY <1>9, <1>11, <2>1, Zenon
  <2> QED
    BY <1>2, <2>2, Zenon
<1>13. z[1] = m /\ z[2] = n
  BY <1>7, <1>9, <1>11, <1>12
<1> DEFINE two == <<m, n>>
<1>14. /\ two \in Seq({m, n}) /\ Len(two) = 2 /\ \A i \in 1..2 : two[i] = IF i = 1 THEN m ELSE n
  OBVIOUS
<1> HIDE DEF two
<1>15. z = two
  <2>1. z \in Seq(E \cup {m, n}) /\ two \in Seq(E \cup {m, n})
    BY <1>4, <1>14
  <2>2. Len(z) = Len(two) /\ \A i \in 1..Len(z) : z[i] = two[i]
    BY <1>4, <1>11, <1>13, <1>14
  <2> QED
    BY <2>1, <2>2, SeqEqual
<1> QED
  BY <1>15 DEF z, one, two

LEMMA ReadRun ==
    ASSUME RpcInv, Collected, toClient # <<>>, toClient' = Tail(toClient), NEW c \in Calls
    PROVE  /\ Head(toClient) \in ClientLine
           /\ Head(toClient).type \in {"start", "end"} => Head(toClient) \in RunLine
           /\ collected'[c] = Append(collected[c], Head(toClient)) =>
                  Flow(c)' = Flow(c) /\ collected'[c] \in Seq(ClientLine)
           /\ collected'[c] = collected[c] /\ Head(toClient) \notin RunLine => Flow(c)' = Flow(c)
           /\ collected'[c] = Append(collected[c], Head(toClient)) /\ Head(toClient) \in RunLine =>
                  \E x, y \in Seq(ClientLine) : /\ Edges(collected'[c]) = x \o <<Head(toClient)>>
                                                /\ Flow(c) = (x \o <<Head(toClient)>>) \o y
<1> DEFINE line == Head(toClient)
           one == <<line>>
           t == Tail(toClient)
           a == collected[c]
<1>1. a \in Seq(ClientLine) /\ toClient \in Seq(ClientLine)
  BY DEF Collected, RpcInv, RpcExact, RpcTypeOK
<1>2. /\ Append(a, line) \o t = a \o toClient /\ toClient = one \o t /\ line \in ClientLine
      /\ t \in Seq(ClientLine) /\ Append(a, line) = a \o one /\ Append(a, line) \in Seq(ClientLine)
  <2> HIDE DEF a
  <2> QED
    BY <1>1, MovedLine
<1>3. line.type \in {"start", "end"} => line \in RunLine
  BY <1>2 DEF ClientLine, RunLine
<1>4. one \in Seq(ClientLine)
  BY <1>2
<1>5. Selected(one, RunLine) = IF line \in RunLine THEN one ELSE <<>>
  <2> HIDE DEF line
  <2> QED
    BY <1>2, SelectedOne DEF one
<1>6. toClient' = t
  OBVIOUS
<1> DEFINE x == Selected(a, RunLine)
           y == Selected(t, RunLine)
<1>7. collected'[c] = Append(a, line) => Flow(c)' = Flow(c)
  BY <1>2, <1>6 DEF Flow
<1> HIDE DEF a, t, one, line
<1>8. x \in Seq(ClientLine) /\ y \in Seq(ClientLine)
  BY <1>1, <1>2, SelectedType
<1>9. /\ Selected(a \o one, RunLine) = x \o Selected(one, RunLine)
      /\ Selected(one \o t, RunLine) = Selected(one, RunLine) \o y
  <2>1. Selected(a \o one, RunLine) = x \o Selected(one, RunLine)
    BY <1>1, <1>4, SelectedConcat
  <2>2. t \in Seq(ClientLine)
    BY <1>2
  <2>3. Selected(one \o t, RunLine) = Selected(one, RunLine) \o y
    BY <1>4, <2>2, SelectedConcat
  <2> QED
    BY <2>1, <2>3
<1>10. /\ Selected(a \o toClient, RunLine) = x \o Selected(toClient, RunLine)
       /\ Selected(a \o t, RunLine) = x \o y
  <2>1. Selected(a \o toClient, RunLine) = x \o Selected(toClient, RunLine)
    BY <1>1, SelectedConcat
  <2>2. t \in Seq(ClientLine) /\ a \in Seq(ClientLine)
    BY <1>1, <1>2
  <2>3. Selected(a \o t, RunLine) = x \o y
    BY <2>2, SelectedConcat
  <2> QED
    BY <2>1, <2>3
<1> HIDE DEF x, y
<1>11. <<>> \o y = y
  BY <1>8
<1>12. line \notin RunLine => Selected(a \o toClient, RunLine) = Selected(a \o t, RunLine)
  BY <1>2, <1>5, <1>9, <1>10, <1>11
<1>13. collected'[c] = a /\ line \notin RunLine => Flow(c)' = Flow(c)
  <2>1. collected'[c] = a => Flow(c)' = Selected(a \o t, RunLine)
    BY <1>6 DEF Flow, Edges
  <2>2. Flow(c) = Selected(a \o toClient, RunLine)
    BY DEF Flow, Edges, a
  <2> QED
    BY <1>12, <2>1, <2>2
<1>14. ASSUME collected'[c] = Append(a, line), line \in RunLine
       PROVE  Edges(collected'[c]) = x \o one /\ Flow(c) = (x \o one) \o y
  <2>1. Edges(collected'[c]) = x \o one
    BY <1>2, <1>5, <1>9, <1>14 DEF Edges
  <2>2. Flow(c) = x \o (one \o y)
    BY <1>2, <1>5, <1>9, <1>10, <1>14 DEF Flow, Edges, a
  <2>3. x \o (one \o y) = (x \o one) \o y
    BY <1>4, <1>8, ConcatAssociative
  <2> QED
    BY <2>1, <2>2, <2>3
<1> QED
  BY <1>2, <1>3, <1>7, <1>8, <1>13, <1>14 DEF a, line, one

LEMMA ReceiveRun ==
    ASSUME RpcInv, RunInv, Receive
    PROVE  RunInv'
<1> DEFINE line == Head(toClient)
<1>1. /\ toClient # <<>> /\ toClient' = Tail(toClient) /\ Deliver(line)
      /\ UNCHANGED <<toAgent, run, started, tidy>>
  BY DEF Receive, agentVars
<1>2. Collected /\ Asked' = Asked
  BY <1>1 DEF RunInv, Asked
<1>3. CASE line.type = "response" /\ line.of \in pendingRequests
  <2>1. /\ request' = [request EXCEPT ![line.of] = "answered"]
        /\ UNCHANGED <<waiter, eventListeners, collected>>
    BY <1>1, <1>3 DEF Deliver
  <2>2. line \notin RunLine
    BY <1>3 DEF RunLine
  <2>3. \A c \in Calls : Flow(c)' = Flow(c)
    BY <1>1, <1>2, <2>1, <2>2, ReadRun
  <2>4. \A c \in Calls : request'[c] # "none" <=> request[c] # "none"
    <3>1. line.of \in Calls /\ request[line.of] = "pending"
      BY <1>3 DEF RpcInv, RpcExact, RpcTypeOK, RequestsOpen, Receive
    <3> QED
      BY <2>1, <3>1 DEF RpcInv, RpcExact, RpcTypeOK
  <2> QED
    BY <1>1, <1>2, <2>1, <2>3, <2>4, Aside
<1>4. CASE ~(line.type = "response" /\ line.of \in pendingRequests)
  <2>1. /\ UNCHANGED request
        /\ collected' = [c \in Calls |-> IF c \in Heard(line) THEN Append(collected[c], line) ELSE collected[c]]
    BY <1>1, <1>4 DEF Deliver
  <2>2. \A c \in Calls : collected'[c] = IF c \in Heard(line) THEN Append(collected[c], line) ELSE collected[c]
    BY <2>1
  <2>3. ToSet(eventListeners) = {c \in Calls : waiter[c] = "waiting"}
    BY DEF RpcInv, RpcExact, ListensOnce
  <2>4. \A c \in Heard(line) : c \in Calls /\ waiter[c] = "waiting"
    BY <2>3 DEF Heard, ToSet
  <2>5. collected' \in [Calls -> Seq(ClientLine)]
    <3>1. \A c \in Calls : collected'[c] \in Seq(ClientLine)
      <4> SUFFICES ASSUME NEW c \in Calls PROVE collected'[c] \in Seq(ClientLine)
        OBVIOUS
      <4>1. collected[c] \in Seq(ClientLine)
        BY <1>2 DEF Collected
      <4>2. collected'[c] = Append(collected[c], line) => collected'[c] \in Seq(ClientLine)
        BY <1>1, <1>2, ReadRun
      <4> QED
        BY <2>2, <4>1, <4>2
    <3> QED
      BY <2>1, <3>1
  <2>6. CASE line.type # "end"
    <3>1. UNCHANGED <<waiter, eventListeners>>
      BY <1>1, <1>4, <2>6 DEF Deliver
    <3>2. Collected'
      BY <1>2, <2>2, <2>4, <2>5, <3>1 DEF Collected
    <3>3. ASSUME tidy' PROVE First' /\ Served' /\ Complete'
      <4>1. First /\ Served /\ Complete
        BY <1>1, <3>3 DEF RunInv
      <4>2. First'
        BY <2>1, <3>1, <4>1 DEF First
      <4>3. ASSUME NEW c \in Calls, Owner(c) PROVE Serves(c)'
        <5>1. c \in Heard(line)
          <6>1. c \in ToSet(eventListeners)
            BY <2>3, <4>3 DEF Owner
          <6> QED
            BY <2>6, <6>1 DEF Heard, ToSet
        <5>2. Flow(c)' = Flow(c)
          BY <1>1, <1>2, <2>2, <5>1, ReadRun
        <5>3. Serves(c)
          BY <4>1, <4>3 DEF Served
        <5> QED
          BY <1>1, <1>2, <5>2, <5>3 DEF Serves, Whole
      <4>4. Served'
        BY <2>1, <3>1, <4>3 DEF Served, Owner
      <4>5. Complete'
        <5>1. \A c \in Calls : waiter[c] = "done" => collected'[c] = collected[c]
          BY <2>2, <2>4
        <5> QED
          BY <2>1, <3>1, <4>1, <5>1 DEF Complete, Edges, Whole
      <4> QED
        BY <4>2, <4>4, <4>5
    <3> QED
      BY <3>2, <3>3 DEF RunInv
  <2>7. CASE line.type = "end"
    <3>1. /\ waiter' = [c \in Calls |-> IF c \in Heard(line) THEN "done" ELSE waiter[c]]
          /\ eventListeners' = [i \in 1..(Len(eventListeners) \div 2) |-> eventListeners[2 * i]]
      BY <1>1, <1>4, <2>7 DEF Deliver
    <3>2. \A c \in Calls : waiter'[c] = IF c \in Heard(line) THEN "done" ELSE waiter[c]
      BY <3>1
    <3>3. Collected'
      BY <1>2, <2>2, <2>4, <2>5, <3>2 DEF Collected
    <3>4. ASSUME tidy' PROVE First' /\ Served' /\ Complete'
      <4>1. First /\ Served /\ Complete
        BY <1>1, <3>4 DEF RunInv
      <4>2. First'
        <5>1. Len(eventListeners) \in Nat /\ DOMAIN eventListeners = 1..Len(eventListeners)
          <6>1. eventListeners \in Seq(Calls)
            BY DEF RpcInv, RpcExact, RpcTypeOK
          <6> QED
            BY <6>1
        <5>2. \A i \in 1..(Len(eventListeners) \div 2) : 2 * i \in DOMAIN eventListeners /\ 2 * i # 1
          BY <5>1
        <5>3. \A i \in 1..(Len(eventListeners) \div 2) : request'[eventListeners[2 * i]] = "none"
          BY <2>1, <4>1, <5>2 DEF First
        <5>4. \A i \in DOMAIN eventListeners' : request'[eventListeners'[i]] = "none"
          BY <3>1, <5>3
        <5> QED
          BY <5>4 DEF First
      <4>3. ASSUME NEW c \in Calls, Owner(c) PROVE c \in Heard(line)
        <5>1. PICK i \in DOMAIN eventListeners : eventListeners[i] = c
          BY <2>3, <4>3 DEF Owner, ToSet
        <5>2. i = 1
          BY <4>1, <4>3, <5>1 DEF First, Owner
        <5>3. i % 2 = 1
          BY <5>2
        <5> QED
          BY <5>1, <5>3 DEF Heard
      <4>4. Served'
        BY <2>1, <3>2, <4>3 DEF Served, Owner
      <4>5. ASSUME NEW c \in Calls, Owner(c) PROVE Edges(collected'[c]) = Whole(c)
        <5>1. collected'[c] = Append(collected[c], line) /\ line \in RunLine /\ line \in ClientLine
          BY <1>1, <1>2, <2>2, <2>7, <4>3, <4>5, ReadRun
        <5>2. PICK x, y \in Seq(ClientLine) : /\ Edges(collected'[c]) = x \o <<line>>
                                              /\ Flow(c) = (x \o <<line>>) \o y
          BY <1>1, <1>2, <5>1, ReadRun
        <5> DEFINE m == Message("start", c)  n == Message("end", c)
        <5>3. m.type = "start"
          BY DEF Message
        <5>4. Flow(c) \in {<<>>, <<m>>, <<m, n>>}
          BY <4>1, <4>5 DEF Served, Serves, Whole
        <5> HIDE DEF m, n, line
        <5>5. UpTo((x \o <<line>>) \o y, m, n)
          BY <5>2, <5>4, Zenon DEF UpTo
        <5>6. x \o <<line>> = <<m, n>>
          <6>1. x \in Seq(ClientLine) /\ y \in Seq(ClientLine) /\ line \in ClientLine /\ line.type = "end"
            BY <2>7, <5>1
          <6> QED
            BY <5>3, <5>5, <6>1, EndOf
        <5> QED
          BY <5>2, <5>6 DEF m, n, Whole
      <4>6. Complete'
        <5>1. ASSUME NEW c \in Calls, waiter'[c] = "done", request'[c] # "none"
              PROVE  (Edges(collected[c]) = Whole(c) /\ collected'[c] = collected[c])
                     \/ Edges(collected'[c]) = Whole(c)
          <6>1. CASE c \in Heard(line)
            <7>1. Owner(c)
              BY <2>1, <2>4, <5>1, <6>1 DEF Owner
            <7> QED
              BY <4>5, <7>1
          <6>2. CASE c \notin Heard(line)
            BY <2>1, <2>2, <3>2, <4>1, <5>1, <6>2 DEF Complete
          <6> QED
            BY <6>1, <6>2
        <5> QED
          BY <5>1 DEF Complete, Edges, Whole
      <4> QED
        BY <4>2, <4>4, <4>6
    <3> QED
      BY <3>3, <3>4 DEF RunInv
  <2> QED
    BY <2>6, <2>7
<1> QED
  BY <1>3, <1>4

\* What the agent does leaves who listens, and what they collected, alone.
LEMMA ApartRun ==
    ASSUME RpcInv, RunInv, UNCHANGED <<clientVars, tidy>>,
           \A c \in Calls : Serves(c) => Serves(c)'
    PROVE  RunInv'
<1>1. UNCHANGED <<collected, waiter, eventListeners, request, tidy>>
  BY DEF clientVars
<1>2. Collected'
  BY <1>1 DEF RunInv, Collected
<1>3. First' = First /\ Complete' = Complete
  BY <1>1 DEF First, Complete, Edges, Whole
<1>4. \A c \in Calls : Owner(c)' = Owner(c)
  BY <1>1 DEF Owner
<1>5. Served => Served'
  BY <1>4 DEF Served
<1> QED
  BY <1>1, <1>2, <1>3, <1>5 DEF RunInv

LEMMA OnlyOne ==
    ASSUME NEW E, NEW e \in E, NEW rest \in Seq(E), NEW other
    PROVE  <<e>> \o rest # <<>> /\ (<<e>> \o rest = <<other>> => other = e /\ rest = <<>>)
<1> DEFINE one == <<e>>  all == one \o rest
<1>1. one \in Seq(E) /\ Len(one) = 1 /\ one[1] = e /\ Len(rest) \in Nat
  OBVIOUS
<1> HIDE DEF one
<1>2. /\ Len(one \o rest) = Len(one) + Len(rest)
      /\ \A i \in 1..(Len(one) + Len(rest)) :
             (one \o rest)[i] = IF i <= Len(one) THEN one[i] ELSE rest[i - Len(one)]
  BY <1>1, ConcatProperties
<1>3. Len(all) = 1 + Len(rest) /\ all[1] = e
  BY <1>1, <1>2
<1> HIDE DEF all
<1>4. Len(<<>>) = 0 /\ Len(<<other>>) = 1 /\ <<other>>[1] = other
  OBVIOUS
<1>5. Len(all) # 0
  BY <1>1, <1>3
<1>6. all # <<>>
  BY <1>4, <1>5, Zenon
<1>7. ASSUME all = <<other>> PROVE other = e /\ rest = <<>>
  <2>1. Len(all) = 1 /\ all[1] = other
    BY <1>4, <1>7, Zenon
  <2>2. Len(rest) = 0
    BY <1>1, <1>3, <2>1
  <2> QED
    BY <1>3, <2>1, <2>2
<1> QED
  BY <1>6, <1>7 DEF all, one

LEMMA StartPromptRun ==
    ASSUME RpcInv, RunInv, NEW c \in Calls, UNCHANGED <<clientVars, tidy>>, StartPrompt(c),
           toAgent # <<>>, toAgent' = Tail(toAgent), Head(toAgent).type = "prompt", Head(toAgent).of = c
    PROVE  RunInv'
<1> DEFINE line == Head(toAgent)
           answer == Message("response", c)
<1>1. /\ line \in AgentLine /\ Asked = <<line>> \o Asked' /\ Asked' \in Seq(AgentLine)
      /\ UNCHANGED collected /\ Collected
  BY AskedTail DEF clientVars, RunInv
<1>2. /\ <<answer>> \in Seq(ClientLine) /\ <<answer, answer>> \in Seq(ClientLine)
      /\ \A i \in DOMAIN <<answer>> : <<answer>>[i].type = "response"
      /\ \A i \in DOMAIN <<answer, answer>> : <<answer, answer>>[i].type = "response"
  <2>1. answer \in ClientLine /\ answer.type = "response"
    BY DEF Message, ClientLine
  <2> HIDE DEF answer
  <2> QED
    BY <2>1
<1>3. /\ Output(<<answer>>) \/ Output(<<answer, answer>>)
      /\ (run = "none" /\ run' = c /\ started' = FALSE) \/ UNCHANGED <<run, started>>
  BY DEF StartPrompt
<1>4. \A x \in Calls : Flow(x)' = Flow(x)
  <2> HIDE DEF answer
  <2>1. CASE Output(<<answer>>)
    BY <1>1, <1>2, <2>1, FlowSame
  <2>2. CASE Output(<<answer, answer>>)
    BY <1>1, <1>2, <2>2, FlowSame
  <2> QED
    BY <1>3, <2>1, <2>2
<1>5. ASSUME NEW x \in Calls, Serves(x) PROVE Serves(x)'
  <2>1. Asked # <<>> /\ (Asked = <<Message("prompt", x)>> => Message("prompt", x) = line /\ Asked' = <<>>)
    <3> DEFINE rest == Asked'  other == Message("prompt", x)
    <3>1. Asked = <<line>> \o rest /\ rest \in Seq(AgentLine) /\ line \in AgentLine
      BY <1>1
    <3> HIDE DEF rest, line, other
    <3>2. <<line>> \o rest # <<>> /\ (<<line>> \o rest = <<other>> => other = line /\ rest = <<>>)
      BY <3>1, OnlyOne
    <3>3. Asked # <<>> /\ (Asked = <<other>> => other = line /\ rest = <<>>)
      BY <3>1, <3>2
    <3> QED
      BY <3>3 DEF rest, line, other
  <2>2. Flow(x) = <<>> /\ run = "none" /\ Asked = <<Message("prompt", x)>>
    BY <1>5, <2>1, Zenon DEF Serves
  <2>3. x = c /\ Asked' = <<>>
    <3>1. Message("prompt", x) = line /\ Asked' = <<>>
      BY <2>1, <2>2
    <3> QED
      BY <3>1 DEF Message
  <2>4. Flow(x)' = <<>>
    BY <1>4, <2>2
  <2>5. CASE run' = c /\ started' = FALSE
    BY <2>3, <2>4, <2>5 DEF Serves
  <2>6. CASE UNCHANGED <<run, started>>
    BY <2>2, <2>3, <2>4, <2>6 DEF Serves
  <2> QED
    BY <1>3, <2>5, <2>6
<1> QED
  BY <1>5, ApartRun

LEMMA TakeLineRun ==
    ASSUME RpcInv, RunInv, TakeLine
    PROVE  RunInv'
<1> DEFINE line == Head(toAgent)
<1>1. toAgent # <<>> /\ toAgent' = Tail(toAgent) /\ UNCHANGED <<clientVars, tidy>>
  BY DEF TakeLine
<1>2. line \in AgentLine /\ (line.type # "prompt" => Asked' = Asked)
  BY <1>1, AskedTail
<1>3. CASE line.type = "prompt" /\ StartPrompt(line.of)
  <2>1. line.of \in Calls
    BY <1>2, <1>3 DEF AgentLine
  <2> QED
    BY <1>1, <1>3, <2>1, StartPromptRun
<1>4. CASE line.type # "prompt" /\ (StartCommand(line.of) \/ TakeAnswer(line.of))
  <2>1. UNCHANGED <<collected, waiter, eventListeners, request, tidy, run, started, toClient>>
    BY <1>1, <1>4 DEF StartCommand, TakeAnswer, clientVars, agentVars
  <2> QED
    BY <1>2, <1>4, <2>1, FlowStill, Aside
<1> QED
  BY <1>3, <1>4 DEF TakeLine

LEMMA PairOf ==
    ASSUME NEW m, NEW n
    PROVE  <<m>> \in Seq({m, n}) /\ n \in {m, n} /\ Append(<<m>>, n) = <<m, n>>
<1>1. <<m>> \in Seq({m, n}) /\ n \in {m, n}
  OBVIOUS
<1> DEFINE l == Append(<<m>>, n)  r == <<m, n>>
<1>2. /\ l \in Seq({m, n}) /\ Len(l) = 2 /\ l[1] = m /\ l[2] = n
  OBVIOUS
<1>3. /\ r \in Seq({m, n}) /\ Len(r) = 2 /\ r[1] = m /\ r[2] = n
  OBVIOUS
<1> HIDE DEF l, r
<1>4. \A i \in 1..Len(l) : l[i] = r[i]
  BY <1>2, <1>3
<1>5. l = r
  BY <1>2, <1>3, <1>4, SeqEqual
<1> QED
  BY <1>1, <1>5 DEF l, r

LEMMA RunEventRun ==
    ASSUME RpcInv, RunInv, RunEvent
    PROVE  RunInv'
<1> DEFINE line == Message(IF started THEN "end" ELSE "start", run)
<1>1. /\ run \in Calls /\ run # "none" /\ started \in BOOLEAN /\ started' = ~started
      /\ run' = IF started THEN "none" ELSE run
      /\ Output(<<line>>) /\ UNCHANGED <<clientVars, tidy, toAgent>>
  BY DEF RunEvent, RpcInv, RpcExact, RpcTypeOK
<1>2. line \in ClientLine /\ line \in RunLine
  BY <1>1 DEF Message, ClientLine, RunLine
<1>3. Collected /\ UNCHANGED collected
  BY <1>1 DEF RunInv, clientVars
<1>4. ASSUME NEW x \in Calls, Serves(x) PROVE Serves(x)'
  <2>1. /\ run = x /\ Asked = <<>>
        /\ Flow(x) = IF started THEN <<Message("start", x)>> ELSE <<>>
    BY <1>1, <1>4 DEF Serves
  <2>2. Asked' = <<>>
    BY <1>1, <2>1 DEF Asked
  <2>3. Flow(x)' = Flow(x) \o <<line>>
    <3> HIDE DEF line
    <3>1. <<line>> \in Seq(ClientLine)
      BY <1>2
    <3>2. Edges(<<line>>) = <<line>>
      BY <1>2, SelectedOne DEF Edges
    <3>3. Flow(x)' = Flow(x) \o Edges(<<line>>)
      BY <1>1, <1>3, <3>1, FlowOutput
    <3> QED
      BY <3>2, <3>3
  <2>4. CASE started
    <3> DEFINE m == Message("start", x)  n == Message("end", x)
    <3>1. line = n /\ Flow(x) = <<m>>
      BY <2>1, <2>4
    <3> HIDE DEF m, n, line
    <3>2. <<m>> \o <<n>> = <<m, n>>
      <4>1. <<m>> \in Seq({m, n}) /\ n \in {m, n} /\ Append(<<m>>, n) = <<m, n>>
        BY PairOf
      <4> QED
        BY <4>1, AppendIsConcat
    <3>3. Flow(x)' = <<m, n>>
      BY <2>3, <3>1, <3>2, Zenon
    <3>4. Flow(x)' = Whole(x)'
      BY <3>3 DEF Whole, m, n
    <3> QED
      BY <1>1, <2>2, <2>4, <3>4 DEF Serves
  <2>5. CASE ~started
    <3> DEFINE m == Message("start", x)
    <3>1. line = m /\ Flow(x) = <<>>
      BY <2>1, <2>5
    <3> HIDE DEF m, line
    <3>2. <<>> \o <<m>> = <<m>>
      OBVIOUS
    <3>3. Flow(x)' = <<m>>
      BY <2>3, <3>1, <3>2, Zenon
    <3>4. run' = x /\ started' = TRUE
      BY <1>1, <2>1, <2>5
    <3> QED
      BY <2>2, <3>3, <3>4 DEF Serves, m
  <2> QED
    BY <1>1, <2>4, <2>5
<1> QED
  BY <1>1, <1>4, ApartRun

LEMMA EndCommandRun ==
    ASSUME RpcInv, RunInv, NEW c \in Calls, EndCommand(c)
    PROVE  RunInv'
<1>1. /\ UNCHANGED <<collected, waiter, eventListeners, request, tidy, run, started, toAgent>>
      /\ Collected
  BY DEF EndCommand, clientVars, RunInv
<1>2. PICK of \in Calls \cup {"none"} : Output(<<Message("response", of)>>)
  BY DEF EndCommand
<1>3. Message("response", of) \in ClientLine /\ Message("response", of).type = "response"
  BY DEF Message, ClientLine
<1> DEFINE line == Message("response", of)
<1>4. line \in ClientLine /\ line.type = "response" /\ Output(<<line>>)
  BY <1>2, <1>3
<1> HIDE DEF line
<1>5. <<line>> \in Seq(ClientLine) /\ \A i \in DOMAIN <<line>> : <<line>>[i].type = "response"
  BY <1>4
<1>6. \A x \in Calls : Flow(x)' = Flow(x)
  BY <1>1, <1>4, <1>5, FlowSame
<1>7. Asked' = Asked
  BY <1>1 DEF Asked
<1> QED
  BY <1>1, <1>6, <1>7, Aside

LEMMA DialogRun ==
    ASSUME RpcInv, RunInv, NEW d \in Dialogs, OpenDialog(d) \/ Reply(d) \/ DialogTimeout(d)
    PROVE  RunInv'
<1>1. /\ UNCHANGED <<collected, waiter, eventListeners, request, tidy, run, started>>
      /\ Collected
  BY DEF OpenDialog, Reply, DialogTimeout, clientVars, agentVars, RunInv
<1>2. CASE OpenDialog(d)
  <2> DEFINE line == Message("dialog", d)
  <2>1. line \in ClientLine /\ line.type = "dialog" /\ Output(<<line>>) /\ UNCHANGED toAgent
    BY <1>2 DEF OpenDialog, Message, ClientLine
  <2> HIDE DEF line
  <2>2. <<line>> \in Seq(ClientLine) /\ \A i \in DOMAIN <<line>> : <<line>>[i].type = "dialog"
    BY <2>1
  <2>3. \A x \in Calls : Flow(x)' = Flow(x)
    BY <1>1, <2>1, <2>2, FlowSame
  <2>4. Asked' = Asked
    BY <2>1 DEF Asked
  <2> QED
    BY <1>1, <2>3, <2>4, Aside
<1>3. CASE Reply(d)
  <2> DEFINE line == Message("answer", d)
  <2>1. /\ line \in AgentLine /\ line.type = "answer"
        /\ toAgent' = Append(toAgent, line) /\ UNCHANGED toClient
    BY <1>3 DEF Reply, Message, AgentLine
  <2> HIDE DEF line
  <2>2. Asked' = Asked
    BY <2>1, AskedAppend
  <2> QED
    BY <1>1, <2>1, <2>2, FlowStill, Aside
<1>4. CASE DialogTimeout(d)
  <2>1. UNCHANGED <<toAgent, toClient>>
    BY <1>4 DEF DialogTimeout
  <2>2. Asked' = Asked
    BY <2>1 DEF Asked
  <2> QED
    BY <1>1, <2>1, <2>2, FlowStill, Aside
<1> QED
  BY <1>2, <1>3, <1>4

LEMMA RunInitInv == RpcInit => RunInv
<1> SUFFICES ASSUME RpcInit PROVE RunInv
  OBVIOUS
<1>1. DOMAIN <<>> = {} /\ <<>> \in Seq(ClientLine)
  OBVIOUS
<1>2. Collected
  BY <1>1 DEF RpcInit, Collected
<1>3. First
  BY <1>1 DEF RpcInit, First
<1>4. Served /\ Complete
  BY DEF RpcInit, Served, Owner, Complete
<1> QED
  BY <1>2, <1>3, <1>4 DEF RunInv

LEMMA RunNextInv == RpcInv /\ RunInv /\ [RpcNext]_rpcVars => RunInv'
<1> SUFFICES ASSUME RpcInv, RunInv, [RpcNext]_rpcVars PROVE RunInv'
  OBVIOUS
<1>1. CASE Receive \/ Stop \/ Stopped \/ TakeLine \/ RunEvent \/ Shutdown
  BY <1>1, ReceiveRun, StopRun, TakeLineRun, RunEventRun
<1>2. ASSUME NEW c \in Calls,
             \/ Command(c) \/ Prompt(c) \/ PromptAndWait(c) \/ WaitForIdle(c)
             \/ RequestTimeout(c) \/ WaiterTimeout(c) \/ EndCommand(c)
      PROVE  RunInv'
  BY <1>2, CommandRun, PromptRun, PromptAndWaitRun, WaitForIdleRun, RequestTimeoutRun,
     WaiterTimeoutRun, EndCommandRun
<1>3. ASSUME NEW d \in Dialogs, OpenDialog(d) \/ Reply(d) \/ DialogTimeout(d) PROVE RunInv'
  BY <1>3, DialogRun
<1>4. CASE UNCHANGED rpcVars
  <2>1. /\ UNCHANGED <<collected, waiter, eventListeners, request, tidy, run, started, toAgent, toClient>>
    BY <1>4 DEF rpcVars, clientVars, agentVars
  <2>2. Asked' = Asked
    BY <2>1 DEF Asked
  <2> QED
    BY <2>1, <2>2, FlowStill, Aside
<1> QED
  BY <1>1, <1>2, <1>3, <1>4 DEF RpcNext

\* As long as prompts are sent one after the other, promptAndWait gives its
\* caller the first and the last event of its own run, in this order and of no
\* other run: whatever was refused, timed out or came late before it, and whoever
\* else was waiting.
THEOREM RunsStayOwn == RpcSpec => []OwnRun
<1>1. RpcInit => RpcInv /\ RunInv
  BY RpcInitInv, RunInitInv
<1>2. RpcInv /\ RunInv /\ [RpcNext]_rpcVars => RpcInv' /\ RunInv'
  BY RpcNextInv, RunNextInv
<1>3. RunInv => OwnRun
  BY DEF RunInv, Complete, OwnRun, Edges, Whole
<1> QED
  BY <1>1, <1>2, <1>3, PTL DEF RpcSpec

-------------------------------------------------------------------------------
(* Numbers. *)

LEMMA MaxTwo ==
    ASSUME NEW a \in Int, NEW b \in Int
    PROVE  Max({a, b}) = IF a >= b THEN a ELSE b
<1> DEFINE S == {a, b}  m == IF a >= b THEN a ELSE b
<1>1. m \in S /\ \A y \in S : m >= y
  OBVIOUS
<1>2. \A x \in S : (\A y \in S : x >= y) => x = m
  OBVIOUS
<1> HIDE DEF S, m
<1>3. Max(S) \in S /\ \A y \in S : Max(S) >= y
  BY <1>1 DEF Max
<1> QED
  BY <1>2, <1>3 DEF S, m

LEMMA MinTwo ==
    ASSUME NEW a \in Int, NEW b \in Int
    PROVE  Min({a, b}) = IF a <= b THEN a ELSE b
<1> DEFINE S == {a, b}  m == IF a <= b THEN a ELSE b
<1>1. m \in S /\ \A y \in S : m <= y
  OBVIOUS
<1>2. \A x \in S : (\A y \in S : x <= y) => x = m
  OBVIOUS
<1> HIDE DEF S, m
<1>3. Min(S) \in S /\ \A y \in S : Min(S) <= y
  BY <1>1 DEF Min
<1> QED
  BY <1>2, <1>3 DEF S, m

LEMMA MaxThree ==
    ASSUME NEW a \in Int, NEW b \in Int, NEW c \in Int
    PROVE  Max({a, b, c}) \in {a, b, c} /\ Max({a, b, c}) >= a /\ Max({a, b, c}) >= b /\ Max({a, b, c}) >= c
<1> DEFINE S == {a, b, c}
<1>1. \E m \in S : \A y \in S : m >= y
  <2>1. CASE a >= b /\ a >= c
    BY <2>1
  <2>2. CASE b >= a /\ b >= c
    BY <2>2
  <2>3. CASE c >= a /\ c >= b
    BY <2>3
  <2> QED
    BY <2>1, <2>2, <2>3
<1> HIDE DEF S
<1>2. Max(S) \in S /\ \A y \in S : Max(S) >= y
  BY <1>1 DEF Max
<1> QED
  BY <1>2 DEF S

-------------------------------------------------------------------------------
(* The terminal. *)

Glyphs == Lines \cup {Blank, Mixed, "overlay"}
Terminals == {t \in [rows : Seq(Glyphs), top : Nat, cursor : Nat] :
                 /\ Len(t.rows) = t.top + Height
                 /\ t.cursor >= t.top /\ t.cursor <= (t.top + Height) - 1}

\* What a row shows, or would if the terminal were scrolled there.
Row(t, k) == IF k < Len(t.rows) THEN t.rows[k + 1] ELSE Blank

\* The terminal with its cursor in another row, perhaps scrolled.
Moved(t, u, cursor, top) ==
    /\ u \in Terminals /\ u.cursor = cursor /\ u.top = top
    /\ \A k \in Nat : Row(u, k) = Row(t, k)

LEMMA DownIs ==
    ASSUME NEW t \in Terminals, NEW n \in Nat
    PROVE  Moved(t, Down(t, n), IF t.cursor + n <= (t.top + Height) - 1 THEN t.cursor + n ELSE (t.top + Height) - 1, t.top)
<1> DEFINE b == (t.top + Height) - 1
           c == IF t.cursor + n <= b THEN t.cursor + n ELSE b
           u == Down(t, n)
<1>1. /\ t \in [rows : Seq(Glyphs), top : Nat, cursor : Nat] /\ Len(t.rows) = t.top + Height
      /\ t.cursor >= t.top /\ t.cursor <= b
  BY DEF Terminals
<1>2. t.cursor \in Nat /\ t.top \in Nat /\ b \in Int /\ Height \in Nat
  BY <1>1, RendererAssumption
<1>3. Min({t.cursor + n, b}) = c
  BY <1>2, MinTwo
<1>4. u = [t EXCEPT !.cursor = c]
  <2>1. Bottom(t) = b
    BY <1>2 DEF Bottom
  <2>2. u = [t EXCEPT !.cursor = Min({t.cursor + n, Bottom(t)})]
    BY Zenon DEF Down
  <2> QED
    BY <1>3, <2>1, <2>2, Zenon
<1>5. c \in Nat /\ c >= t.top /\ c <= b
  BY <1>1, <1>2
<1> HIDE DEF c, u
<1>6. u.rows = t.rows /\ u.top = t.top /\ u.cursor = c /\ u \in [rows : Seq(Glyphs), top : Nat, cursor : Nat]
  BY <1>1, <1>4, <1>5
<1>7. u \in Terminals
  BY <1>1, <1>5, <1>6 DEF Terminals
<1>8. \A k \in Nat : Row(u, k) = Row(t, k)
  BY <1>6 DEF Row
<1> QED
  BY <1>6, <1>7, <1>8 DEF Moved, u, c

LEMMA UpIs ==
    ASSUME NEW t \in Terminals, NEW n \in Nat
    PROVE  Moved(t, Up(t, n), IF t.cursor - n >= t.top THEN t.cursor - n ELSE t.top, t.top)
<1> DEFINE c == IF t.cursor - n >= t.top THEN t.cursor - n ELSE t.top
           u == Up(t, n)
<1>1. /\ t \in [rows : Seq(Glyphs), top : Nat, cursor : Nat] /\ Len(t.rows) = t.top + Height
      /\ t.cursor >= t.top /\ t.cursor <= (t.top + Height) - 1
  BY DEF Terminals
<1>2. t.cursor \in Nat /\ t.top \in Nat /\ Height \in Nat
  BY <1>1, RendererAssumption
<1>3. Max({t.cursor - n, t.top}) = c
  BY <1>2, MaxTwo
<1>4. u = [t EXCEPT !.cursor = c]
  BY <1>3 DEF Up
<1>5. c \in Nat /\ c >= t.top /\ c <= (t.top + Height) - 1
  BY <1>1, <1>2
<1> HIDE DEF c, u
<1>6. u.rows = t.rows /\ u.top = t.top /\ u.cursor = c /\ u \in [rows : Seq(Glyphs), top : Nat, cursor : Nat]
  BY <1>1, <1>4, <1>5
<1>7. u \in Terminals
  BY <1>1, <1>5, <1>6 DEF Terminals
<1>8. \A k \in Nat : Row(u, k) = Row(t, k)
  BY <1>6 DEF Row
<1> QED
  BY <1>6, <1>7, <1>8 DEF Moved, u, c

\* A move ends on the screen; where it leads to a row of the screen, there.
LEMMA MoveIs ==
    ASSUME NEW t \in Terminals, NEW diff \in Int
    PROVE  /\ Move(t, diff) \in Terminals
           /\ t.cursor + diff \in (t.top)..((t.top + Height) - 1) => Moved(t, Move(t, diff), t.cursor + diff, t.top)
<1> DEFINE b == (t.top + Height) - 1
<1>1. t.cursor \in Nat /\ t.top \in Nat /\ b \in Int /\ Height \in Nat
  BY RendererAssumption DEF Terminals
<1>2. CASE diff > 0
  <2>1. diff \in Nat /\ Move(t, diff) = Down(t, diff)
    BY <1>2 DEF Move
  <2>2. Moved(t, Down(t, diff), IF t.cursor + diff <= b THEN t.cursor + diff ELSE b, t.top)
    BY <2>1, DownIs
  <2>3. t.cursor + diff \in (t.top)..b => t.cursor + diff <= b
    BY <1>1
  <2> QED
    BY <2>1, <2>2, <2>3 DEF Moved
<1>3. CASE ~(diff > 0)
  <2>1. -diff \in Nat /\ Move(t, diff) = Up(t, -diff)
    BY <1>3 DEF Move
  <2>2. Moved(t, Up(t, -diff), IF t.cursor - (-diff) >= t.top THEN t.cursor - (-diff) ELSE t.top, t.top)
    BY <2>1, UpIs
  <2>3. t.cursor + diff \in (t.top)..b => t.cursor - (-diff) >= t.top
    BY <1>1
  <2>4. t.cursor - (-diff) = t.cursor + diff
    BY <1>1
  <2> QED
    BY <2>1, <2>2, <2>3, <2>4 DEF Moved
<1> QED
  BY <1>2, <1>3

LEMMA NewLineIs ==
    ASSUME NEW t \in Terminals
    PROVE  Moved(t, NewLine(t), t.cursor + 1, IF t.cursor < (t.top + Height) - 1 THEN t.top ELSE t.top + 1)
<1> DEFINE b == (t.top + Height) - 1  u == NewLine(t)
<1>1. /\ t \in [rows : Seq(Glyphs), top : Nat, cursor : Nat] /\ Len(t.rows) = t.top + Height
      /\ t.cursor >= t.top /\ t.cursor <= b
  BY DEF Terminals
<1>2. t.cursor \in Nat /\ t.top \in Nat /\ b \in Int /\ Height \in Nat \ {0} /\ t.rows \in Seq(Glyphs)
  BY <1>1, RendererAssumption
<1>5. Bottom(t) = b
  BY <1>2 DEF Bottom
<1>3. CASE t.cursor < b
  <2>1. u = [t EXCEPT !.cursor = t.cursor + 1]
    <3>1. t.cursor < Bottom(t)
      BY <1>3, <1>5
    <3> QED
      BY <3>1, Zenon DEF NewLine
  <2> HIDE DEF u
  <2>2. /\ u.rows = t.rows /\ u.top = t.top /\ u.cursor = t.cursor + 1
        /\ u \in [rows : Seq(Glyphs), top : Nat, cursor : Nat]
    BY <1>1, <1>2, <2>1
  <2>3. u \in Terminals
    BY <1>1, <1>2, <1>3, <2>2 DEF Terminals
  <2>4. \A k \in Nat : Row(u, k) = Row(t, k)
    BY <2>2 DEF Row
  <2> QED
    BY <1>3, <2>2, <2>3, <2>4 DEF Moved, u
<1>4. CASE ~(t.cursor < b)
  <2>1. u = [rows |-> Append(t.rows, Blank), top |-> t.top + 1, cursor |-> t.cursor + 1]
    <3>1. ~(t.cursor < Bottom(t))
      BY <1>4, <1>5
    <3> QED
      BY <3>1, Zenon DEF NewLine
  <2> DEFINE r == Append(t.rows, Blank)
  <2>2. /\ r \in Seq(Glyphs) /\ Len(r) = Len(t.rows) + 1 /\ Len(t.rows) \in Nat
        /\ r[Len(t.rows) + 1] = Blank /\ \A i \in 1..Len(t.rows) : r[i] = t.rows[i]
    <3>1. Blank \in Glyphs
      BY DEF Glyphs
    <3> QED
      BY <1>2, <3>1
  <2> HIDE DEF u
  <2>3. u.rows = r /\ u.top = t.top + 1 /\ u.cursor = t.cursor + 1
    BY <2>1
  <2> HIDE DEF r
  <2>4. u \in [rows : Seq(Glyphs), top : Nat, cursor : Nat]
    BY <1>2, <2>1, <2>2 DEF r
  <2>5. u \in Terminals
    BY <1>1, <1>2, <1>4, <2>2, <2>3, <2>4 DEF Terminals
  <2>6. ASSUME NEW k \in Nat PROVE Row(u, k) = Row(t, k)
    <3>1. CASE k < Len(t.rows)
      <4>1. k + 1 \in 1..Len(t.rows) /\ k < Len(r)
        BY <2>2, <3>1
      <4> QED
        BY <2>2, <2>3, <3>1, <4>1 DEF Row
    <3>2. CASE k = Len(t.rows)
      BY <2>2, <2>3, <3>2 DEF Row
    <3>3. CASE k > Len(t.rows)
      <4>1. ~(k < Len(t.rows)) /\ ~(k < Len(r))
        BY <2>2, <3>3
      <4> QED
        BY <2>3, <4>1 DEF Row
    <3> QED
      BY <2>2, <3>1, <3>2, <3>3
  <2> QED
    BY <1>4, <2>3, <2>5, <2>6 DEF Moved, u
<1> QED
  BY <1>3, <1>4

\* The terminal with one row changed.
Changed(t, u, row, line) ==
    /\ u \in Terminals /\ u.cursor = t.cursor /\ u.top = t.top
    /\ \A k \in Nat : Row(u, k) = IF k = row THEN line ELSE Row(t, k)

LEMMA RowSet ==
    ASSUME NEW t \in Terminals, NEW line \in Glyphs
    PROVE  Changed(t, [t EXCEPT !.rows[t.cursor + 1] = line], t.cursor, line)
<1> DEFINE u == [t EXCEPT !.rows[t.cursor + 1] = line]
           c == t.cursor + 1
           r == [t.rows EXCEPT ![c] = line]
<1>1. /\ t \in [rows : Seq(Glyphs), top : Nat, cursor : Nat] /\ Len(t.rows) = t.top + Height
      /\ t.cursor >= t.top /\ t.cursor <= (t.top + Height) - 1
  BY DEF Terminals
<1>2. t.cursor \in Nat /\ t.top \in Nat /\ Height \in Nat \ {0} /\ t.rows \in Seq(Glyphs)
  BY <1>1, RendererAssumption
<1>3. u = [t EXCEPT !.rows = r]
  OBVIOUS
<1>4. c \in 1..Len(t.rows)
  BY <1>1, <1>2
<1>5. r \in Seq(Glyphs) /\ Len(r) = Len(t.rows) /\ Len(t.rows) \in Nat
      /\ \A i \in 1..Len(t.rows) : r[i] = IF i = c THEN line ELSE t.rows[i]
  BY <1>2, <1>4
<1> HIDE DEF r, u
<1>6. u.rows = r /\ u.top = t.top /\ u.cursor = t.cursor /\ u \in [rows : Seq(Glyphs), top : Nat, cursor : Nat]
  BY <1>1, <1>3, <1>5
<1>7. u \in Terminals
  BY <1>1, <1>5, <1>6 DEF Terminals
<1>8. ASSUME NEW k \in Nat PROVE Row(u, k) = IF k = t.cursor THEN line ELSE Row(t, k)
  <2>1. CASE k < Len(t.rows)
    <3>1. k + 1 \in 1..Len(t.rows) /\ (k + 1 = c <=> k = t.cursor)
      BY <1>2, <1>5, <2>1
    <3> QED
      BY <1>5, <1>6, <2>1, <3>1 DEF Row
  <2>2. CASE ~(k < Len(t.rows))
    <3>1. k # t.cursor
      BY <1>2, <1>4, <1>5, <2>2
    <3> QED
      BY <1>5, <1>6, <2>2, <3>1 DEF Row
  <2> QED
    BY <2>1, <2>2
<1> QED
  BY <1>6, <1>7, <1>8 DEF Changed, u

LEMMA EraseIs ==
    ASSUME NEW t \in Terminals
    PROVE  Changed(t, Erase(t), t.cursor, Blank)
<1>1. Blank \in Glyphs
  BY DEF Glyphs
<1>2. Changed(t, [t EXCEPT !.rows[t.cursor + 1] = Blank], t.cursor, Blank)
  BY <1>1, RowSet
<1> QED
  BY <1>2, Zenon DEF Erase

\* What is put on a clean row is all that it shows.
LEMMA PutIs ==
    ASSUME NEW t \in Terminals, NEW line \in Glyphs
    PROVE  \E shown \in Glyphs : /\ Changed(t, Put(t, line), t.cursor, shown)
                                 /\ Row(t, t.cursor) = Blank => shown = line
<1> DEFINE old == t.rows[t.cursor + 1]
           shown == CASE old = Blank -> line [] line \in {Blank, old} -> old [] OTHER -> Mixed
<1>1. t.cursor < Len(t.rows) /\ t.cursor + 1 \in 1..Len(t.rows) /\ t.rows \in Seq(Glyphs)
  BY RendererAssumption DEF Terminals
<1>2. old \in Glyphs /\ Row(t, t.cursor) = old
  BY <1>1 DEF Row
<1> HIDE DEF old
<1>3. CASE old = Blank
  <2>1. shown = line
    BY <1>3
  <2> QED
    BY <2>1, RowSet, Zenon DEF Put, old
<1>4. CASE old # Blank
  <2>1. CASE line \in {Blank, old}
    <3>1. shown = old
      BY <1>4, <2>1
    <3> HIDE DEF shown
    <3>2. shown \in Glyphs
      BY <1>2, <3>1
    <3>3. Changed(t, [t EXCEPT !.rows[t.cursor + 1] = shown], t.cursor, shown)
      BY <3>2, RowSet
    <3>4. Put(t, line) = [t EXCEPT !.rows[t.cursor + 1] = shown]
      BY Zenon DEF Put, old, shown
    <3> QED
      BY <1>2, <1>4, <3>2, <3>3, <3>4
  <2>2. CASE line \notin {Blank, old}
    <3>1. shown = Mixed
      BY <1>4, <2>2
    <3> HIDE DEF shown
    <3>2. shown \in Glyphs
      BY <3>1 DEF Glyphs
    <3>3. Changed(t, [t EXCEPT !.rows[t.cursor + 1] = shown], t.cursor, shown)
      BY <3>2, RowSet
    <3>4. Put(t, line) = [t EXCEPT !.rows[t.cursor + 1] = shown]
      BY Zenon DEF Put, old, shown
    <3> QED
      BY <1>2, <1>4, <3>2, <3>3, <3>4
  <2> QED
    BY <2>1, <2>2
<1> QED
  BY <1>3, <1>4

LEMMA PutLineIs ==
    ASSUME NEW t \in Terminals, NEW line \in Glyphs, NEW how
    PROVE  /\ PutLine(t, line, how) \in Terminals
           /\ how # "write" \/ Row(t, t.cursor) = Blank => Changed(t, PutLine(t, line, how), t.cursor, line)
<1>1. CASE how = "write"
  <2>1. PutLine(t, line, how) = Put(t, line)
    BY <1>1, Zenon DEF PutLine
  <2> DEFINE u == Put(t, line)
  <2>2. PICK shown \in Glyphs : /\ Changed(t, u, t.cursor, shown)
                                /\ Row(t, t.cursor) = Blank => shown = line
    BY PutIs
  <2> HIDE DEF u
  <2>3. u \in Terminals
    BY <2>2 DEF Changed
  <2>4. how # "write" \/ Row(t, t.cursor) = Blank => Changed(t, u, t.cursor, line)
    BY <1>1, <2>2
  <2> QED
    BY <2>1, <2>3, <2>4 DEF u
<1>2. CASE how # "write"
  <2> DEFINE u == Erase(t)
  <2>1. PutLine(t, line, how) = Put(u, line)
    BY <1>2, Zenon DEF PutLine
  <2>2. Changed(t, u, t.cursor, Blank)
    BY EraseIs
  <2> HIDE DEF u
  <2>3. t.cursor \in Nat
    BY DEF Terminals
  <2>4. u \in Terminals /\ u.cursor = t.cursor /\ u.top = t.top /\ Row(u, u.cursor) = Blank
    BY <2>2, <2>3 DEF Changed
  <2>5. Changed(u, Put(u, line), u.cursor, line)
    BY <2>4, PutIs
  <2> DEFINE v == Put(u, line)
  <2> HIDE DEF v
  <2>6. v \in Terminals /\ v.cursor = t.cursor /\ v.top = t.top
    BY <2>4, <2>5 DEF Changed, v
  <2>7. \A k \in Nat : Row(v, k) = IF k = t.cursor THEN line ELSE Row(t, k)
    BY <2>2, <2>4, <2>5 DEF Changed, v
  <2>8. Changed(t, v, t.cursor, line)
    BY <2>6, <2>7 DEF Changed
  <2> QED
    BY <2>1, <2>6, <2>8 DEF v
<1> QED
  BY <1>1, <1>2

LEMMA AdvanceIs ==
    ASSUME NEW t \in Terminals, NEW how
    PROVE  /\ Advance(t, how) \in Terminals
           /\ how # "erase" \/ t.cursor < (t.top + Height) - 1 =>
                  Moved(t, Advance(t, how), t.cursor + 1, IF t.cursor < (t.top + Height) - 1 THEN t.top ELSE t.top + 1)
<1>1. CASE how = "erase"
  <2>1. Advance(t, how) = Down(t, 1)
    BY <1>1, Zenon DEF Advance
  <2>2. Moved(t, Down(t, 1), IF t.cursor + 1 <= (t.top + Height) - 1 THEN t.cursor + 1 ELSE (t.top + Height) - 1, t.top)
    BY DownIs
  <2>3. t.cursor \in Nat /\ t.top \in Nat /\ Height \in Nat
    BY RendererAssumption DEF Terminals
  <2>4. t.cursor < (t.top + Height) - 1 => t.cursor + 1 <= (t.top + Height) - 1
    BY <2>3
  <2> QED
    BY <1>1, <2>1, <2>2, <2>4 DEF Moved
<1>2. CASE how # "erase"
  <2>1. Advance(t, how) = NewLine(t)
    BY <1>2, Zenon DEF Advance
  <2> QED
    BY <2>1, NewLineIs DEF Moved
<1> QED
  BY <1>1, <1>2

-------------------------------------------------------------------------------
(* Several lines. *)

After(u, i, t, how) == IF i = 1 THEN t ELSE Advance(u, how)
Writes(f, t, lines, how) ==
    /\ f[0] = t
    /\ \A i \in 1..Len(lines) : f[i] = PutLine(After(f[i - 1], i, t, how), lines[i], how)

LEMMA AfterType ==
    ASSUME NEW t \in Terminals, NEW u \in Terminals, NEW i, NEW how
    PROVE  After(u, i, t, how) \in Terminals
BY AdvanceIs DEF After

LEMMA WritesExists ==
    ASSUME NEW t \in Terminals, NEW lines \in Seq(Glyphs), NEW how
    PROVE  \E f \in [0..Len(lines) -> Terminals] : Writes(f, t, lines, how)
<1> DEFINE n == Len(lines)
           T == Terminals
           Fits(f, k) == f[0] = t /\ \A i \in 1..(k - 1) : f[i] = PutLine(After(f[i - 1], i, t, how), lines[i], how)
           G == {k \in Nat : \E f \in [0..(k - 1) -> T] : Fits(f, k)}
<1>1. n \in Nat /\ \A i \in 1..n : lines[i] \in Glyphs
  OBVIOUS
<1>2. 1 \in G
  <2> DEFINE f == [i \in 0..(1 - 1) |-> t]
  <2>1. t \in T
    OBVIOUS
  <2> HIDE DEF T
  <2>2. f \in [0..(1 - 1) -> T] /\ f[0] = t
    BY <2>1
  <2>3. Fits(f, 1)
    BY <2>2
  <2> QED
    BY <2>2, <2>3
<1>3. ASSUME NEW k \in 1..n, k \in G PROVE k + 1 \in G
  <2>1. PICK f \in [0..(k - 1) -> T] : Fits(f, k)
    BY <1>3
  <2> DEFINE e == PutLine(After(f[k - 1], k, t, how), lines[k], how)
             g == [i \in 0..((k + 1) - 1) |-> IF i = k THEN e ELSE f[i]]
  <2>2. e \in T
    <3>1. k - 1 \in 0..(k - 1)
      BY <1>1
    <3>2. f[k - 1] \in T
      BY <3>1
    <3>3. After(f[k - 1], k, t, how) \in Terminals /\ lines[k] \in Glyphs
      BY <1>1, <3>2, AfterType
    <3> QED
      BY <3>3, PutLineIs
  <2>3. \A i \in 0..k : i # k => i \in 0..(k - 1)
    BY <1>1
  <2>4. (k + 1) - 1 = k /\ k \in Nat /\ k + 1 \in Nat
    BY <1>1
  <2> HIDE DEF e, T
  <2>5. g \in [0..((k + 1) - 1) -> T]
    BY <2>2, <2>3, <2>4
  <2>6. g[k] = e /\ \A i \in 0..(k - 1) : g[i] = f[i]
    BY <2>4
  <2> HIDE DEF g
  <2>7. g[0] = t
    BY <1>1, <2>1, <2>6
  <2>8. ASSUME NEW i \in 1..((k + 1) - 1)
        PROVE  g[i] = PutLine(After(g[i - 1], i, t, how), lines[i], how)
    <3>1. CASE i = k
      <4>1. g[i - 1] = f[k - 1]
        BY <1>1, <2>6, <3>1
      <4> QED
        BY <2>6, <3>1, <4>1 DEF e
    <3>2. CASE i # k
      <4>1. i \in 1..(k - 1) /\ i \in 0..(k - 1) /\ i - 1 \in 0..(k - 1)
        BY <1>1, <3>2
      <4>2. g[i] = f[i] /\ g[i - 1] = f[i - 1]
        BY <2>6, <4>1
      <4> QED
        BY <2>1, <4>1, <4>2
    <3> QED
      BY <3>1, <3>2
  <2>9. Fits(g, k + 1)
    BY <2>7, <2>8
  <2> HIDE DEF Fits
  <2> QED
    BY <2>4, <2>5, <2>9
<1>4. n + 1 \in G
  <2> HIDE DEF G
  <2>1. \A i \in 1..n : i \in G => i + 1 \in G
    BY <1>3
  <2>2. 1..(n + 1) \subseteq G
    BY <1>1, <1>2, <2>1, Climb
  <2> QED
    BY <1>1, <2>2
<1>5. PICK f \in [0..((n + 1) - 1) -> T] : Fits(f, n + 1)
  BY <1>4
<1>6. (n + 1) - 1 = n
  BY <1>1
<1> QED
  BY <1>5, <1>6 DEF Writes

LEMMA WritesUnique ==
    ASSUME NEW t, NEW lines \in Seq(Glyphs), NEW how, NEW f, NEW g,
           Writes(f, t, lines, how), Writes(g, t, lines, how)
    PROVE  f[Len(lines)] = g[Len(lines)]
<1> DEFINE n == Len(lines)
           G == {k \in Nat : f[k - 1] = g[k - 1]}
<1>1. n \in Nat
  OBVIOUS
<1>2. 1 \in G
  BY DEF Writes
<1>3. ASSUME NEW k \in 1..n, k \in G PROVE k + 1 \in G
  <2>1. k + 1 \in Nat /\ (k + 1) - 1 = k
    BY <1>1
  <2>2. f[k - 1] = g[k - 1]
    BY <1>3
  <2>3. f[k] = g[k]
    BY <2>2 DEF Writes
  <2> QED
    BY <2>1, <2>3
<1>4. n + 1 \in G
  <2> HIDE DEF G
  <2>1. \A i \in 1..n : i \in G => i + 1 \in G
    BY <1>3
  <2>2. 1..(n + 1) \subseteq G
    BY <1>1, <1>2, <2>1, Climb
  <2> QED
    BY <1>1, <2>2
<1>5. (n + 1) - 1 = n
  BY <1>1
<1> QED
  BY <1>4, <1>5

\* The function of PutLines ends where any that writes line by line does.
LEMMA PutLinesIs ==
    ASSUME NEW t \in Terminals, NEW lines \in Seq(Glyphs), NEW how
    PROVE  \E f \in [0..Len(lines) -> Terminals] : Writes(f, t, lines, how) /\ PutLines(t, lines, how) = f[Len(lines)]
<1> DEFINE n == Len(lines)
           Step(h) == [i \in 0..n |-> IF i = 0 THEN t
                                      ELSE PutLine(IF i = 1 THEN t ELSE Advance(h[i - 1], how), lines[i], how)]
           upTo == CHOOSE h : h = Step(h)
<1>1. n \in Nat
  OBVIOUS
<1>2. PICK f \in [0..n -> Terminals] : Writes(f, t, lines, how)
  BY WritesExists
<1>3. f = Step(f)
  <2>1. Step(f)[0] = f[0]
    BY <1>1, <1>2 DEF Writes
  <2>2. ASSUME NEW i \in 1..n PROVE Step(f)[i] = f[i]
    <3>1. f[i] = PutLine(After(f[i - 1], i, t, how), lines[i], how)
      BY <1>2 DEF Writes
    <3>2. i \in 0..n /\ i # 0
      BY <1>1
    <3>3. Step(f)[i] = PutLine(IF i = 1 THEN t ELSE Advance(f[i - 1], how), lines[i], how)
      BY <3>2
    <3> QED
      BY <3>1, <3>3, Zenon DEF After
  <2>3. \A i \in 0..n : Step(f)[i] = f[i]
    <3>1. \A i \in 0..n : i = 0 \/ i \in 1..n
      BY <1>1
    <3> HIDE DEF Step
    <3> QED
      BY <2>1, <2>2, <3>1
  <2>4. DOMAIN Step(f) = 0..n /\ Step(f) = [i \in 0..n |-> Step(f)[i]]
    OBVIOUS
  <2> HIDE DEF Step
  <2> QED
    BY <2>3, <2>4
<1>4. upTo = Step(upTo)
  <2> HIDE DEF Step
  <2> QED
    BY <1>3
<1> HIDE DEF upTo
<1>5. Writes(upTo, t, lines, how)
  <2>1. upTo[0] = t
    <3>1. 0 \in 0..n
      BY <1>1
    <3>2. Step(upTo)[0] = t
      BY <3>1
    <3> QED
      BY <1>4, <3>2
  <2>2. ASSUME NEW i \in 1..n PROVE upTo[i] = PutLine(After(upTo[i - 1], i, t, how), lines[i], how)
    <3>1. i \in 0..n /\ i # 0
      BY <1>1
    <3>2. Step(upTo)[i] = PutLine(IF i = 1 THEN t ELSE Advance(upTo[i - 1], how), lines[i], how)
      BY <3>1
    <3>3. upTo[i] = PutLine(IF i = 1 THEN t ELSE Advance(upTo[i - 1], how), lines[i], how)
      BY <1>4, <3>2
    <3> QED
      BY <3>3, Zenon DEF After
  <2> QED
    BY <2>1, <2>2 DEF Writes
<1>6. PutLines(t, lines, how) = upTo[n]
  BY Zenon DEF PutLines, upTo
<1>7. upTo[n] = f[n]
  BY <1>2, <1>5, WritesUnique
<1> QED
  BY <1>2, <1>6, <1>7

\* The first i of the lines are written, from the cursor of t down.
LaidTo(t, u, lines, i) ==
    /\ u \in Terminals
    /\ u.cursor = (t.cursor + i) - 1
    /\ u.top = IF u.cursor <= (t.top + Height) - 1 THEN t.top ELSE (u.cursor - Height) + 1
    /\ \A k \in Nat : Row(u, k) = IF k >= t.cursor /\ k <= u.cursor THEN lines[(k - t.cursor) + 1] ELSE Row(t, k)

\* "write" needs clean rows, "erase" a screen that reaches as far.
Ready(t, lines, how) ==
    /\ how = "write" => \A k \in Nat : k >= t.cursor => Row(t, k) = Blank
    /\ how = "erase" => t.cursor + Len(lines) <= t.top + Height

LEMMA LaidOne ==
    ASSUME NEW t \in Terminals, NEW lines \in Seq(Glyphs), lines # <<>>, NEW how, Ready(t, lines, how)
    PROVE  LaidTo(t, PutLine(t, lines[1], how), lines, 1)
<1> DEFINE u == PutLine(t, lines[1], how)
<1>1. t.cursor \in Nat /\ t.top \in Nat /\ Height \in Nat /\ t.cursor <= (t.top + Height) - 1
  BY RendererAssumption DEF Terminals
<1>2. lines[1] \in Glyphs
  OBVIOUS
<1>3. how # "write" \/ Row(t, t.cursor) = Blank
  BY <1>1 DEF Ready
<1>4. Changed(t, u, t.cursor, lines[1])
  BY <1>2, <1>3, PutLineIs
<1> HIDE DEF u
<1>5. u \in Terminals /\ u.cursor = t.cursor /\ u.top = t.top
  BY <1>4 DEF Changed
<1>6. u.cursor = (t.cursor + 1) - 1 /\ u.cursor <= (t.top + Height) - 1
  BY <1>1, <1>5
<1>7. ASSUME NEW k \in Nat
      PROVE  Row(u, k) = IF k >= t.cursor /\ k <= u.cursor THEN lines[(k - t.cursor) + 1] ELSE Row(t, k)
  <2>1. Row(u, k) = IF k = t.cursor THEN lines[1] ELSE Row(t, k)
    BY <1>4 DEF Changed
  <2>2. k >= t.cursor /\ k <= u.cursor <=> k = t.cursor
    BY <1>1, <1>5
  <2>3. k = t.cursor => (k - t.cursor) + 1 = 1
    BY <1>1
  <2> QED
    BY <2>1, <2>2, <2>3
<1> QED
  BY <1>5, <1>6, <1>7 DEF LaidTo, u

\* The rows and the screen's top when the cursor goes on to the next line.
LEMMA NextRow ==
    ASSUME NEW tc \in Nat, NEW tt \in Nat, NEW h \in Nat \ {0}, tc <= (tt + h) - 1,
           NEW n \in Nat, NEW i \in Nat, i >= 1, i + 1 <= n,
           NEW uc \in Nat, uc = (tc + i) - 1,
           NEW ut \in Nat, ut = IF uc <= (tt + h) - 1 THEN tt ELSE (uc - h) + 1
    PROVE  /\ tc + n <= tt + h => uc < (ut + h) - 1
           /\ uc + 1 = tc + i /\ tc + i = (tc + (i + 1)) - 1
           /\ (IF uc < (ut + h) - 1 THEN ut ELSE ut + 1)
                  = IF tc + i <= (tt + h) - 1 THEN tt ELSE ((tc + i) - h) + 1
           /\ \A k \in Nat : k # tc + i => (k <= tc + i <=> k <= uc)
           /\ ~(tc + i <= uc) /\ ((tc + i) - tc) + 1 = i + 1
<1>1. tc + n <= tt + h => uc < (ut + h) - 1
  OBVIOUS
<1>2. uc + 1 = tc + i /\ tc + i = (tc + (i + 1)) - 1 /\ ~(tc + i <= uc) /\ ((tc + i) - tc) + 1 = i + 1
  OBVIOUS
<1>3. (IF uc < (ut + h) - 1 THEN ut ELSE ut + 1) = IF tc + i <= (tt + h) - 1 THEN tt ELSE ((tc + i) - h) + 1
  OBVIOUS
<1>4. \A k \in Nat : k # tc + i => (k <= tc + i <=> k <= uc)
  OBVIOUS
<1> QED
  BY <1>1, <1>2, <1>3, <1>4

LEMMA LaidNext ==
    ASSUME NEW t \in Terminals, NEW u \in Terminals, NEW lines \in Seq(Glyphs), NEW how, Ready(t, lines, how),
           NEW i \in 1..(Len(lines) - 1), LaidTo(t, u, lines, i)
    PROVE  LaidTo(t, PutLine(Advance(u, how), lines[i + 1], how), lines, i + 1)
<1> DEFINE b == (t.top + Height) - 1
           w == Advance(u, how)
           v == PutLine(w, lines[i + 1], how)
           c == t.cursor + i
<1>1. t.cursor \in Nat /\ t.top \in Nat /\ Height \in Nat \ {0} /\ t.cursor <= b
  BY RendererAssumption DEF Terminals
<1>2. Len(lines) \in Nat /\ i \in Nat /\ i + 1 <= Len(lines) /\ i >= 1 /\ lines[i + 1] \in Glyphs
  OBVIOUS
<1>3. /\ u.cursor \in Nat /\ u.top \in Nat /\ u.cursor <= (u.top + Height) - 1
      /\ u.cursor = c - 1 /\ u.top = IF u.cursor <= b THEN t.top ELSE (u.cursor - Height) + 1
  BY DEF Terminals, LaidTo
<1>n. /\ t.cursor + Len(lines) <= t.top + Height => u.cursor < (u.top + Height) - 1
      /\ u.cursor + 1 = c /\ c = (t.cursor + (i + 1)) - 1
      /\ (IF u.cursor < (u.top + Height) - 1 THEN u.top ELSE u.top + 1)
             = IF c <= b THEN t.top ELSE (c - Height) + 1
      /\ \A k \in Nat : k # c => (k <= c <=> k <= u.cursor)
      /\ ~(c <= u.cursor) /\ (c - t.cursor) + 1 = i + 1
  <2> DEFINE tc == t.cursor  tt == t.top  uc == u.cursor  ut == u.top  n == Len(lines)
  <2>1. /\ tc \in Nat /\ tt \in Nat /\ Height \in Nat \ {0} /\ tc <= (tt + Height) - 1
        /\ n \in Nat /\ i \in Nat /\ i >= 1 /\ i + 1 <= n /\ uc \in Nat /\ ut \in Nat
        /\ uc = (tc + i) - 1 /\ ut = IF uc <= (tt + Height) - 1 THEN tt ELSE (uc - Height) + 1
    BY <1>1, <1>2, <1>3
  <2> HIDE DEF tc, tt, uc, ut, n
  <2>2. /\ tc + n <= tt + Height => uc < (ut + Height) - 1
        /\ uc + 1 = tc + i /\ tc + i = (tc + (i + 1)) - 1
        /\ (IF uc < (ut + Height) - 1 THEN ut ELSE ut + 1)
               = IF tc + i <= (tt + Height) - 1 THEN tt ELSE ((tc + i) - Height) + 1
        /\ \A k \in Nat : k # tc + i => (k <= tc + i <=> k <= uc)
        /\ ~(tc + i <= uc) /\ ((tc + i) - tc) + 1 = i + 1
    BY <2>1, NextRow
  <2> QED
    BY <2>2, Zenon DEF tc, tt, uc, ut, n
<1>4. how # "erase" \/ u.cursor < (u.top + Height) - 1
  BY <1>n DEF Ready
<1>5. Moved(u, w, u.cursor + 1, IF u.cursor < (u.top + Height) - 1 THEN u.top ELSE u.top + 1)
  BY <1>4, AdvanceIs
<1> HIDE DEF w
<1>6. /\ w \in Terminals /\ w.cursor = u.cursor + 1 /\ \A k \in Nat : Row(w, k) = Row(u, k)
      /\ w.top = IF u.cursor < (u.top + Height) - 1 THEN u.top ELSE u.top + 1
  BY <1>5 DEF Moved
<1>7. w.cursor = c /\ c \in Nat /\ c >= t.cursor
  BY <1>1, <1>2, <1>6, <1>n
<1> HIDE DEF c, b
<1>8. how # "write" \/ Row(w, w.cursor) = Blank
  <2> SUFFICES ASSUME how = "write" PROVE Row(w, w.cursor) = Blank
    OBVIOUS
  <2>1. Row(t, c) = Blank
    BY <1>7 DEF Ready
  <2>2. ~(c <= u.cursor)
    BY <1>n
  <2>3. Row(u, c) = Row(t, c)
    BY <1>7, <2>2 DEF LaidTo
  <2> QED
    BY <1>6, <1>7, <2>1, <2>3
<1>9. Changed(w, v, w.cursor, lines[i + 1])
  BY <1>2, <1>6, <1>8, PutLineIs
<1> HIDE DEF v
<1>10. v \in Terminals /\ v.cursor = c /\ v.top = w.top
  BY <1>7, <1>9 DEF Changed
<1>11. v.top = IF v.cursor <= b THEN t.top ELSE (v.cursor - Height) + 1
  BY <1>6, <1>10, <1>n, Zenon
<1>12. v.cursor = (t.cursor + (i + 1)) - 1
  BY <1>10, <1>n, Zenon
<1>13. ASSUME NEW k \in Nat
       PROVE  Row(v, k) = IF k >= t.cursor /\ k <= v.cursor THEN lines[(k - t.cursor) + 1] ELSE Row(t, k)
  <2>1. Row(v, k) = IF k = c THEN lines[i + 1] ELSE Row(u, k)
    BY <1>6, <1>7, <1>9 DEF Changed
  <2>2. Row(u, k) = IF k >= t.cursor /\ k <= u.cursor THEN lines[(k - t.cursor) + 1] ELSE Row(t, k)
    BY DEF LaidTo
  <2>3. CASE k = c
    <3>1. k >= t.cursor /\ k <= v.cursor /\ (k - t.cursor) + 1 = i + 1
      BY <1>7, <1>n, <1>10, <2>3
    <3> QED
      BY <2>1, <2>3, <3>1
  <2>4. CASE k # c
    <3>1. k <= v.cursor <=> k <= u.cursor
      BY <1>n, <1>10, <2>4
    <3> QED
      BY <2>1, <2>2, <2>4, <3>1
  <2> QED
    BY <2>3, <2>4
<1> QED
  BY <1>10, <1>11, <1>12, <1>13, Zenon DEF LaidTo, v, w, b

\* What PutLines makes of a terminal: another, and, where it is ready for them, with the lines on it.
LEMMA LinesLaid ==
    ASSUME NEW t \in Terminals, NEW lines \in Seq(Glyphs), NEW how
    PROVE  /\ PutLines(t, lines, how) \in Terminals
           /\ lines # <<>> /\ Ready(t, lines, how) => LaidTo(t, PutLines(t, lines, how), lines, Len(lines))
           /\ lines = <<>> => PutLines(t, lines, how) = t
<1> DEFINE n == Len(lines)
<1>1. PICK f \in [0..n -> Terminals] : Writes(f, t, lines, how) /\ PutLines(t, lines, how) = f[n]
  BY PutLinesIs
<1>2. n \in Nat /\ n \in 0..n
  OBVIOUS
<1>3. f[n] \in Terminals
  BY <1>2
<1>4. ASSUME lines # <<>>, Ready(t, lines, how) PROVE LaidTo(t, f[n], lines, n)
  <2> DEFINE S == {i \in Nat : LaidTo(t, f[i], lines, i)}
  <2>1. n >= 1 /\ n - 1 \in Nat /\ (n - 1) + 1 = n /\ 1 \in 1..n
    BY <1>2, <1>4
  <2>2. 1 \in S
    <3>1. f[1] = PutLine(After(f[1 - 1], 1, t, how), lines[1], how)
      BY <1>1, <2>1 DEF Writes
    <3>2. f[1] = PutLine(t, lines[1], how)
      BY <3>1, Zenon DEF After
    <3> QED
      BY <1>4, <3>2, LaidOne
  <2>3. ASSUME NEW i \in 1..(n - 1), i \in S PROVE i + 1 \in S
    <3>1. i + 1 \in 1..n /\ (i + 1) - 1 = i /\ i + 1 # 1 /\ i \in 0..n /\ i + 1 \in Nat
      BY <1>2
    <3>2. f[i + 1] = PutLine(After(f[(i + 1) - 1], i + 1, t, how), lines[i + 1], how)
      BY <1>1, <3>1 DEF Writes
    <3>3. f[i + 1] = PutLine(Advance(f[i], how), lines[i + 1], how)
      BY <3>1, <3>2 DEF After
    <3>4. LaidTo(t, f[i], lines, i) /\ f[i] \in Terminals
      BY <2>3, <3>1
    <3>5. LaidTo(t, PutLine(Advance(f[i], how), lines[i + 1], how), lines, i + 1)
      BY <1>4, <3>4, LaidNext
    <3> QED
      BY <3>1, <3>3, <3>5
  <2>4. \A i \in 1..(n - 1) : i \in S => i + 1 \in S
    BY <2>3
  <2> HIDE DEF S
  <2>5. 1..((n - 1) + 1) \subseteq S
    BY <2>1, <2>2, <2>4, Climb
  <2>6. n \in S
    BY <2>1, <2>5
  <2> QED
    BY <2>6 DEF S
<1>5. lines = <<>> => f[n] = t
  BY <1>1 DEF Writes
<1> QED
  BY <1>1, <1>3, <1>4, <1>5

-------------------------------------------------------------------------------
(* What is rendered, and how it differs from what was. *)

RowSets == {None} \cup 0..(Height - 1)

LEMMA LineType ==
    ASSUME NEW lines \in Seq(Glyphs), NEW i
    PROVE  Line(lines, i) \in Glyphs /\ (i \in Nat /\ i > Len(lines) => Line(lines, i) = Blank)
<1>1. Blank \in Glyphs
  BY DEF Glyphs
<1> QED
  BY <1>1 DEF Line

LEMMA CompositeIs ==
    ASSUME NEW content \in Contents, overlay \in RowSets, maxLinesRendered \in Nat
    PROVE  /\ Composite(content) \in Seq(Glyphs)
           /\ Len(Composite(content)) >= Len(content) /\ Len(content) \in Nat
           /\ overlay # None => Len(Composite(content)) >= maxLinesRendered
<1>1. PICK n \in 0..MaxLines : content \in [1..n -> Lines \cup {Blank}]
  BY DEF Contents
<1>2. content \in Seq(Glyphs) /\ Len(content) \in Nat
  <2>1. n \in Nat /\ Lines \cup {Blank} \subseteq Glyphs
    BY RendererAssumption DEF Glyphs
  <2>2. \A i \in 1..n : content[i] \in Glyphs
    BY <1>1, <2>1
  <2>3. content = [i \in 1..n |-> content[i]]
    BY <1>1
  <2> QED
    BY <2>1, <2>2, <2>3
<1>3. CASE overlay = None
  BY <1>2, <1>3 DEF Composite
<1>4. CASE overlay # None
  <2> DEFINE height == Max({maxLinesRendered, Len(content), overlay + 1})
             row == Max({0, height - Height}) + overlay + 1
             lines == [i \in 1..height |-> IF i = row THEN "overlay" ELSE Line(content, i)]
  <2>1. overlay + 1 \in Int
    BY <1>4, RendererAssumption DEF RowSets, None
  <2>2. height \in {maxLinesRendered, Len(content), overlay + 1} /\ height >= maxLinesRendered /\ height >= Len(content)
    <3> DEFINE a == maxLinesRendered  b == Len(content)  c == overlay + 1
    <3>1. a \in Int /\ b \in Int /\ c \in Int
      BY <1>2, <2>1
    <3> HIDE DEF a, b, c
    <3>2. Max({a, b, c}) \in {a, b, c} /\ Max({a, b, c}) >= a /\ Max({a, b, c}) >= b
      BY <3>1, MaxThree
    <3> QED
      BY <3>2, Zenon DEF a, b, c
  <2>3. height \in Nat
    BY <1>2, <1>4, <2>2, RendererAssumption DEF RowSets
  <2>4. Composite(content) = lines
    BY <1>4, Zenon DEF Composite
  <2>5. "overlay" \in Glyphs /\ \A i : Line(content, i) \in Glyphs
    BY <1>2, LineType DEF Glyphs
  <2> HIDE DEF height, row
  <2>6. lines \in Seq(Glyphs) /\ Len(lines) = height
    BY <2>3, <2>5
  <2> HIDE DEF lines
  <2> QED
    BY <1>2, <2>2, <2>4, <2>6
<1> QED
  BY <1>3, <1>4

LEMMA MarkersAre ==
    ASSUME NEW lines \in Seq(Glyphs), NEW marker \in Markers(lines), marker # None
    PROVE  marker \in Nat /\ marker < Len(lines) /\ marker + Height >= Len(lines)
<1> DEFINE n == Len(lines)
<1>1. n \in Nat /\ Height \in Nat
  BY RendererAssumption
<1>2. Max({0, n - Height}) = IF 0 >= n - Height THEN 0 ELSE n - Height
  BY <1>1, MaxTwo
<1>3. marker \in (Max({0, n - Height}))..(n - 1)
  BY DEF Markers
<1> HIDE DEF n
<1>4. marker \in Nat /\ marker < n /\ marker + Height >= n
  BY <1>1, <1>2, <1>3
<1> QED
  BY <1>4 DEF n

Changes(lines) ==
    {i \in 0..(Max({Len(lines), Len(previousLines)}) - 1) : Line(lines, i + 1) # Line(previousLines, i + 1)}
    \cup Len(previousLines)..(Len(lines) - 1)

LEMMA ChangesAre ==
    ASSUME NEW lines \in Seq(Glyphs), previousLines \in Seq(Glyphs)
    PROVE  \A i \in Nat : IF i \in Changes(lines) THEN i < Len(lines) \/ i < Len(previousLines)
                          ELSE (i >= Len(lines) \/ i < Len(previousLines)) /\ Line(lines, i + 1) = Line(previousLines, i + 1)
<1> DEFINE n == Len(lines)  m == Len(previousLines)
<1>1. n \in Nat /\ m \in Nat
  OBVIOUS
<1>2. Max({n, m}) = IF n >= m THEN n ELSE m
  BY <1>1, MaxTwo
<1>3. \A i \in Nat : i > n => Line(lines, i) = Blank
  BY LineType
<1>4. \A i \in Nat : i > m => Line(previousLines, i) = Blank
  BY LineType
<1>5. Changes(lines) = {i \in 0..(Max({n, m}) - 1) : Line(lines, i + 1) # Line(previousLines, i + 1)} \cup m..(n - 1)
  BY DEF Changes
<1> SUFFICES ASSUME NEW i \in Nat
             PROVE  IF i \in Changes(lines) THEN i < n \/ i < m
                    ELSE (i >= n \/ i < m) /\ Line(lines, i + 1) = Line(previousLines, i + 1)
  OBVIOUS
<1> HIDE DEF n, m
<1>6. CASE i \in Changes(lines)
  <2>1. CASE i \in 0..(Max({n, m}) - 1)
    BY <1>1, <1>2, <1>6, <2>1
  <2>2. CASE i \in m..(n - 1)
    BY <1>1, <1>6, <2>2
  <2> QED
    BY <1>5, <1>6, <2>1, <2>2
<1>7. CASE i \notin Changes(lines)
  <2>1. i >= n \/ i < m
    BY <1>1, <1>5, <1>7
  <2>2. Line(lines, i + 1) = Line(previousLines, i + 1)
    <3>1. CASE i >= n /\ i >= m
      <4>1. i + 1 \in Nat /\ i + 1 > n /\ i + 1 > m
        BY <1>1, <3>1
      <4> QED
        BY <1>3, <1>4, <4>1
    <3>2. CASE i < n \/ i < m
      <4>1. i \in 0..(Max({n, m}) - 1)
        BY <1>1, <1>2, <3>2
      <4> QED
        BY <1>5, <1>7, <4>1
    <3> QED
      BY <1>1, <3>1, <3>2
  <2> QED
    BY <1>7, <2>1, <2>2
<1> QED
  BY <1>6, <1>7

LEMMA MaxBelow ==
    ASSUME NEW n \in Nat, NEW S \in SUBSET (0..n), S # {}
    PROVE  Max(S) \in S /\ \A i \in S : i <= Max(S)
<1> DEFINE T == {n - i : i \in S}
<1>1. T \in SUBSET Nat /\ T # {}
  <2>1. PICK i \in S : TRUE
    OBVIOUS
  <2>2. n - i \in T
    BY <2>1
  <2>3. \A k \in S : n - k \in Nat
    OBVIOUS
  <2> QED
    BY <2>2, <2>3
<1>2. PICK x \in T : \A y \in T : x <= y
  <2> HIDE DEF T
  <2> QED
    BY <1>1, LeastExists
<1>3. n - x \in S /\ \A i \in S : n - x >= i
  BY <1>2
<1>4. Max(S) \in S /\ \A i \in S : Max(S) >= i
  BY <1>3 DEF Max
<1> QED
  BY <1>4

\* The first and the last changed line.
LEMMA EndsOfChange ==
    ASSUME NEW lines \in Seq(Glyphs), previousLines \in Seq(Glyphs), Changes(lines) # {}
    PROVE  /\ Min(Changes(lines)) \in Nat /\ Max(Changes(lines)) \in Nat
           /\ Min(Changes(lines)) \in Changes(lines) /\ Max(Changes(lines)) \in Changes(lines)
           /\ \A i \in Changes(lines) : Min(Changes(lines)) <= i /\ i <= Max(Changes(lines))
<1> DEFINE S == Changes(lines)  n == Len(lines) + Len(previousLines)
<1>1. n \in Nat /\ Len(lines) \in Nat /\ Len(previousLines) \in Nat
  OBVIOUS
<1>2. S \in SUBSET Nat
  <2>1. Max({Len(lines), Len(previousLines)}) - 1 \in Int
    BY <1>1, MaxTwo
  <2> QED
    BY <1>1, <2>1 DEF Changes
<1>3. S \in SUBSET (0..n)
  BY <1>1, <1>2, ChangesAre
<1> HIDE DEF S, n
<1>4. S # {}
  BY DEF S
<1>5. Max(S) \in S /\ \A i \in S : i <= Max(S)
  BY <1>1, <1>3, <1>4, MaxBelow
<1>6. PICK x \in S : \A y \in S : x <= y
  BY <1>2, <1>4, LeastExists
<1>7. Min(S) \in S /\ \A i \in S : Min(S) <= i
  BY <1>6 DEF Min
<1>8. Min(S) \in Nat /\ Max(S) \in Nat
  BY <1>2, <1>5, <1>7
<1> QED
  BY <1>5, <1>7, <1>8 DEF S

-------------------------------------------------------------------------------
(* What a render must come to. *)

\* The terminal shows the lines from row o on, its cursor is in their line
\* `row`, and the screen ends with them, unless it begins with them.
Shows(t, o, lines, row) ==
    /\ \A k \in Nat : k >= o => Row(t, k) = Line(lines, (k - o) + 1)
    /\ t.cursor = o + row
    /\ o + Len(lines) <= t.top + Height
    /\ t.top <= o \/ t.top + Height <= o + Len(lines)

\* The content that the renderer is known to show: with clearOnShrink off, no
\* content was ever higher than the screen.
Domain(most) == clearOnShrink \/ most <= Height

Typed ==
    /\ terminal \in Terminals /\ origin \in Nat
    /\ previousLines \in Seq(Glyphs) /\ maxLinesRendered \in Nat /\ Len(previousLines) <= maxLinesRendered
    /\ previousViewportTop = Max({0, maxLinesRendered - Height})
    /\ hardwareCursorRow \in Nat /\ (previousLines = <<>> => hardwareCursorRow = 0)
    /\ overlay \in RowSets
    /\ clearOnShrink => Len(previousLines) = maxLinesRendered

RendererInv == Typed /\ (Domain(maxLinesRendered) => Shows(terminal, origin, previousLines, hardwareCursorRow))

Rendered(lines, most) ==
    /\ terminal' \in Terminals /\ origin' \in Nat
    /\ previousLines' = lines /\ lines \in Seq(Glyphs) /\ maxLinesRendered' = most /\ most \in Nat /\ Len(lines) <= most
    /\ previousViewportTop' = Max({0, most - Height})
    /\ hardwareCursorRow' \in Nat /\ (lines = <<>> => hardwareCursorRow' = 0)
    /\ clearOnShrink => Len(lines) = most
    /\ Domain(most) => Shows(terminal', origin', lines, hardwareCursorRow')

LEMMA FinishIs ==
    ASSUME NEW t \in Terminals, NEW o \in Nat, NEW lines \in Seq(Glyphs), NEW row \in Nat, NEW marker \in {None} \cup Nat,
           NEW most \in Nat, Len(lines) <= most, clearOnShrink => Len(lines) = most,
           lines = <<>> => row = 0, origin' = o,
           Finish(t, row, marker, lines, most),
           Domain(most) => /\ Shows(t, o, lines, row)
                           /\ marker # None => marker < Len(lines) /\ marker + Height >= Len(lines)
    PROVE  Rendered(lines, most)
<1> DEFINE target == IF marker = None \/ lines = <<>> THEN row ELSE marker
           u == Move(t, target - row)
           n == Len(lines)
<1>1. /\ terminal' = u /\ hardwareCursorRow' = target /\ previousLines' = lines /\ maxLinesRendered' = most
      /\ previousViewportTop' = Max({0, most - Height})
  BY Zenon DEF Finish, Track
<1>2. target \in Nat /\ (lines = <<>> => target = 0)
  OBVIOUS
<1>3. /\ t.cursor \in Nat /\ t.top \in Nat /\ Height \in Nat \ {0} /\ n \in Nat
      /\ t.top <= t.cursor /\ t.cursor <= (t.top + Height) - 1
  BY RendererAssumption DEF Terminals
<1>4. target = row \/ (marker # None /\ marker \in Nat /\ target = marker)
  OBVIOUS
<1> HIDE DEF target
<1>5. target - row \in Int
  BY <1>2
<1>6. u \in Terminals
  BY <1>5, MoveIs
<1>7. ASSUME Domain(most) PROVE Shows(u, o, lines, target)
  <2>1. Shows(t, o, lines, row) /\ (marker # None => marker < n /\ marker + Height >= n)
    BY <1>7
  <2>2. t.cursor = o + row /\ o + n <= t.top + Height /\ (t.top <= o \/ t.top + Height <= o + n)
    BY <2>1 DEF Shows
  <2> HIDE DEF n
  <2>3. t.cursor + (target - row) = o + target
    BY <1>2, <1>3, <2>2
  <2>4. o + target >= t.top /\ o + target <= (t.top + Height) - 1
    <3>1. CASE target = row
      BY <1>3, <2>2, <3>1
    <3>2. CASE marker # None /\ marker \in Nat /\ target = marker
      <4>1. marker < n /\ marker + Height >= n
        BY <2>1, <3>2
      <4> QED
        BY <1>3, <2>2, <3>2, <4>1
    <3> QED
      BY <1>4, <3>1, <3>2
  <2>5. o + target \in (t.top)..((t.top + Height) - 1)
    BY <1>2, <1>3, <2>4
  <2>6. Moved(t, u, t.cursor + (target - row), t.top)
    BY <1>5, <2>3, <2>5, MoveIs
  <2> HIDE DEF u
  <2>7. u.cursor = o + target /\ u.top = t.top /\ \A k \in Nat : Row(u, k) = Row(t, k)
    BY <2>3, <2>6 DEF Moved
  <2>8. \A k \in Nat : k >= o => Row(u, k) = Line(lines, (k - o) + 1)
    BY <2>1, <2>7 DEF Shows
  <2> QED
    BY <2>2, <2>7, <2>8 DEF Shows, n
<1> QED
  BY <1>1, <1>2, <1>6, <1>7, Zenon DEF Rendered

\* Lines put from the cursor of a terminal that is clean from there down are what it shows from there.
LEMMA LinesShown ==
    ASSUME NEW t \in Terminals, NEW lines \in Seq(Glyphs),
           \A k \in Nat : k >= t.cursor => Row(t, k) = Blank
    PROVE  Shows(PutLines(t, lines, "write"), t.cursor, lines, Max({0, Len(lines) - 1}))
<1> DEFINE u == PutLines(t, lines, "write")  n == Len(lines)  o == t.cursor
<1>1. n \in Nat /\ o \in Nat /\ t.top \in Nat /\ Height \in Nat \ {0} /\ t.cursor <= (t.top + Height) - 1 /\ t.top <= o
  BY RendererAssumption DEF Terminals
<1>2. Max({0, n - 1}) = IF 0 >= n - 1 THEN 0 ELSE n - 1
  BY <1>1, MaxTwo
<1>3. \A i \in Nat : i > n => Line(lines, i) = Blank
  BY LineType
<1>4. CASE lines = <<>>
  <2>1. u = t /\ n = 0
    BY <1>4, LinesLaid
  <2>2. ASSUME NEW k \in Nat, k >= o PROVE Row(t, k) = Line(lines, (k - o) + 1)
    <3>1. (k - o) + 1 \in Nat /\ (k - o) + 1 > n
      BY <1>1, <2>1, <2>2
    <3> QED
      BY <1>3, <2>2, <3>1
  <2> HIDE DEF u, n, o
  <2>3. t.cursor = o + Max({0, n - 1}) /\ o + n <= t.top + Height /\ t.top <= o
    <3>1. t.cursor = o
      BY DEF o
    <3> QED
      BY <1>1, <1>2, <2>1, <3>1
  <2>4. Shows(t, o, lines, Max({0, n - 1}))
    BY <2>2, <2>3 DEF Shows, n
  <2> QED
    BY <2>1, <2>4 DEF u, n, o
<1>5. CASE lines # <<>>
  <2>1. n >= 1
    BY <1>5
  <2>2. Ready(t, lines, "write")
    BY DEF Ready
  <2>3. LaidTo(t, u, lines, n)
    BY <1>5, <2>2, LinesLaid
  <2> HIDE DEF u
  <2>4. /\ u.cursor = (o + n) - 1
        /\ u.top = IF u.cursor <= (t.top + Height) - 1 THEN t.top ELSE (u.cursor - Height) + 1
        /\ \A k \in Nat : Row(u, k) = IF k >= o /\ k <= u.cursor THEN lines[(k - o) + 1] ELSE Row(t, k)
    BY <2>3 DEF LaidTo
  <2>5. ASSUME NEW k \in Nat, k >= o PROVE Row(u, k) = Line(lines, (k - o) + 1)
    <3>1. CASE k <= u.cursor
      <4>1. (k - o) + 1 \in 1..n
        BY <1>1, <2>1, <2>4, <2>5, <3>1
      <4>2. Line(lines, (k - o) + 1) = lines[(k - o) + 1]
        BY <4>1 DEF Line
      <4> QED
        BY <2>4, <2>5, <3>1, <4>2
    <3>2. CASE ~(k <= u.cursor)
      <4>1. (k - o) + 1 \in Nat /\ (k - o) + 1 > n
        BY <1>1, <2>1, <2>4, <2>5, <3>2
      <4> QED
        BY <1>3, <2>4, <2>5, <3>2, <4>1
    <3> QED
      BY <3>1, <3>2
  <2> HIDE DEF n, o
  <2>7. u.cursor = o + Max({0, n - 1})
    BY <1>1, <1>2, <2>1, <2>4
  <2>8. o + n <= u.top + Height /\ (u.top <= o \/ u.top + Height <= o + n)
    BY <1>1, <2>1, <2>4
  <2>9. Shows(u, o, lines, Max({0, n - 1}))
    BY <2>5, <2>7, <2>8 DEF Shows, n
  <2> QED
    BY <2>9 DEF u, n, o
<1> QED
  BY <1>4, <1>5

-------------------------------------------------------------------------------
(* The ways to render. *)

LEMMA MostIs ==
    ASSUME NEW lines \in Seq(Glyphs), maxLinesRendered \in Nat
    PROVE  /\ Most(lines) \in Nat /\ Len(lines) <= Most(lines) /\ maxLinesRendered <= Most(lines)
           /\ Len(lines) >= maxLinesRendered => Most(lines) = Len(lines)
<1> DEFINE a == maxLinesRendered  b == Len(lines)
<1>1. a \in Nat /\ b \in Nat
  OBVIOUS
<1> HIDE DEF a, b
<1>2. Max({a, b}) = IF a >= b THEN a ELSE b
  BY <1>1, MaxTwo
<1>3. Max({a, b}) \in Nat /\ b <= Max({a, b}) /\ a <= Max({a, b}) /\ (b >= a => Max({a, b}) = b)
  BY <1>1, <1>2
<1> QED
  BY <1>3 DEF Most, a, b

LEMMA ClearedIs == Cleared \in Terminals /\ Cleared.cursor = 0 /\ \A k \in Nat : Row(Cleared, k) = Blank
<1> DEFINE r == Blanks(Height)
<1>1. Height \in Nat \ {0} /\ Blank \in Glyphs
  BY RendererAssumption DEF Glyphs
<1>2. r \in Seq(Glyphs) /\ Len(r) = Height /\ \A i \in 1..Height : r[i] = Blank
  BY <1>1 DEF Blanks
<1> HIDE DEF r
<1>3. Cleared = [rows |-> r, top |-> 0, cursor |-> 0]
  BY Zenon DEF Cleared, r
<1>4. Cleared.rows = r /\ Cleared.top = 0 /\ Cleared.cursor = 0 /\ Cleared \in [rows : Seq(Glyphs), top : Nat, cursor : Nat]
  BY <1>2, <1>3
<1>5. Cleared \in Terminals
  BY <1>1, <1>2, <1>4 DEF Terminals
<1>6. \A k \in Nat : k < Height => k + 1 \in 1..Height
  BY <1>1
<1> QED
  BY <1>2, <1>4, <1>5, <1>6 DEF Row

LEMMA LastLine ==
    ASSUME NEW lines \in Seq(Glyphs)
    PROVE  Max({0, Len(lines) - 1}) \in Nat /\ (lines = <<>> => Max({0, Len(lines) - 1}) = 0)
           /\ (lines # <<>> => Max({0, Len(lines) - 1}) = Len(lines) - 1)
<1>1. Len(lines) \in Nat /\ (lines = <<>> => Len(lines) = 0) /\ (lines # <<>> => Len(lines) > 0)
  OBVIOUS
<1>2. Max({0, Len(lines) - 1}) = IF 0 >= Len(lines) - 1 THEN 0 ELSE Len(lines) - 1
  BY <1>1, MaxTwo
<1> QED
  BY <1>1, <1>2

LEMMA FullRenderIs ==
    ASSUME RendererInv, NEW lines \in Seq(Glyphs), NEW marker \in Markers(lines), NEW clear \in BOOLEAN,
           FullRender(lines, marker, clear), clear \/ previousLines = <<>>
    PROVE  \E most : Rendered(lines, most)
<1> DEFINE t == IF clear THEN Cleared ELSE terminal
           o == IF clear THEN 0 ELSE origin
           row == Max({0, Len(lines) - 1})
           most == IF clear THEN Len(lines) ELSE Most(lines)
           u == PutLines(t, lines, "write")
<1>1. Finish(u, row, marker, lines, most) /\ origin' = o
  BY Zenon DEF FullRender
<1>2. Typed
  BY DEF RendererInv
<1>3. t \in Terminals /\ o \in Nat
  BY <1>2, ClearedIs DEF Typed
<1>4. row \in Nat /\ (lines = <<>> => row = 0)
  BY LastLine
<1>5. marker \in {None} \cup Nat /\ (marker # None => marker < Len(lines) /\ marker + Height >= Len(lines))
  BY MarkersAre
<1>6. most \in Nat /\ Len(lines) <= most /\ (clearOnShrink => Len(lines) = most)
  <2>1. CASE clear
    BY <2>1
  <2>2. CASE ~clear
    <3>1. clearOnShrink => maxLinesRendered = 0
      BY <1>2, <2>2 DEF Typed
    <3>2. Len(lines) \in Nat /\ maxLinesRendered \in Nat
      BY <1>2 DEF Typed
    <3>3. clearOnShrink => Len(lines) >= maxLinesRendered
      BY <3>1, <3>2
    <3> QED
      BY <2>2, <3>2, <3>3, MostIs
  <2> QED
    BY <2>1, <2>2
<1>7. ASSUME Domain(most) PROVE Shows(u, o, lines, row)
  <2>1. t.cursor = o /\ \A k \in Nat : k >= o => Row(t, k) = Blank
    <3>1. CASE clear
      BY <3>1, ClearedIs
    <3>2. CASE ~clear
      <4>1. previousLines = <<>> /\ maxLinesRendered \in Nat /\ origin \in Nat
        BY <1>2, <3>2 DEF Typed
      <4>2. maxLinesRendered <= most /\ Height \in Nat /\ most \in Nat
        BY <1>6, <3>2, <4>1, MostIs, RendererAssumption
      <4>3. Domain(maxLinesRendered)
        <5> HIDE DEF most
        <5> QED
          BY <1>7, <4>1, <4>2 DEF Domain
      <4>4. Shows(terminal, origin, <<>>, 0)
        BY <1>2, <4>1, <4>3 DEF RendererInv, Typed
      <4>5. \A i : Line(<<>>, i) = Blank
        <5>1. DOMAIN <<>> = {}
          OBVIOUS
        <5> QED
          BY <5>1, Zenon DEF Line
      <4>6. terminal.cursor = origin + 0 /\ \A k \in Nat : k >= origin => Row(terminal, k) = Blank
        BY <4>4, <4>5 DEF Shows
      <4> QED
        BY <3>2, <4>1, <4>6
    <3> QED
      BY <3>1, <3>2
  <2> HIDE DEF t, o
  <2>2. Shows(u, t.cursor, lines, row)
    BY <1>3, <2>1, LinesShown
  <2> QED
    BY <2>1, <2>2
<1> HIDE DEF t, o, row, most
<1>8. u \in Terminals
  BY <1>3, LinesLaid
<1> HIDE DEF u
<1>9. Rendered(lines, most)
  BY <1>1, <1>3, <1>4, <1>5, <1>6, <1>7, <1>8, FinishIs
<1> QED
  BY <1>9

\* Nothing has changed: only the cursor moves.
LEMMA UnchangedIs ==
    ASSUME RendererInv, NEW lines \in Seq(Glyphs), NEW marker \in Markers(lines), previousLines # <<>>,
           ~(clearOnShrink /\ Len(lines) < maxLinesRendered), Changes(lines) = {},
           Finish(terminal, hardwareCursorRow, marker, previousLines, maxLinesRendered), UNCHANGED origin
    PROVE  Rendered(previousLines, maxLinesRendered)
<1> DEFINE n == Len(lines)  m == Len(previousLines)
<1>1. /\ Typed /\ terminal \in Terminals /\ origin \in Nat /\ previousLines \in Seq(Glyphs)
      /\ hardwareCursorRow \in Nat /\ maxLinesRendered \in Nat /\ m <= maxLinesRendered
      /\ (clearOnShrink => m = maxLinesRendered)
  BY DEF RendererInv, Typed
<1>2. n \in Nat /\ m \in Nat /\ Height \in Nat /\ maxLinesRendered \in Nat
  BY <1>1, RendererAssumption
<1>3. n <= m
  <2>1. CASE n = 0
    BY <1>2, <2>1
  <2>2. CASE n # 0
    <3>1. n - 1 \in Nat
      BY <1>2, <2>2
    <3>2. n - 1 >= n \/ n - 1 < m
      BY <1>1, <3>1, ChangesAre
    <3> QED
      BY <1>2, <3>2
  <2> QED
    BY <2>1, <2>2
<1>4. marker \in {None} \cup Nat /\ (marker # None => marker < n /\ marker + Height >= n)
  BY MarkersAre
<1> HIDE DEF n, m
<1>5. ASSUME Domain(maxLinesRendered), marker # None PROVE marker < m /\ marker + Height >= m
  <2>1. marker \in Nat /\ marker < n /\ marker + Height >= n
    BY <1>4, <1>5
  <2>2. CASE clearOnShrink
    <3>1. ~(n < maxLinesRendered) /\ m = maxLinesRendered
      BY <1>1, <2>2 DEF n
    <3> QED
      BY <1>2, <1>3, <2>1, <3>1
  <2>3. CASE maxLinesRendered <= Height
    BY <1>1, <1>2, <1>3, <2>1, <2>3
  <2> QED
    BY <1>5, <2>2, <2>3 DEF Domain
<1>6. Domain(maxLinesRendered) => Shows(terminal, origin, previousLines, hardwareCursorRow)
  BY DEF RendererInv
<1>7. origin' = origin
  OBVIOUS
<1> QED
  BY <1>1, <1>4, <1>5, <1>6, <1>7, FinishIs DEF m

LEMMA BlanksAre ==
    ASSUME NEW n \in Nat
    PROVE  Blanks(n) \in Seq(Glyphs) /\ Len(Blanks(n)) = n /\ \A i \in 1..n : Blanks(n)[i] = Blank
BY DEF Blanks, Glyphs

\* From the row below the content, blanks to the last row of the old content and
\* back up: what is left is the content.
LEMMA Blanked ==
    ASSUME NEW e \in Terminals, NEW o \in Nat, NEW lines \in Seq(Glyphs), NEW x \in Nat \ {0}, NEW how \in {"erase", "rewrite"},
           lines # <<>>, e.cursor = o + Len(lines), e.top <= o, (o + Len(lines)) + x <= e.top + Height,
           \A k \in Nat : k >= o /\ (k < o + Len(lines) \/ k >= (o + Len(lines)) + x) =>
               Row(e, k) = Line(lines, (k - o) + 1)
    PROVE  Shows(Up(PutLines(e, Blanks(x), how), x), o, lines, Len(lines) - 1)
<1> DEFINE n == Len(lines)
           w == PutLines(e, Blanks(x), how)
           v == Up(w, x)
<1>1. n \in Nat /\ n >= 1 /\ e.top \in Nat /\ Height \in Nat \ {0} /\ x \in Nat /\ x >= 1
  BY RendererAssumption DEF Terminals
<1>2. Blanks(x) \in Seq(Glyphs) /\ Len(Blanks(x)) = x /\ Blanks(x) # <<>> /\ \A i \in 1..x : Blanks(x)[i] = Blank
  <2>1. Len(<<>>) = 0
    OBVIOUS
  <2> QED
    BY <1>1, <2>1, BlanksAre
<1>3. Ready(e, Blanks(x), how)
  BY <1>1, <1>2 DEF Ready
<1>4. LaidTo(e, w, Blanks(x), x) /\ w \in Terminals
  BY <1>2, <1>3, LinesLaid
<1> HIDE DEF w
<1>5. /\ w.cursor = (e.cursor + x) - 1
      /\ w.top = IF w.cursor <= (e.top + Height) - 1 THEN e.top ELSE (w.cursor - Height) + 1
      /\ \A k \in Nat : Row(w, k) = IF k >= e.cursor /\ k <= w.cursor THEN Blanks(x)[(k - e.cursor) + 1] ELSE Row(e, k)
  BY <1>4 DEF LaidTo
<1>6. Moved(w, v, IF w.cursor - x >= w.top THEN w.cursor - x ELSE w.top, w.top)
  BY <1>1, <1>4, UpIs
<1> HIDE DEF v
<1>7. /\ v.cursor = (IF w.cursor - x >= w.top THEN w.cursor - x ELSE w.top) /\ v.top = w.top
      /\ \A k \in Nat : Row(v, k) = Row(w, k)
  BY <1>6 DEF Moved
<1>8. e.cursor = o + n /\ e.top <= o /\ (o + n) + x <= e.top + Height
  OBVIOUS
<1>9. \A i \in Nat : i > n => Line(lines, i) = Blank
  BY LineType
<1>10. ASSUME NEW k \in Nat, k >= o PROVE Row(v, k) = Line(lines, (k - o) + 1)
  <2>1. Row(v, k) = IF k >= e.cursor /\ k <= w.cursor THEN Blanks(x)[(k - e.cursor) + 1] ELSE Row(e, k)
    BY <1>5, <1>7
  <2>2. CASE k < o + n \/ k >= (o + n) + x
    <3>1. Row(e, k) = Line(lines, (k - o) + 1)
      BY <1>10, <2>2
    <3> HIDE DEF n
    <3>2. ~(k >= e.cursor /\ k <= w.cursor)
      BY <1>1, <1>5, <1>8, <2>2
    <3> QED
      BY <2>1, <3>1, <3>2
  <2>3. CASE ~(k < o + n \/ k >= (o + n) + x)
    <3> HIDE DEF n
    <3>1. k >= e.cursor /\ k <= w.cursor /\ (k - e.cursor) + 1 \in 1..x /\ (k - o) + 1 \in Nat /\ (k - o) + 1 > n
      BY <1>1, <1>5, <1>8, <2>3
    <3>2. Blanks(x)[(k - e.cursor) + 1] = Blank
      BY <1>2, <3>1
    <3>3. Line(lines, (k - o) + 1) = Blank
      BY <1>9, <3>1
    <3> QED
      BY <2>1, <3>1, <3>2, <3>3
  <2> QED
    BY <2>2, <2>3
<1> HIDE DEF n
<1>11. v.cursor = o + (n - 1) /\ o + n <= v.top + Height /\ v.top <= o
  BY <1>1, <1>5, <1>7, <1>8
<1>12. Shows(v, o, lines, n - 1)
  BY <1>10, <1>11 DEF Shows, n
<1> QED
  BY <1>12 DEF n, v, w

LEMMA DeleteIs ==
    ASSUME RendererInv, NEW lines \in Seq(Glyphs), NEW marker \in Markers(lines), lines # <<>>,
           ~clearOnShrink, Changes(lines) # {}, Min(Changes(lines)) >= Len(lines), Delete(lines, marker)
    PROVE  \E most : Rendered(lines, most)
<1> DEFINE n == Len(lines)
           m == Len(previousLines)
           target == Max({0, Len(lines) - 1})
           extra == Len(previousLines) - Len(lines)
           diff == (target - ViewportTop) - (hardwareCursorRow - previousViewportTop)
           d == Move(terminal, diff)
           e == Down(d, 1)
           w == PutLines(e, Blanks(extra), "erase")
           v == Up(w, extra)
           o == origin
           hw == hardwareCursorRow
           top == terminal.top
<1>1. /\ Typed /\ terminal \in Terminals /\ o \in Nat /\ previousLines \in Seq(Glyphs)
      /\ hw \in Nat /\ maxLinesRendered \in Nat /\ m <= maxLinesRendered
      /\ previousViewportTop = Max({0, maxLinesRendered - Height})
  BY DEF RendererInv, Typed
<1>2. n \in Nat /\ n >= 1 /\ m \in Nat /\ Height \in Nat \ {0} /\ top \in Nat
  BY <1>1, RendererAssumption DEF Terminals
<1>3. n < m
  <2>1. Min(Changes(lines)) \in Nat /\ Min(Changes(lines)) \in Changes(lines)
    BY <1>1, EndsOfChange
  <2>2. Min(Changes(lines)) < n \/ Min(Changes(lines)) < m
    BY <1>1, <2>1, ChangesAre
  <2> DEFINE f == Min(Changes(lines))
  <2>3. f >= n /\ f \in Nat /\ (f < n \/ f < m)
    BY <2>1, <2>2
  <2> HIDE DEF f, n, m
  <2> QED
    BY <1>2, <2>3
<1>4. CASE extra > Height
  <2>1. FullRender(lines, marker, TRUE)
    BY <1>4, Zenon DEF Delete
  <2> QED
    BY <2>1, FullRenderIs
<1>5. CASE ~(extra > Height)
  <2>1. Finish(v, target, marker, lines, maxLinesRendered) /\ origin' = origin
    BY <1>5, Zenon DEF Delete
  <2>2. target = n - 1
    BY <1>2, LastLine
  <2>3. extra \in Nat \ {0} /\ extra = m - n
    BY <1>2, <1>3
  <2>4. ViewportTop = previousViewportTop /\ previousViewportTop \in Int
    <3>1. Max({0, maxLinesRendered - Height}) \in Int
      BY <1>1, <1>2, MaxTwo
    <3> QED
      BY <1>1, <3>1 DEF ViewportTop
  <2> HIDE DEF target, extra
  <2>5. diff = (n - 1) - hw /\ diff \in Int
    BY <1>1, <1>2, <2>2, <2>4
  <2> HIDE DEF diff
  <2>6. d \in Terminals
    BY <1>1, <2>5, MoveIs
  <2>7. e \in Terminals
    <3> HIDE DEF d
    <3>1. 1 \in Nat
      OBVIOUS
    <3> QED
      BY <2>6, <3>1, DownIs DEF Moved
  <2>8. w \in Terminals
    <3> HIDE DEF e
    <3>1. extra \in Nat
      BY <2>3
    <3>2. Blanks(extra) \in Seq(Glyphs)
      BY <3>1, BlanksAre
    <3> QED
      BY <2>7, <3>2, LinesLaid
  <2>9. v \in Terminals
    <3> HIDE DEF w
    <3>1. extra \in Nat
      BY <2>3
    <3> QED
      BY <2>8, <3>1, UpIs DEF Moved
  <2>10. ASSUME Domain(maxLinesRendered) PROVE Shows(v, o, lines, n - 1)
    <3>1. m <= Height /\ Shows(terminal, o, previousLines, hw)
      BY <1>1, <1>2, <2>10 DEF Domain, RendererInv
    <3>2. terminal.cursor = o + hw /\ o + m <= top + Height /\ (top <= o \/ top + Height <= o + m)
      BY <3>1 DEF Shows
    <3>3. \A k \in Nat : k >= o => Row(terminal, k) = Line(previousLines, (k - o) + 1)
      BY <3>1 DEF Shows
    <3>4. \A i \in Nat : i < n => Line(lines, i + 1) = Line(previousLines, i + 1)
      <4> SUFFICES ASSUME NEW i \in Nat, i < n PROVE Line(lines, i + 1) = Line(previousLines, i + 1)
        OBVIOUS
      <4> DEFINE f == Min(Changes(lines))
      <4>1. f \in Nat /\ f >= n /\ \A j \in Changes(lines) : f <= j
        BY <1>1, EndsOfChange
      <4> HIDE DEF f
      <4>2. i \notin Changes(lines)
        BY <1>2, <4>1
      <4> QED
        BY <1>1, <4>2, ChangesAre
    <3>5. (\A i \in Nat : i > n => Line(lines, i) = Blank) /\ (\A i \in Nat : i > m => Line(previousLines, i) = Blank)
      BY <1>1, LineType
    <3> HIDE DEF n, m, o, hw, top
    <3>6. top <= o /\ terminal.cursor + diff = (o + n) - 1
          /\ (o + n) - 1 >= top /\ (o + n) - 1 <= (top + Height) - 1
      BY <1>1, <1>2, <1>3, <2>5, <3>1, <3>2
    <3>7. terminal.cursor + diff \in top..((top + Height) - 1)
      BY <1>1, <1>2, <3>6
    <3>8. Moved(terminal, d, terminal.cursor + diff, top)
      BY <1>1, <2>5, <3>7, MoveIs DEF top
    <3> HIDE DEF d
    <3>9. d.cursor = (o + n) - 1 /\ d.top = top /\ \A k \in Nat : Row(d, k) = Row(terminal, k)
      BY <3>6, <3>8 DEF Moved
    <3>10. Moved(d, e, IF d.cursor + 1 <= (d.top + Height) - 1 THEN d.cursor + 1 ELSE (d.top + Height) - 1, d.top)
      <4>1. 1 \in Nat
        OBVIOUS
      <4> QED
        BY <2>6, <4>1, DownIs
    <3> HIDE DEF e
    <3>11. e.cursor = (IF d.cursor + 1 <= (d.top + Height) - 1 THEN d.cursor + 1 ELSE (d.top + Height) - 1)
           /\ e.top = top /\ \A k \in Nat : Row(e, k) = Row(terminal, k)
      BY <3>9, <3>10 DEF Moved
    <3>12. e.cursor = o + n /\ e.top <= o /\ (o + n) + extra <= e.top + Height /\ (o + n) + extra = o + m
      BY <1>1, <1>2, <1>3, <2>3, <3>2, <3>6, <3>9, <3>11
    <3>13. ASSUME NEW k \in Nat, k >= o, k < o + n \/ k >= (o + n) + extra
           PROVE  Row(e, k) = Line(lines, (k - o) + 1)
      <4>1. Row(e, k) = Line(previousLines, (k - o) + 1)
        BY <3>3, <3>11, <3>13
      <4>2. CASE k < o + n
        <5>1. k - o \in Nat /\ k - o < n
          BY <1>1, <1>2, <3>13, <4>2
        <5> QED
          BY <3>4, <4>1, <5>1
      <4>3. CASE k >= o + m
        <5>1. (k - o) + 1 \in Nat /\ (k - o) + 1 > n /\ (k - o) + 1 > m
          BY <1>1, <1>2, <1>3, <4>3
        <5> QED
          BY <3>5, <4>1, <5>1
      <4> QED
        BY <3>12, <3>13, <4>2, <4>3
    <3>14. Shows(Up(PutLines(e, Blanks(extra), "erase"), extra), o, lines, Len(lines) - 1)
      BY <1>1, <2>3, <2>7, <3>12, <3>13, Blanked DEF n
    <3> QED
      BY <3>14 DEF n
  <2>11. marker \in {None} \cup Nat /\ (marker # None => marker < n /\ marker + Height >= n)
    BY MarkersAre
  <2>12. n <= maxLinesRendered
    BY <1>1, <1>2, <1>3
  <2> HIDE DEF v
  <2>13. Rendered(lines, maxLinesRendered)
    <3>1. target \in Nat
      BY <1>2, <2>2
    <3> QED
      BY <1>1, <2>1, <2>2, <2>9, <2>10, <2>11, <2>12, <3>1, FinishIs
  <2> QED
    BY <2>13
<1> QED
  BY <1>4, <1>5

\* The screen's top once the cursor, coming down, is in a row.
TopAt(t, cursor) == IF cursor <= (t.top + Height) - 1 THEN t.top ELSE (cursor - Height) + 1

\* The way to the first line to write: from the last one by a new line, if all are new.
LEMMA ThereIs ==
    ASSUME NEW t \in Terminals, NEW o \in Nat, NEW hw \in Nat, NEW prev \in Seq(Glyphs), Shows(t, o, prev, hw), prev # <<>>,
           NEW first \in Nat, first <= Len(prev), first + Height >= Len(prev),
           NEW appended \in BOOLEAN, appended <=> first = Len(prev),
           NEW moveTo, moveTo = IF appended THEN first - 1 ELSE first
    PROVE  Moved(t, IF appended THEN NewLine(Move(t, moveTo - hw)) ELSE Move(t, moveTo - hw), o + first, TopAt(t, o + first))
<1> DEFINE m == Len(prev)
           top == t.top
           d == Move(t, moveTo - hw)
           b == (top + Height) - 1
<1>1. m \in Nat /\ m >= 1 /\ Height \in Nat \ {0} /\ top \in Nat
  BY RendererAssumption DEF Terminals
<1>2. t.cursor = o + hw /\ o + m <= top + Height /\ (top <= o \/ top + Height <= o + m)
  BY DEF Shows
<1>3. first \in Nat /\ first <= m /\ first + Height >= m /\ (appended <=> first = m)
  OBVIOUS
<1> HIDE DEF m, top
<1>4. moveTo - hw \in Int /\ t.cursor + (moveTo - hw) = o + moveTo /\ o + moveTo >= top /\ o + moveTo <= b /\ moveTo \in Nat
  <2>1. CASE appended
    <3>1. moveTo = first - 1 /\ first = m
      BY <1>3, <2>1
    <3> QED
      BY <1>1, <1>2, <3>1
  <2>2. CASE ~appended
    <3>1. moveTo = first /\ first < m
      BY <1>1, <1>3, <2>2
    <3> QED
      BY <1>1, <1>2, <1>3, <3>1
  <2> QED
    BY <2>1, <2>2
<1>5. t.cursor + (moveTo - hw) \in top..b
  BY <1>1, <1>4
<1>6. Moved(t, d, o + moveTo, top)
  BY <1>4, <1>5, MoveIs DEF top
<1> HIDE DEF d, b
<1>7. d \in Terminals /\ d.cursor = o + moveTo /\ d.top = top /\ \A k \in Nat : Row(d, k) = Row(t, k)
  BY <1>6 DEF Moved
<1>8. CASE ~appended
  <2>1. o + first = o + moveTo /\ TopAt(t, o + first) = top
    BY <1>4, <1>8 DEF TopAt, top, b
  <2> QED
    BY <1>6, <1>8, <2>1 DEF d
<1>9. CASE appended
  <2> DEFINE e == NewLine(d)
  <2>1. Moved(d, e, d.cursor + 1, IF d.cursor < (d.top + Height) - 1 THEN d.top ELSE d.top + 1)
    BY <1>7, NewLineIs
  <2> HIDE DEF e
  <2>2. d.cursor + 1 = o + first
    BY <1>3, <1>4, <1>7, <1>9
  <2>3. (IF d.cursor < (d.top + Height) - 1 THEN d.top ELSE d.top + 1) = TopAt(t, o + first)
    <3>1. d.cursor = o + moveTo /\ d.top = top /\ o + moveTo <= (top + Height) - 1 /\ o + first = (o + moveTo) + 1
      BY <1>3, <1>4, <1>7, <1>9 DEF b
    <3> DEFINE c == o + moveTo
    <3>2. c \in Nat
      BY <1>4
    <3>3. TopAt(t, o + first) = IF o + first <= (top + Height) - 1 THEN top ELSE ((o + first) - Height) + 1
      BY DEF TopAt, top
    <3> HIDE DEF c
    <3>4. d.cursor = c /\ c <= (top + Height) - 1 /\ o + first = c + 1 /\ d.top = top
      BY <3>1 DEF c
    <3>5. CASE c < (top + Height) - 1
      BY <1>1, <3>2, <3>3, <3>4, <3>5
    <3>6. CASE c = (top + Height) - 1
      BY <1>1, <3>2, <3>3, <3>4, <3>6
    <3> QED
      BY <1>1, <3>2, <3>4, <3>5, <3>6
  <2>4. Moved(t, e, o + first, TopAt(t, o + first))
    BY <1>7, <2>1, <2>2, <2>3 DEF Moved
  <2> QED
    BY <1>9, <2>4 DEF d, e
<1> QED
  BY <1>8, <1>9

\* The lines from `first` to `end` are written over what was there.
LEMMA WrittenIs ==
    ASSUME NEW t \in Terminals, NEW o \in Nat, NEW e \in Terminals, NEW lines \in Seq(Glyphs),
           NEW first \in Nat, NEW end \in Nat, first <= end, end < Len(lines),
           Moved(t, e, o + first, TopAt(t, o + first))
    PROVE  LET w == PutLines(e, SubSeq(lines, first + 1, end + 1), "rewrite")
           IN  /\ w \in Terminals /\ w.cursor = o + end /\ w.top = TopAt(t, o + end)
               /\ \A k \in Nat : Row(w, k) = IF k >= o + first /\ k <= o + end THEN Line(lines, (k - o) + 1) ELSE Row(t, k)
<1> DEFINE part == SubSeq(lines, first + 1, end + 1)
           w == PutLines(e, part, "rewrite")
           n == Len(lines)
<1>1. n \in Nat /\ Height \in Nat \ {0} /\ t.top \in Nat
  BY RendererAssumption DEF Terminals
<1>2. /\ part \in Seq(Glyphs) /\ Len(part) = (end - first) + 1
      /\ \A i \in 1..((end - first) + 1) : part[i] = lines[first + i]
  <2>1. first + 1 \in 1..n /\ end + 1 \in 1..n /\ first + 1 <= end + 1
    BY <1>1
  <2>2. Len(part) = ((end + 1) - (first + 1)) + 1 /\ part \in Seq(Glyphs)
        /\ \A i \in 1..(((end + 1) - (first + 1)) + 1) : part[i] = lines[((first + 1) + i) - 1]
    BY <2>1
  <2>3. ((end + 1) - (first + 1)) + 1 = (end - first) + 1
    OBVIOUS
  <2>4. \A i \in 1..((end - first) + 1) : ((first + 1) + i) - 1 = first + i
    OBVIOUS
  <2> HIDE DEF part
  <2> QED
    BY <2>2, <2>3, <2>4
<1> HIDE DEF part, n
<1>3. part # <<>>
  <2>1. Len(<<>>) = 0 /\ (end - first) + 1 # 0
    OBVIOUS
  <2> QED
    BY <1>2, <2>1
<1>4. Ready(e, part, "rewrite")
  BY DEF Ready
<1>5. LaidTo(e, w, part, Len(part)) /\ w \in Terminals
  BY <1>2, <1>3, <1>4, LinesLaid
<1> HIDE DEF w
<1>6. e.cursor = o + first /\ e.top = TopAt(t, o + first) /\ \A k \in Nat : Row(e, k) = Row(t, k)
  BY DEF Moved
<1>7. /\ w.cursor = (e.cursor + Len(part)) - 1
      /\ w.top = IF w.cursor <= (e.top + Height) - 1 THEN e.top ELSE (w.cursor - Height) + 1
      /\ \A k \in Nat : Row(w, k) = IF k >= e.cursor /\ k <= w.cursor THEN part[(k - e.cursor) + 1] ELSE Row(e, k)
  BY <1>5 DEF LaidTo
<1>8. w.cursor = o + end
  BY <1>2, <1>6, <1>7
<1>9. w.top = TopAt(t, o + end)
  <2> DEFINE c == o + first  f == o + end  top == t.top
  <2>1. c \in Nat /\ f \in Nat /\ c <= f /\ top \in Nat
    BY <1>1
  <2>2. e.top = (IF c <= (top + Height) - 1 THEN top ELSE (c - Height) + 1) /\ w.cursor = f
    BY <1>6, <1>8, Zenon DEF TopAt
  <2>3. TopAt(t, f) = IF f <= (top + Height) - 1 THEN top ELSE (f - Height) + 1
    BY Zenon DEF TopAt
  <2> HIDE DEF c, f, top
  <2>4. w.top = IF f <= (e.top + Height) - 1 THEN e.top ELSE (f - Height) + 1
    BY <1>7, <2>2
  <2>5. w.top = TopAt(t, f)
    <3>1. CASE c <= (top + Height) - 1
      BY <1>1, <2>1, <2>2, <2>3, <2>4, <3>1
    <3>2. CASE ~(c <= (top + Height) - 1)
      BY <1>1, <2>1, <2>2, <2>3, <2>4, <3>2
    <3> QED
      BY <3>1, <3>2
  <2> QED
    BY <2>5 DEF f
<1>10. ASSUME NEW k \in Nat
       PROVE  Row(w, k) = IF k >= o + first /\ k <= o + end THEN Line(lines, (k - o) + 1) ELSE Row(t, k)
  <2>1. Row(w, k) = IF k >= o + first /\ k <= o + end THEN part[(k - (o + first)) + 1] ELSE Row(t, k)
    BY <1>6, <1>7, <1>8
  <2>2. CASE k >= o + first /\ k <= o + end
    <3>1. (k - (o + first)) + 1 \in 1..((end - first) + 1) /\ first + ((k - (o + first)) + 1) = (k - o) + 1
          /\ (k - o) + 1 \in 1..n
      BY <1>1, <2>2 DEF n
    <3>2. part[(k - (o + first)) + 1] = lines[(k - o) + 1]
      BY <1>2, <3>1
    <3>3. Line(lines, (k - o) + 1) = lines[(k - o) + 1]
      BY <3>1 DEF Line, n
    <3> QED
      BY <2>1, <2>2, <3>2, <3>3
  <2> QED
    BY <2>1, <2>2
<1> QED
  BY <1>5, <1>8, <1>9, <1>10 DEF w, part

\* Where the writing starts and ends; no line to write is below the screen.
LEMMA UpdateEnds ==
    ASSUME Typed, NEW lines \in Seq(Glyphs), previousLines # <<>>, Changes(lines) # {},
           Min(Changes(lines)) < Len(lines), ~AboveViewport(Min(Changes(lines)))
    PROVE  LET first == Min(Changes(lines))
               n == Len(lines)
               m == Len(previousLines)
               end == Min({Max(Changes(lines)), n - 1})
               appended == first = m /\ first > 0 /\ n > first
               moveTo == IF appended THEN first - 1 ELSE first
           IN  /\ first \in Nat /\ first <= m /\ first + Height >= m /\ first < n
               /\ (appended <=> first = m) /\ appended \in BOOLEAN
               /\ end \in Nat /\ first <= end /\ end < n /\ moveTo \in Nat
               /\ moveTo <= (previousViewportTop + Height) - 1 /\ previousViewportTop \in Nat
               /\ previousViewportTop = ViewportTop
               /\ \A i \in Nat : i < first \/ (i > end /\ (i < n \/ i >= m)) => Line(lines, i + 1) = Line(previousLines, i + 1)
               /\ n > m => end = n - 1
<1> DEFINE first == Min(Changes(lines))
           last == Max(Changes(lines))
           n == Len(lines)
           m == Len(previousLines)
           end == Min({last, n - 1})
           appended == first = m /\ first > 0 /\ n > first
           moveTo == IF appended THEN first - 1 ELSE first
           pvt == previousViewportTop
<1>1. previousLines \in Seq(Glyphs) /\ maxLinesRendered \in Nat /\ m <= maxLinesRendered
      /\ pvt = Max({0, maxLinesRendered - Height})
  BY DEF Typed
<1>2. n \in Nat /\ m \in Nat /\ m >= 1 /\ Height \in Nat \ {0}
  BY <1>1, RendererAssumption
<1>3. /\ first \in Nat /\ last \in Nat /\ first \in Changes(lines) /\ last \in Changes(lines)
      /\ \A i \in Changes(lines) : first <= i /\ i <= last
  BY <1>1, EndsOfChange
<1>4. \A i \in Nat : IF i \in Changes(lines) THEN i < n \/ i < m
                     ELSE (i >= n \/ i < m) /\ Line(lines, i + 1) = Line(previousLines, i + 1)
  BY <1>1, ChangesAre
<1>5. first < n
  OBVIOUS
<1>6. ~(first < Max({0, m - Height}))
  BY Zenon DEF AboveViewport
<1>7. (\A i \in Nat : i > n => Line(lines, i) = Blank) /\ (\A i \in Nat : i > m => Line(previousLines, i) = Blank)
  BY <1>1, LineType
<1>8. pvt = ViewportTop
  BY <1>1 DEF ViewportTop
<1> HIDE DEF first, last, n, m, pvt
<1>9. Max({0, m - Height}) = (IF 0 >= m - Height THEN 0 ELSE m - Height)
      /\ Max({0, maxLinesRendered - Height}) = (IF 0 >= maxLinesRendered - Height THEN 0 ELSE maxLinesRendered - Height)
  BY <1>1, <1>2, MaxTwo
<1>10. first + Height >= m
  BY <1>2, <1>3, <1>6, <1>9
<1>11. first <= m
  <2>1. CASE n > m
    <3>1. m \in Changes(lines)
      BY <1>2, <1>4, <2>1
    <3> QED
      BY <1>3, <3>1
  <2>2. CASE ~(n > m)
    BY <1>2, <1>3, <1>5, <2>2
  <2> QED
    BY <2>1, <2>2
<1>12. appended <=> first = m
  BY <1>2, <1>3, <1>5
<1>13. end = IF last <= n - 1 THEN last ELSE n - 1
  BY <1>2, <1>3, MinTwo
<1>14. first <= last
  BY <1>3
<1> HIDE DEF end
<1>15. end \in Nat /\ first <= end /\ end < n
  BY <1>2, <1>3, <1>5, <1>13, <1>14
<1>16. moveTo \in Nat /\ moveTo <= m - 1
  BY <1>2, <1>3, <1>11, <1>12
<1> HIDE DEF moveTo
<1>17. pvt \in Nat /\ pvt + Height >= maxLinesRendered
  BY <1>1, <1>2, <1>9
<1>18. moveTo <= (pvt + Height) - 1
  BY <1>1, <1>2, <1>16, <1>17
<1>19. ASSUME NEW i \in Nat, i < first \/ (i > end /\ (i < n \/ i >= m))
       PROVE  Line(lines, i + 1) = Line(previousLines, i + 1)
  <2>1. CASE i < n \/ i < m
    <3>1. i \notin Changes(lines)
      BY <1>2, <1>3, <1>5, <1>11, <1>13, <1>19, <2>1
    <3> QED
      BY <1>4, <3>1
  <2>2. CASE ~(i < n \/ i < m)
    <3>1. i + 1 \in Nat /\ i + 1 > n /\ i + 1 > m
      BY <1>2, <2>2
    <3> QED
      BY <1>7, <3>1
  <2> QED
    BY <2>1, <2>2
<1>20. ASSUME n > m PROVE end = n - 1
  <2> DEFINE i == n - 1
  <2>1. i \in Nat /\ i < n /\ ~(i < m) /\ ~(i >= n)
    BY <1>2, <1>20
  <2> HIDE DEF i
  <2>2. i \in Changes(lines)
    BY <1>4, <2>1
  <2>3. i <= last
    BY <1>3, <2>2
  <2> QED
    BY <1>2, <1>3, <1>13, <2>3 DEF i
<1>21. /\ first \in Nat /\ first <= m /\ first + Height >= m /\ first < n
       /\ (appended <=> first = m) /\ appended \in BOOLEAN
       /\ end \in Nat /\ first <= end /\ end < n /\ moveTo \in Nat
       /\ moveTo <= (pvt + Height) - 1 /\ pvt \in Nat
       /\ pvt = ViewportTop
       /\ \A i \in Nat : i < first \/ (i > end /\ (i < n \/ i >= m)) => Line(lines, i + 1) = Line(previousLines, i + 1)
       /\ n > m => end = n - 1
  BY <1>3, <1>5, <1>8, <1>10, <1>11, <1>12, <1>15, <1>16, <1>17, <1>18, <1>19, <1>20
<1> QED
  BY <1>21, Zenon DEF first, last, n, m, end, appended, moveTo, pvt

LEMMA UpdateIs ==
    ASSUME RendererInv, NEW lines \in Seq(Glyphs), NEW marker \in Markers(lines), previousLines # <<>>,
           ~(clearOnShrink /\ Len(lines) < maxLinesRendered), Changes(lines) # {},
           Min(Changes(lines)) < Len(lines), ~AboveViewport(Min(Changes(lines))),
           Update(lines, marker, Min(Changes(lines)), Max(Changes(lines)))
    PROVE  \E most : Rendered(lines, most)
<1> DEFINE first == Min(Changes(lines))
           last == Max(Changes(lines))
           n == Len(lines)
           m == Len(previousLines)
           end == Min({last, n - 1})
           appended == first = m /\ first > 0 /\ n > first
           moveTo == IF appended THEN first - 1 ELSE first
           pvt == previousViewportTop
           hw == hardwareCursorRow
           o == origin
           t == terminal
           scroll == Max({0, moveTo - (pvt + Height - 1)})
           toBottom == Height - 1 - Max({0, Min({Height - 1, hw - pvt})})
           from == IF scroll > 0 THEN moveTo ELSE hw
           there == Move(IF scroll > 0 THEN NewLines(Down(t, toBottom), scroll) ELSE t,
                         Diff(moveTo, ViewportTop + scroll, from, pvt + scroll))
           e == IF appended THEN NewLine(there) ELSE there
           part == SubSeq(lines, first + 1, end + 1)
           w == PutLines(e, part, "rewrite")
           extra == Max({0, m - n})
           erased == PutLines(NewLine(Down(w, n - 1 - end)), Blanks(extra), "rewrite")
           v == IF extra > 0 THEN Up(erased, extra) ELSE w
           row == IF extra > 0 THEN n - 1 ELSE end
           most == Most(lines)
<1>1. Finish(v, row, marker, lines, most) /\ origin' = o
  BY Zenon DEF Update
<1>2. /\ Typed /\ t \in Terminals /\ o \in Nat /\ previousLines \in Seq(Glyphs)
      /\ hw \in Nat /\ maxLinesRendered \in Nat /\ m <= maxLinesRendered
      /\ (clearOnShrink => m = maxLinesRendered)
      /\ (Domain(maxLinesRendered) => Shows(t, o, previousLines, hw))
  BY DEF RendererInv, Typed
<1>3. n \in Nat /\ m \in Nat /\ m >= 1 /\ Height \in Nat \ {0} /\ t.top \in Nat
  BY <1>2, RendererAssumption DEF Terminals
<1>4. /\ first \in Nat /\ first <= m /\ first + Height >= m /\ first < n
      /\ (appended <=> first = m) /\ appended \in BOOLEAN
      /\ end \in Nat /\ first <= end /\ end < n /\ moveTo \in Nat
      /\ moveTo <= (pvt + Height) - 1 /\ pvt \in Nat
      /\ pvt = ViewportTop
      /\ \A i \in Nat : i < first \/ (i > end /\ (i < n \/ i >= m)) => Line(lines, i + 1) = Line(previousLines, i + 1)
      /\ n > m => end = n - 1
  BY <1>2, UpdateEnds, Zenon
<1>5. moveTo = IF appended THEN first - 1 ELSE first
  OBVIOUS
<1> HIDE DEF first, end, appended, moveTo, n, m, pvt, hw, o, t
<1>6. there = Move(t, moveTo - hw) /\ moveTo - hw \in Int
  <2>1. moveTo - (pvt + Height - 1) <= 0 /\ moveTo - (pvt + Height - 1) \in Int
    BY <1>3, <1>4
  <2>2. scroll = 0
    BY <2>1, MaxTwo
  <2> HIDE DEF scroll
  <2>3. ~(scroll > 0)
    BY <2>2
  <2>4. there = Move(t, Diff(moveTo, ViewportTop + scroll, hw, pvt + scroll))
    BY <2>3, Zenon
  <2>5. Diff(moveTo, ViewportTop + scroll, hw, pvt + scroll) = moveTo - hw
    BY <1>2, <1>4, <2>2 DEF Diff
  <2> HIDE DEF there
  <2> QED
    BY <1>2, <1>4, <2>4, <2>5
<1> HIDE DEF there
<1>7. e \in Terminals
  <2>1. there \in Terminals
    BY <1>2, <1>6, MoveIs
  <2>2. NewLine(there) \in Terminals
    BY <2>1, NewLineIs DEF Moved
  <2> QED
    BY <2>1, <2>2
<1> HIDE DEF e
<1>8. w \in Terminals
  <2>1. part \in Seq(Glyphs)
    <3>1. first + 1 \in 1..n /\ end + 1 \in 1..n
      BY <1>3, <1>4
    <3> QED
      BY <3>1 DEF n
  <2> HIDE DEF part
  <2> QED
    BY <1>7, <2>1, LinesLaid
<1> HIDE DEF w
<1>9. extra = (IF m - n > 0 THEN m - n ELSE 0) /\ extra \in Nat
  <2>1. Max({0, m - n}) = IF 0 >= m - n THEN 0 ELSE m - n
    BY <1>3, MaxTwo
  <2> QED
    BY <1>3, <2>1
<1> HIDE DEF extra
<1>10. erased \in Terminals /\ v \in Terminals
  <2> DEFINE f == Down(w, n - 1 - end)  g == NewLine(f)
  <2>1. n - 1 - end \in Nat
    BY <1>3, <1>4
  <2>2. f \in Terminals
    BY <1>8, <2>1, DownIs DEF Moved
  <2> HIDE DEF f
  <2>3. g \in Terminals
    BY <2>2, NewLineIs DEF Moved
  <2>4. Blanks(extra) \in Seq(Glyphs)
    BY <1>9, BlanksAre
  <2>5. erased = PutLines(g, Blanks(extra), "rewrite")
    BY Zenon DEF f, g
  <2> HIDE DEF g
  <2>6. erased \in Terminals
    BY <2>3, <2>4, <2>5, LinesLaid
  <2> HIDE DEF erased
  <2>7. Up(erased, extra) \in Terminals
    BY <1>9, <2>6, UpIs DEF Moved
  <2> QED
    BY <1>8, <2>6, <2>7
<1>11. row \in Nat
  BY <1>3, <1>4
<1>12. most \in Nat /\ n <= most /\ maxLinesRendered <= most /\ (n >= maxLinesRendered => most = n)
  BY <1>2, MostIs DEF n
<1> HIDE DEF most
<1>13. clearOnShrink => n >= m /\ n = most
  <2> SUFFICES ASSUME clearOnShrink PROVE n >= m /\ n = most
    OBVIOUS
  <2>1. ~(n < maxLinesRendered) /\ m = maxLinesRendered
    BY <1>2 DEF n
  <2> QED
    BY <1>2, <1>3, <1>12, <2>1
<1>14. ASSUME Domain(most) PROVE Shows(v, o, lines, row)
  <2>1. Shows(t, o, previousLines, hw) /\ (clearOnShrink \/ m <= Height)
    <3>1. clearOnShrink \/ most <= Height
      BY <1>14 DEF Domain
    <3>2. clearOnShrink \/ maxLinesRendered <= Height
      BY <1>2, <1>3, <1>12, <3>1
    <3> QED
      BY <1>2, <1>3, <3>2 DEF Domain
  <2>2. o + m <= t.top + Height /\ (t.top <= o \/ t.top + Height <= o + m)
        /\ \A k \in Nat : k >= o => Row(t, k) = Line(previousLines, (k - o) + 1)
    BY <2>1 DEF Shows, m
  <2>3. Moved(t, e, o + first, TopAt(t, o + first))
    <3>1. e = IF appended THEN NewLine(Move(t, moveTo - hw)) ELSE Move(t, moveTo - hw)
      BY <1>6, Zenon DEF e
    <3>2. Moved(t, IF appended THEN NewLine(Move(t, moveTo - hw)) ELSE Move(t, moveTo - hw), o + first, TopAt(t, o + first))
      BY <1>2, <1>4, <1>5, <2>1, ThereIs DEF m
    <3> QED
      BY <3>1, <3>2, Zenon
  <2>4. /\ w.cursor = o + end /\ w.top = TopAt(t, o + end)
        /\ \A k \in Nat : Row(w, k) = IF k >= o + first /\ k <= o + end THEN Line(lines, (k - o) + 1) ELSE Row(t, k)
    <3>1. first \in Nat /\ end \in Nat /\ first <= end /\ end < Len(lines) /\ t \in Terminals /\ o \in Nat
      BY <1>2, <1>4 DEF n
    <3>2. LET u == PutLines(e, SubSeq(lines, first + 1, end + 1), "rewrite")
          IN  /\ u \in Terminals /\ u.cursor = o + end /\ u.top = TopAt(t, o + end)
              /\ \A k \in Nat : Row(u, k) = IF k >= o + first /\ k <= o + end THEN Line(lines, (k - o) + 1) ELSE Row(t, k)
      BY <1>7, <2>3, <3>1, WrittenIs
    <3> QED
      BY <3>2, Zenon DEF w
  <2>5. w.top = IF o + end <= (t.top + Height) - 1 THEN t.top ELSE ((o + end) - Height) + 1
    BY <2>4 DEF TopAt
  <2>6. ASSUME NEW k \in Nat, k >= o, k < o + n \/ k >= o + m
        PROVE  Row(w, k) = Line(lines, (k - o) + 1)
    <3>1. CASE k >= o + first /\ k <= o + end
      BY <2>4, <3>1
    <3>2. CASE ~(k >= o + first /\ k <= o + end)
      <4>1. Row(w, k) = Line(previousLines, (k - o) + 1)
        BY <2>2, <2>4, <2>6, <3>2
      <4> DEFINE i == k - o
      <4>2. i \in Nat /\ (i < first \/ (i > end /\ (i < n \/ i >= m)))
        BY <1>2, <1>3, <1>4, <2>6, <3>2
      <4> HIDE DEF i
      <4>3. Line(lines, i + 1) = Line(previousLines, i + 1)
        BY <1>4, <4>2
      <4> QED
        BY <4>1, <4>3 DEF i
    <3> QED
      BY <3>1, <3>2
  <2>7. CASE extra > 0
    <3>1. m > n /\ extra = m - n /\ ~clearOnShrink /\ m <= Height /\ row = n - 1 /\ t.top <= o
      <4>1. m > n /\ extra = m - n
        BY <1>3, <1>9, <2>7
      <4>2. ~clearOnShrink /\ row = n - 1
        BY <1>3, <1>13, <2>7, <4>1
      <4>3. m <= Height
        BY <2>1, <4>2
      <4>4. t.top <= o
        <5>1. o \in Nat /\ m \in Nat /\ t.top \in Nat /\ Height \in Nat
          BY <1>2, <1>3
        <5>2. t.top <= o \/ t.top + Height <= o + m
          BY <2>2
        <5> QED
          BY <4>3, <5>1, <5>2
      <4> QED
        BY <4>1, <4>2, <4>3, <4>4
    <3> DEFINE x == n - 1 - end
               f == Down(w, x)
               g == NewLine(f)
               b == (t.top + Height) - 1
    <3>2. x \in Nat /\ (o + end) + x = (o + n) - 1 /\ o + end <= b /\ (o + n) - 1 < b /\ b \in Int
      BY <1>2, <1>3, <1>4, <2>2, <3>1
    <3>3. w.top = t.top
      BY <2>5, <3>2
    <3>4. Moved(w, f, IF w.cursor + x <= (w.top + Height) - 1 THEN w.cursor + x ELSE (w.top + Height) - 1, w.top)
      BY <1>8, <3>2, DownIs
    <3> HIDE DEF f, x
    <3>5. w.cursor + x = (o + n) - 1 /\ w.cursor + x <= (w.top + Height) - 1
      <4>1. w.cursor = o + end
        BY <2>4
      <4>2. (w.top + Height) - 1 = b
        BY <3>3
      <4> HIDE DEF b
      <4>3. (o + n) - 1 <= b
        BY <1>2, <1>3, <3>2
      <4> QED
        BY <3>2, <4>1, <4>2, <4>3
    <3>6. f \in Terminals /\ f.cursor = (o + n) - 1 /\ f.top = t.top /\ \A k \in Nat : Row(f, k) = Row(w, k)
      BY <3>3, <3>4, <3>5 DEF Moved
    <3>7. Moved(f, g, f.cursor + 1, IF f.cursor < (f.top + Height) - 1 THEN f.top ELSE f.top + 1)
      BY <3>6, NewLineIs
    <3> HIDE DEF g
    <3>8. f.cursor + 1 = o + n /\ f.cursor < (f.top + Height) - 1
      BY <1>2, <1>3, <3>2, <3>6
    <3>9. g \in Terminals /\ g.cursor = o + n /\ g.top = t.top /\ \A k \in Nat : Row(g, k) = Row(w, k)
      BY <3>6, <3>7, <3>8 DEF Moved
    <3>10. (o + n) + extra = o + m
      BY <1>2, <1>3, <3>1
    <3>11. (o + n) + extra <= g.top + Height /\ extra \in Nat \ {0} /\ g.top <= o
      BY <1>9, <2>2, <2>7, <3>1, <3>9, <3>10
    <3>12. \A k \in Nat : k >= o /\ (k < o + n \/ k >= (o + n) + extra) => Row(g, k) = Line(lines, (k - o) + 1)
      BY <2>6, <3>9, <3>10
    <3>13. lines # <<>>
      <4>1. Len(<<>>) = 0 /\ n # 0
        BY <1>3, <1>4
      <4> QED
        BY <4>1 DEF n
    <3>14. Shows(Up(PutLines(g, Blanks(extra), "rewrite"), extra), o, lines, n - 1)
      BY <1>2, <3>9, <3>11, <3>12, <3>13, Blanked DEF n
    <3>15. v = Up(PutLines(g, Blanks(extra), "rewrite"), extra)
      BY <2>7, Zenon DEF f, g, x
    <3> QED
      BY <3>1, <3>14, <3>15
  <2>8. CASE ~(extra > 0)
    <3>1. m <= n /\ v = w /\ row = end
      BY <1>3, <1>9, <2>8
    <3>2. ASSUME NEW k \in Nat, k >= o PROVE Row(w, k) = Line(lines, (k - o) + 1)
      <4>1. k < o + n \/ k >= o + m
        BY <1>2, <1>3, <3>1, <3>2
      <4> QED
        BY <2>6, <3>2, <4>1
    <3>3. o + n <= w.top + Height /\ (w.top <= o \/ w.top + Height <= o + n)
      <4>1. n = m \/ end = n - 1
        BY <1>3, <1>4, <3>1
      <4> DEFINE c == o + end
      <4>2. c \in Nat /\ c <= (o + n) - 1 /\ (n = m \/ c = (o + n) - 1)
        BY <1>2, <1>3, <1>4, <4>1
      <4>3. w.top = IF c <= (t.top + Height) - 1 THEN t.top ELSE (c - Height) + 1
        BY <2>5
      <4> HIDE DEF c
      <4>4. CASE c <= (t.top + Height) - 1
        <5>1. w.top = t.top
          BY <4>3, <4>4
        <5>2. o + n <= t.top + Height
          BY <1>2, <1>3, <2>2, <4>2, <4>4
        <5>3. t.top <= o \/ t.top + Height <= o + n
          BY <1>2, <1>3, <2>2, <3>1
        <5> QED
          BY <5>1, <5>2, <5>3
      <4>5. CASE ~(c <= (t.top + Height) - 1)
        <5>1. w.top = (c - Height) + 1 /\ c = (o + n) - 1
          BY <1>2, <1>3, <2>2, <4>2, <4>3, <4>5
        <5> QED
          BY <1>2, <1>3, <4>2, <5>1
      <4> QED
        BY <4>4, <4>5
    <3>4. Shows(w, o, lines, end)
      BY <2>4, <3>2, <3>3 DEF Shows, n
    <3> QED
      BY <3>1, <3>4
  <2> QED
    BY <1>9, <2>7, <2>8
<1>15. marker \in {None} \cup Nat /\ (marker # None => marker < n /\ marker + Height >= n)
  BY MarkersAre DEF n
<1> HIDE DEF v, row
<1>16. lines # <<>>
  <2>1. Len(<<>>) = 0 /\ n # 0
    BY <1>3, <1>4
  <2> QED
    BY <2>1 DEF n
<1>17. Rendered(lines, most)
  BY <1>1, <1>2, <1>10, <1>11, <1>12, <1>13, <1>14, <1>15, <1>16, FinishIs DEF n
<1> QED
  BY <1>17

LEMMA RenderIs ==
    ASSUME RendererInv, NEW lines \in Seq(Glyphs), NEW marker \in Markers(lines),
           lines # <<>> \/ clearOnShrink, overlay # None => Len(lines) >= maxLinesRendered,
           Render(lines, marker)
    PROVE  \E shown, most : Rendered(shown, most)
<1> DEFINE first == Min(Changes(lines))  last == Max(Changes(lines))
<1>1. /\ previousLines \in Seq(Glyphs) /\ maxLinesRendered \in Nat /\ Len(previousLines) <= maxLinesRendered
      /\ clearOnShrink => Len(previousLines) = maxLinesRendered
  BY DEF RendererInv, Typed
<1>2. \/ FullRender(lines, marker, TRUE)
      \/ previousLines = <<>> /\ FullRender(lines, marker, FALSE)
      \/ /\ previousLines # <<>> /\ ~Shrunk(lines)
         /\ \/ /\ Changes(lines) = {} /\ UNCHANGED origin
               /\ Finish(terminal, hardwareCursorRow, marker, previousLines, maxLinesRendered)
            \/ Changes(lines) # {} /\ first >= Len(lines) /\ Delete(lines, marker)
            \/ /\ Changes(lines) # {} /\ first < Len(lines)
               /\ IF AboveViewport(first) THEN FullRender(lines, marker, TRUE)
                  ELSE Update(lines, marker, first, last)
  BY Zenon DEF Render, Changes
<1>3. CASE FullRender(lines, marker, TRUE)
  BY <1>3, FullRenderIs
<1>4. CASE previousLines = <<>> /\ FullRender(lines, marker, FALSE)
  BY <1>4, FullRenderIs
<1>5. ASSUME previousLines # <<>>, ~Shrunk(lines) PROVE ~(clearOnShrink /\ Len(lines) < maxLinesRendered)
  <2> SUFFICES ASSUME clearOnShrink, Len(lines) < maxLinesRendered PROVE FALSE
    OBVIOUS
  <2>1. overlay # None
    BY <1>5 DEF Shrunk
  <2>2. Len(lines) >= maxLinesRendered /\ Len(lines) \in Nat
    BY <2>1
  <2> QED
    BY <1>1, <2>2
<1>6. CASE /\ previousLines # <<>> /\ ~Shrunk(lines)
           /\ Changes(lines) = {} /\ UNCHANGED origin
           /\ Finish(terminal, hardwareCursorRow, marker, previousLines, maxLinesRendered)
  <2>1. Rendered(previousLines, maxLinesRendered)
    BY <1>5, <1>6, UnchangedIs
  <2> QED
    BY <2>1
<1>7. CASE /\ previousLines # <<>> /\ ~Shrunk(lines)
           /\ Changes(lines) # {} /\ first >= Len(lines) /\ Delete(lines, marker)
  <2>1. ~clearOnShrink
    <3> SUFFICES ASSUME clearOnShrink PROVE FALSE
      OBVIOUS
    <3>1. first \in Nat /\ first \in Changes(lines)
      BY <1>1, <1>7, EndsOfChange
    <3>2. first < Len(lines) \/ first < Len(previousLines)
      BY <1>1, <3>1, ChangesAre
    <3>3. ~(Len(lines) < maxLinesRendered) /\ Len(previousLines) = maxLinesRendered
      BY <1>1, <1>5, <1>7
    <3>4. Len(lines) \in Nat /\ first >= Len(lines)
      BY <1>7
    <3> HIDE DEF first
    <3> QED
      BY <1>1, <3>1, <3>2, <3>3, <3>4
  <2>2. lines # <<>>
    BY <2>1
  <2> QED
    BY <1>7, <2>1, <2>2, DeleteIs
<1>8. CASE /\ previousLines # <<>> /\ ~Shrunk(lines)
           /\ Changes(lines) # {} /\ first < Len(lines)
           /\ IF AboveViewport(first) THEN FullRender(lines, marker, TRUE)
              ELSE Update(lines, marker, first, last)
  <2>1. CASE AboveViewport(first)
    <3>1. FullRender(lines, marker, TRUE)
      BY <1>8, <2>1, Zenon
    <3> QED
      BY <3>1, FullRenderIs
  <2>2. CASE ~AboveViewport(first)
    <3>1. Update(lines, marker, first, last)
      BY <1>8, <2>2, Zenon
    <3> QED
      BY <1>5, <1>8, <2>2, <3>1, UpdateIs
  <2> QED
    BY <2>1, <2>2
<1> QED
  BY <1>2, <1>3, <1>4, <1>6, <1>7, <1>8, Zenon

-------------------------------------------------------------------------------
(* Every step. *)

LEMMA InitIsGood == RendererInit => RendererInv
<1> SUFFICES ASSUME RendererInit PROVE RendererInv
  OBVIOUS
<1> DEFINE r == Blanks(Height)
<1>1. /\ origin \in 0..(Height - 1) /\ terminal = [rows |-> r, top |-> 0, cursor |-> origin]
      /\ previousLines = <<>> /\ maxLinesRendered = 0 /\ previousViewportTop = 0 /\ hardwareCursorRow = 0
      /\ overlay = None
  BY DEF RendererInit
<1>2. Height \in Nat \ {0} /\ origin \in Nat /\ Len(<<>>) = 0
  BY <1>1, RendererAssumption
<1>3. r \in Seq(Glyphs) /\ Len(r) = Height /\ \A i \in 1..Height : r[i] = Blank
  BY <1>2, BlanksAre
<1> HIDE DEF r
<1>4. /\ terminal.rows = r /\ terminal.top = 0 /\ terminal.cursor = origin
      /\ terminal \in [rows : Seq(Glyphs), top : Nat, cursor : Nat]
  BY <1>1, <1>2, <1>3
<1>5. terminal \in Terminals
  BY <1>1, <1>2, <1>3, <1>4 DEF Terminals
<1>6. Max({0, 0 - Height}) = 0
  <2>1. 0 - Height \in Int /\ 0 >= 0 - Height
    BY <1>2
  <2> QED
    BY <2>1, MaxTwo
<1>7. Typed
  <2>1. <<>> \in Seq(Glyphs)
    OBVIOUS
  <2> QED
    BY <1>1, <1>2, <1>5, <1>6, <2>1 DEF Typed, RowSets
<1>8. Shows(terminal, origin, <<>>, 0)
  <2>1. ASSUME NEW k \in Nat PROVE Row(terminal, k) = Blank
    <3>1. k < Height => k + 1 \in 1..Height
      BY <1>2
    <3> QED
      BY <1>3, <1>4, <3>1 DEF Row
  <2>2. \A i : Line(<<>>, i) = Blank
    <3>1. DOMAIN <<>> = {}
      OBVIOUS
    <3> QED
      BY <3>1, Zenon DEF Line
  <2> QED
    BY <1>1, <1>2, <1>4, <2>1, <2>2 DEF Shows
<1> QED
  BY <1>1, <1>7, <1>8 DEF RendererInv

LEMMA NextIsGood == RendererInv /\ [RendererNext]_rendererVars => RendererInv'
<1> SUFFICES ASSUME RendererInv, [RendererNext]_rendererVars PROVE RendererInv'
  OBVIOUS
<1>1. Typed
  BY DEF RendererInv
<1>2. ASSUME Redraw PROVE RendererInv'
  <2>1. PICK content \in Contents :
            /\ clearOnShrink \/ (content # <<>> /\ (Outgrow \/ Len(content) <= Height))
            /\ \E marker \in Markers(Composite(content)) : Render(Composite(content), marker)
    BY <1>2, Zenon DEF Redraw
  <2>2. overlay' = overlay /\ clearOnShrink' = clearOnShrink
    BY <1>2 DEF Redraw
  <2> DEFINE lines == Composite(content)
  <2>3. PICK marker \in Markers(lines) : Render(lines, marker)
    BY <2>1
  <2>4. lines \in Seq(Glyphs) /\ Len(lines) >= Len(content) /\ Len(content) \in Nat
        /\ (overlay # None => Len(lines) >= maxLinesRendered)
    BY <1>1, CompositeIs DEF Typed
  <2>5. lines # <<>> \/ clearOnShrink
    <3> SUFFICES ASSUME ~clearOnShrink PROVE lines # <<>>
      OBVIOUS
    <3>1. content # <<>>
      BY <2>1
    <3>2. PICK n \in 0..MaxLines : content \in [1..n -> Lines \cup {Blank}]
      BY DEF Contents
    <3>3. Len(content) # 0
      <4>1. n \in Nat /\ Len(content) = n
        BY <3>2, RendererAssumption
      <4>2. n = 0 => content = <<>>
        BY <3>2
      <4> QED
        BY <3>1, <4>1, <4>2
    <3>4. Len(<<>>) = 0
      OBVIOUS
    <3> HIDE DEF lines
    <3> QED
      BY <2>4, <3>3, <3>4
  <2> HIDE DEF lines
  <2>6. PICK shown, most : Rendered(shown, most)
    BY <2>3, <2>4, <2>5, RenderIs
  <2>7. Typed'
    BY <1>1, <2>2, <2>6 DEF Typed, Rendered
  <2>8. Domain(maxLinesRendered)' => Shows(terminal, origin, previousLines, hardwareCursorRow)'
    <3>1. maxLinesRendered' = most /\ previousLines' = shown
          /\ (Domain(most) => Shows(terminal', origin', shown, hardwareCursorRow'))
      BY <2>6 DEF Rendered
    <3> QED
      BY <2>2, <3>1 DEF Domain, Shows, Row
  <2> QED
    BY <2>7, <2>8 DEF RendererInv
<1>3. ASSUME UNCHANGED <<terminal, origin, previousLines, maxLinesRendered, previousViewportTop,
                         hardwareCursorRow, clearOnShrink>>, overlay' \in RowSets
      PROVE  RendererInv'
  <2>1. Typed'
    BY <1>1, <1>3 DEF Typed
  <2>2. (Domain(maxLinesRendered) => Shows(terminal, origin, previousLines, hardwareCursorRow))'
    BY <1>3 DEF RendererInv, Domain, Shows, Row
  <2> QED
    BY <2>1, <2>2 DEF RendererInv
<1>4. CASE ForceRender
  BY <1>1, <1>3, <1>4 DEF ForceRender, Typed
<1>5. CASE \E row \in {None} \cup 0..(Height - 1) : ChangeOverlay(row)
  BY <1>3, <1>5 DEF ChangeOverlay, RowSets
<1>6. CASE UNCHANGED rendererVars
  BY <1>1, <1>3, <1>6 DEF rendererVars, Typed
<1> QED
  BY <1>2, <1>4, <1>5, <1>6 DEF RendererNext

LEMMA GoodIsTrue == RendererInv => ScreenTrue
<1> SUFFICES ASSUME RendererInv PROVE ScreenTrue
  OBVIOUS
<1>1. /\ terminal \in Terminals /\ origin \in Nat /\ previousLines \in Seq(Glyphs)
      /\ Len(previousLines) <= maxLinesRendered /\ hardwareCursorRow \in Nat
      /\ previousViewportTop = Max({0, maxLinesRendered - Height})
  BY DEF RendererInv, Typed
<1>2. /\ Len(terminal.rows) = terminal.top + Height /\ terminal.top \in Nat /\ terminal.cursor \in Nat /\ Height \in Nat
      /\ terminal.cursor >= terminal.top /\ terminal.cursor <= (terminal.top + Height) - 1
  BY <1>1, RendererAssumption DEF Terminals
<1>3. terminal.cursor \in terminal.top..Bottom(terminal)
  <2>1. Bottom(terminal) = (terminal.top + Height) - 1
    BY <1>2 DEF Bottom
  <2> QED
    BY <1>2, <2>1
<1>4. RendererTypeOK
  BY <1>1, <1>2, <1>3 DEF RendererTypeOK
<1>5. ASSUME clearOnShrink \/ maxLinesRendered <= Height
      PROVE  Shown /\ terminal.cursor = origin + hardwareCursorRow
  <2>1. Shows(terminal, origin, previousLines, hardwareCursorRow)
    BY <1>5 DEF RendererInv, Domain
  <2>2. ASSUME NEW row \in origin..(Len(terminal.rows) - 1)
        PROVE  terminal.rows[row + 1] = Line(previousLines, row - origin + 1)
    <3>1. row \in Nat /\ row >= origin /\ row < Len(terminal.rows) /\ row - origin + 1 = (row - origin) + 1
      BY <1>1, <1>2
    <3>2. Row(terminal, row) = Line(previousLines, (row - origin) + 1)
      BY <2>1, <3>1 DEF Shows
    <3> QED
      BY <3>1, <3>2 DEF Row
  <2> QED
    BY <2>1, <2>2 DEF Shown, Shows
<1> QED
  BY <1>4, <1>5, Zenon DEF ScreenTrue

\* What the user sees is what was rendered last, and the cursor is in the row the
\* TUI believes it in: for contents, screens and line values of any number, with
\* clearOnShrink on, or as long as no content was higher than the screen.
THEOREM ScreenStaysTrue == RendererSpec => []ScreenTrue
<1>1. RendererInit => RendererInv
  BY InitIsGood
<1>2. RendererInv /\ [RendererNext]_rendererVars => RendererInv'
  BY NextIsGood
<1>3. RendererInv => ScreenTrue
  BY GoodIsTrue
<1> QED
  BY <1>1, <1>2, <1>3, PTL DEF RendererSpec

================================================================================
