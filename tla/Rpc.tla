----------------------------------- MODULE Rpc -----------------------------------
(***************************************************************************)
(* packages/coding-agent/src/modes/rpc: RpcClient drives an agent process   *)
(* over two pipes of lines.  Requests are settled by the response with      *)
(* their id, or by a timer; whoever waits for a run listens for its events; *)
(* extensions in the agent process open dialogs that the host answers.      *)
(* What a command does, and what a run says between its first and its last  *)
(* event, is left out.                                                      *)
(***************************************************************************)
EXTENDS Naturals, Selection, SequencesExt, FiniteSetsExt

CONSTANTS
    Calls,           \* calls of the client, each made once
    Dialogs,         \* dialogs of extensions, each opened once
    Timed            \* those with a timeout or an abort signal

ASSUME RpcAssumption == Timed \subseteq Dialogs /\ Calls \cap Dialogs = {} /\ "none" \notin Calls

VARIABLES
    client,          \* "up", "stopping" or "stopped"
    request,         \* what the promise of send() has come to
    pendingRequests,
    waiter,          \* the same for collectEvents and waitForIdle
    eventListeners,
    collected,       \* the events of a collectEvents
    toAgent, toClient,    \* the pipes
    alive,           \* the agent process runs
    handling,        \* commands being executed
    run,             \* whose prompt the agent works on, or "none"
    started,         \* its first event was sent
    dialog, pendingExtensionRequests,
    replied,         \* history: requests answered with their id
    dropped,         \* history: requests that failed
    tidy             \* history: every prompt was sent when nothing was going on

clientVars == <<client, request, pendingRequests, waiter, eventListeners, collected>>
agentVars == <<alive, handling, run, started, replied, dropped>>
dialogVars == <<dialog, pendingExtensionRequests>>
rpcVars == <<clientVars, toAgent, toClient, agentVars, dialogVars, tidy>>

Message(type, of) == [type |-> type, of |-> of]
Has(lines, types) == \E i \in DOMAIN lines : lines[i].type \in types

-------------------------------------------------------------------------------
(* The client. *)

\* send(): the request waits in the map before its line is written.
SendRequest(c, type) ==
    /\ client # "stopped" /\ request[c] = "none" /\ waiter[c] = "none"
    /\ request' = [request EXCEPT ![c] = "pending"]
    /\ pendingRequests' = pendingRequests \cup {c}
    /\ toAgent' = Append(toAgent, Message(type, c))

Listen(c) ==
    /\ waiter' = [waiter EXCEPT ![c] = "waiting"]
    /\ eventListeners' = Append(eventListeners, c)

Quiet == run = "none" /\ eventListeners = <<>> /\ ~Has(toAgent, {"prompt"}) /\ ~Has(toClient, {"start", "end"})

Command(c) ==
    /\ SendRequest(c, "command")
    /\ UNCHANGED <<client, waiter, eventListeners, collected, toClient, agentVars, dialogVars, tidy>>

Prompt(c) ==
    /\ SendRequest(c, "prompt") /\ tidy' = (tidy /\ Quiet)
    /\ UNCHANGED <<client, waiter, eventListeners, collected, toClient, agentVars, dialogVars>>

\* It listens once the prompt has been answered.
PromptAndWaitBuggy(c) ==
    \/ Prompt(c)
    \/ /\ request[c] = "answered" /\ waiter[c] = "none" /\ Listen(c)
       /\ UNCHANGED <<client, request, pendingRequests, collected, toAgent, toClient, agentVars, dialogVars, tidy>>

\* promptAndWait: it listens before it sends.
PromptAndWait(c) ==
    /\ Listen(c) /\ SendRequest(c, "prompt") /\ tidy' = (tidy /\ Quiet)
    /\ UNCHANGED <<client, collected, toClient, agentVars, dialogVars>>

WaitForIdle(c) ==
    /\ request[c] = "none" /\ waiter[c] = "none" /\ Listen(c)
    /\ UNCHANGED <<client, request, pendingRequests, collected, toAgent, toClient, agentVars, dialogVars, tidy>>

\* Each listener takes itself out of the array that is being iterated when the
\* run ends: the next one is passed over.
Heard(line) ==
    {eventListeners[i] : i \in {j \in DOMAIN eventListeners : line.type = "end" => j % 2 = 1}}

\* handleLine: to the request with that id, or to whoever listens.
Deliver(line) ==
    IF line.type = "response" /\ line.of \in pendingRequests
    THEN /\ request' = [request EXCEPT ![line.of] = "answered"]
         /\ pendingRequests' = pendingRequests \ {line.of}
         /\ UNCHANGED <<waiter, eventListeners, collected>>
    ELSE /\ collected' = [c \in Calls |-> IF c \in Heard(line) THEN Append(collected[c], line) ELSE collected[c]]
         /\ IF line.type = "end"
            THEN /\ waiter' = [c \in Calls |-> IF c \in Heard(line) THEN "done" ELSE waiter[c]]
                 /\ eventListeners' = [i \in 1..(Len(eventListeners) \div 2) |-> eventListeners[2 * i]]
            ELSE UNCHANGED <<waiter, eventListeners>>
         /\ UNCHANGED <<request, pendingRequests>>

Receive ==
    /\ client = "up" /\ toClient # <<>>
    /\ toClient' = Tail(toClient) /\ Deliver(Head(toClient))
    /\ UNCHANGED <<client, toAgent, agentVars, dialogVars, tidy>>

\* 30 s for a request ...
RequestTimeout(c) ==
    /\ request[c] = "pending"
    /\ request' = [request EXCEPT ![c] = "timed out"]
    /\ pendingRequests' = pendingRequests \ {c}
    /\ UNCHANGED <<client, waiter, eventListeners, collected, toAgent, toClient, agentVars, dialogVars, tidy>>

\* ... and 60 s for a run.
WaiterTimeout(c) ==
    /\ waiter[c] = "waiting"
    /\ waiter' = [waiter EXCEPT ![c] = "timed out"]
    /\ \E index \in DOMAIN eventListeners :
           eventListeners[index] = c /\ eventListeners' = RemoveAt(eventListeners, index)
    /\ UNCHANGED <<client, request, pendingRequests, collected, toAgent, toClient, agentVars, dialogVars, tidy>>

\* stop(): nothing is read any more; the process is killed.
Stop ==
    /\ client = "up" /\ client' = "stopping"
    /\ UNCHANGED <<request, pendingRequests, waiter, eventListeners, collected,
                   toAgent, toClient, agentVars, dialogVars, tidy>>

Stopped ==
    /\ client = "stopping" /\ client' = "stopped" /\ pendingRequests' = {}
    /\ alive' = FALSE
    /\ UNCHANGED <<request, waiter, eventListeners, collected, toAgent, toClient,
                   handling, run, started, replied, dropped, dialogVars, tidy>>

-------------------------------------------------------------------------------
(* The agent process. *)

Output(lines) == toClient' = toClient \o lines

\* A prompt is answered at once and goes on by itself; one that is refused, as
\* the agent is busy or lacks a key, is answered twice.
StartPrompt(c) ==
    /\ replied' = replied \cup {c}
    /\ \/ run = "none" /\ run' = c /\ started' = FALSE /\ Output(<<Message("response", c)>>)
       \/ UNCHANGED <<run, started>> /\ Output(<<Message("response", c), Message("response", c)>>)
    /\ UNCHANGED <<alive, handling, dropped, dialogVars>>

StartCommand(c) ==
    /\ handling' = handling \cup {c}
    /\ UNCHANGED <<toClient, alive, run, started, replied, dropped, dialogVars>>

\* An answer is for a dialog that is open, or for nobody.
TakeAnswer(d) ==
    /\ dialog' = IF d \in pendingExtensionRequests THEN [dialog EXCEPT ![d] = "answered"] ELSE dialog
    /\ pendingExtensionRequests' = pendingExtensionRequests \ {d}
    /\ UNCHANGED <<toClient, agentVars>>

\* The handler of "line".
TakeLine ==
    /\ alive /\ toAgent # <<>> /\ toAgent' = Tail(toAgent)
    /\ LET line == Head(toAgent)
       IN  \/ line.type = "prompt" /\ StartPrompt(line.of)
           \/ line.type = "command" /\ StartCommand(line.of)
           \/ line.type = "answer" /\ TakeAnswer(line.of)
    /\ UNCHANGED <<clientVars, tidy>>

\* Commands end in any order; the answer to one that throws has no id.
EndCommand(c) ==
    /\ alive /\ c \in handling /\ handling' = handling \ {c}
    /\ \/ Output(<<Message("response", c)>>) /\ replied' = replied \cup {c} /\ UNCHANGED dropped
       \/ Output(<<Message("response", "none")>>) /\ dropped' = dropped \cup {c} /\ UNCHANGED replied
    /\ UNCHANGED <<clientVars, toAgent, alive, run, started, dialogVars, tidy>>

RunEvent ==
    /\ alive /\ run # "none"
    /\ started' = ~started
    /\ IF started THEN run' = "none" /\ Output(<<Message("end", run)>>) ELSE UNCHANGED run /\ Output(<<Message("start", run)>>)
    /\ UNCHANGED <<clientVars, toAgent, alive, handling, replied, dropped, dialogVars, tidy>>

\* It crashes, is killed, or an extension has asked for its end.
Shutdown ==
    /\ alive /\ alive' = FALSE
    /\ UNCHANGED <<clientVars, toAgent, toClient, handling, run, started, replied, dropped, dialogVars, tidy>>

\* createDialogPromise, editor().
OpenDialog(d) ==
    /\ alive /\ dialog[d] = "none"
    /\ dialog' = [dialog EXCEPT ![d] = "open"]
    /\ pendingExtensionRequests' = pendingExtensionRequests \cup {d}
    /\ Output(<<Message("dialog", d)>>)
    /\ UNCHANGED <<clientVars, toAgent, agentVars, tidy>>

\* The host answers what it was shown, early or late, once or twice.
Reply(d) ==
    /\ dialog[d] # "none" /\ toClient = <<>> /\ ~Has(toAgent, {"answer"})
    /\ toAgent' = Append(toAgent, Message("answer", d))
    /\ UNCHANGED <<clientVars, toClient, agentVars, dialogVars, tidy>>

CleanupBuggy(d) == UNCHANGED pendingExtensionRequests
Cleanup(d) == pendingExtensionRequests' = pendingExtensionRequests \ {d}

\* The timeout, or the abort signal.
DialogTimeout(d) ==
    /\ alive /\ d \in Timed /\ dialog[d] = "open"
    /\ dialog' = [dialog EXCEPT ![d] = "default"] /\ Cleanup(d)
    /\ UNCHANGED <<clientVars, toAgent, toClient, agentVars, tidy>>

-------------------------------------------------------------------------------

RpcInit ==
    /\ client = "up" /\ request = [c \in Calls |-> "none"] /\ pendingRequests = {}
    /\ waiter = [c \in Calls |-> "none"] /\ eventListeners = <<>> /\ collected = [c \in Calls |-> <<>>]
    /\ toAgent = <<>> /\ toClient = <<>>
    /\ alive = TRUE /\ handling = {} /\ run = "none" /\ started = FALSE /\ replied = {} /\ dropped = {}
    /\ dialog = [d \in Dialogs |-> "none"] /\ pendingExtensionRequests = {}
    /\ tidy = TRUE

RpcNext ==
    \/ Receive \/ Stop \/ Stopped \/ TakeLine \/ RunEvent \/ Shutdown
    \/ \E c \in Calls : \/ Command(c) \/ Prompt(c) \/ PromptAndWait(c) \/ WaitForIdle(c)
                        \/ RequestTimeout(c) \/ WaiterTimeout(c) \/ EndCommand(c)
    \/ \E d \in Dialogs : OpenDialog(d) \/ Reply(d) \/ DialogTimeout(d)

RpcSpec == RpcInit /\ [][RpcNext]_rpcVars

-------------------------------------------------------------------------------

AgentLine == [type : {"prompt", "command"}, of : Calls] \cup [type : {"answer"}, of : Dialogs]
RunLine == [type : {"start", "end"}, of : Calls]
ClientLine == RunLine \cup [type : {"response"}, of : Calls \cup {"none"}] \cup [type : {"dialog"}, of : Dialogs]

RpcTypeOK ==
    /\ client \in {"up", "stopping", "stopped"} /\ alive \in BOOLEAN /\ tidy \in BOOLEAN
    /\ request \in [Calls -> {"none", "pending", "answered", "timed out"}]
    /\ waiter \in [Calls -> {"none", "waiting", "done", "timed out"}]
    /\ pendingRequests \subseteq Calls /\ eventListeners \in Seq(Calls)
    /\ toAgent \in Seq(AgentLine) /\ toClient \in Seq(ClientLine)
    /\ dialog \in [Dialogs -> {"none", "open", "answered", "default"}]
    /\ run \in Calls \cup {"none"} /\ started \in BOOLEAN
    /\ handling \cup replied \cup dropped \subseteq Calls

Those(lines, types) == {lines[i].of : i \in {j \in DOMAIN lines : lines[j].type \in types}}

RequestsOpen == client # "stopped" => pendingRequests = {c \in Calls : request[c] = "pending"}

AnswersComing ==
    client = "up" /\ alive =>
        pendingRequests \subseteq Those(toAgent, {"prompt", "command"}) \cup handling
                                  \cup Those(toClient, {"response"}) \cup dropped

AnswersOwn == \A c \in Calls : request[c] = "answered" => c \in replied

ListensOnce ==
    IsInjective(eventListeners) /\ ToSet(eventListeners) = {c \in Calls : waiter[c] = "waiting"}

DialogsOpen == pendingExtensionRequests = {d \in Dialogs : dialog[d] = "open"}

\* The maps hold what is open and nothing else: a request that nobody answered
\* or gave up, whose answer is on its way unless it failed or the process is
\* gone; a dialog that was neither answered nor timed out.  A caller is told only
\* of an answer to its own request, and each waiter listens once.
RpcExact == RpcTypeOK /\ RequestsOpen /\ AnswersComing /\ AnswersOwn /\ ListensOnce /\ DialogsOpen

\* promptAndWait gives the events of its own run, from the first to the last, as
\* long as prompts are sent one after the other, also if some are refused, come
\* back late or the process dies.
OwnRun ==
    \A c \in Calls : tidy /\ waiter[c] = "done" /\ request[c] # "none" =>
        Selected(collected[c], RunLine) = <<Message("start", c), Message("end", c)>>

================================================================================
