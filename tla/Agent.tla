--------------------------------- MODULE Agent ---------------------------------
(***************************************************************************)
(* The Agent class of packages/agent/src/agent.ts: it starts agent loops,  *)
(* consumes their event streams, keeps the transcript and the run's        *)
(* bookkeeping, and gives callers prompt(), continue(), steer(),           *)
(* followUp(), abort(), reset() and waitForIdle().                         *)
(*                                                                         *)
(* Callers and listeners may call a method between any two steps; a call   *)
(* from inside the emission of an event is one right after its step.       *)
(***************************************************************************)
EXTENDS AgentLoop, FiniteSets

CONSTANTS
    MaxInputs,            \* user messages in all: prompts, steering, follow-ups
    EarlyPrompts,         \* may a run be started before waitForIdle() resolves?
    ListenersThrow        \* may a listener throw?

ASSUME AgentAssumption ==
    MaxInputs \in Nat /\ EarlyPrompts \in BOOLEAN /\ ListenersThrow \in BOOLEAN

VARIABLES
    messages,           \* _state.messages
    isStreaming,        \* _state.isStreaming
    streamMessage,      \* _state.streamMessage, None when null
    pendingToolCalls,   \* _state.pendingToolCalls
    abortController,    \* run whose controller this.abortController is; {} when undefined
    runningPrompt,      \* run whose promise this.runningPrompt is; {} when undefined
    promise,            \* what waitForIdle() callers of each run await
    consumer,           \* the for-await loop of each run
    inputs,             \* user messages so far
    owed,               \* history: messages queued and not withdrawn since
    phase               \* history: where each run's listeners are in the event grammar

agentVars == <<messages, isStreaming, streamMessage, pendingToolCalls, abortController,
               runningPrompt, promise, consumer, inputs, owed, phase>>
vars == <<loopVars, agentVars>>

ToolCalls == 1..MaxCalls

Init ==
    /\ LoopInit
    /\ messages = <<>>
    /\ isStreaming = FALSE
    /\ streamMessage = None
    /\ pendingToolCalls = {}
    /\ abortController = {}
    /\ runningPrompt = {}
    /\ promise = [r \in Runs |-> "none"]
    /\ consumer = [r \in Runs |-> "none"]
    /\ inputs = 0
    /\ owed = {}
    /\ phase = [r \in Runs |-> "idle"]

-------------------------------------------------------------------------------
(* The event grammar of packages/agent/README.md, as the phases of a run.    *)
(* "asking" is a turn before its response, "answered" one after it.          *)

NextPhase(p, event) ==
    CASE p = "idle" /\ event.type = "agent_start" -> "between"
      [] p = "between" /\ event.type = "turn_start" -> "asking"
      [] p = "between" /\ event.type = "agent_end" -> "idle"
      [] p = "asking" /\ event.type = "message_start" ->
            IF event.message.role = "assistant" THEN "response" ELSE "input"
      [] p = "input" /\ event.type = "message_end" -> "asking"
      [] p = "response" /\ event.type = "message_end" -> "answered"
      [] p = "answered" /\ event.type = "tool_execution_start" -> "tool"
      [] p = "tool" /\ event.type = "tool_execution_end" -> "toolEnd"
      [] p = "toolEnd" /\ event.type = "message_start" -> "result"
      [] p = "result" /\ event.type = "message_end" -> "answered"
      [] p = "answered" /\ event.type = "turn_end" -> "between"
      [] OTHER -> "bad"

-------------------------------------------------------------------------------
(* prompt() and continue(). *)

MaySend == inputs < MaxInputs

Sent(kind) == Message("user", inputs + 1, kind)

\* Callers call at any moment and may be rejected.  The one moment most of them
\* cannot hit is between the emission of agent_end, which isStreaming is cleared
\* for, and the finally block of _runLoop: only a listener of agent_end can.
MayCall == EarlyPrompts \/ isStreaming \/ runningPrompt = {}

FreeSlot(r) == loop[r].pc = "none" /\ consumer[r] = "none" /\ promise[r] # "pending"

\* _runLoop up to its first await: agentLoop runs synchronously up to its own.
RunLoop(r) ==
    /\ runningPrompt' = {r}
    /\ promise' = [promise EXCEPT ![r] = "pending"]
    /\ abortController' = {r}
    /\ isStreaming' = TRUE
    /\ streamMessage' = None
    /\ consumer' = [consumer EXCEPT ![r] = "consuming"]

PromptGuardBuggy == TRUE                       \* prompt() without its check

\* `if (this._state.isStreaming) throw`, in prompt() and in continue().
PromptGuard == ~isStreaming

Prompt(r) ==
    /\ PromptGuard
    /\ MayCall /\ MaySend /\ FreeSlot(r)
    /\ RunLoop(r)
    /\ StartLoop(r, messages, <<Sent("prompt")>>)
    /\ inputs' = inputs + 1
    /\ UNCHANGED <<messages, pendingToolCalls, owed, phase>>

Continue(r) ==
    /\ PromptGuard
    /\ messages # <<>> /\ Last(messages).role # "assistant"
    /\ MayCall /\ FreeSlot(r)
    /\ RunLoop(r)
    /\ StartLoop(r, messages, <<>>)
    /\ UNCHANGED <<messages, pendingToolCalls, inputs, owed, phase>>

-------------------------------------------------------------------------------
(* The body of _runLoop's for-await loop, for the event at the head. *)

\* The events that append to the transcript.
Appends(event) == event.type = "message_end"

Transcript(event) == IF Appends(event) THEN Append(messages, event.message) ELSE messages

Showing(event) ==
    CASE event.type = "message_start" -> event.message
      [] event.type \in {"message_end", "agent_end"} -> None
      [] OTHER -> streamMessage

OpenCalls(open, event) ==
    CASE event.type = "tool_execution_start" -> open \cup {event.message.n}
      [] event.type = "tool_execution_end" -> open \ {event.message.n}
      [] OTHER -> open

Take(r) ==
    /\ consumer[r] = "consuming"
    /\ stream[r] # <<>>
    /\ stream' = [stream EXCEPT ![r] = Tail(@)]

Consume(r) ==
    LET event == Head(stream[r])
    IN  /\ Take(r)
        /\ messages' = Transcript(event)
        /\ streamMessage' = Showing(event)
        /\ pendingToolCalls' = OpenCalls(pendingToolCalls, event)
        /\ isStreaming' = (isStreaming /\ event.type # "agent_end")
        /\ phase' = [phase EXCEPT ![r] = NextPhase(@, event)]
        /\ UNCHANGED <<loop, aborted, steeringQueue, followUpQueue, responses,
                       abortController, runningPrompt, promise, consumer, inputs, owed>>

ReleaseAbortedBuggy == {r \in runningPrompt : ~aborted[r]}   \* an abort returns too early
ReleaseBuggy == {}                             \* finally does not resolve the promise

\* The promise resolveRunningPrompt resolves: that of the newest run.
Release == runningPrompt

\* The finally block.
Finally ==
    /\ isStreaming' = FALSE
    /\ streamMessage' = None
    /\ pendingToolCalls' = {}
    /\ abortController' = {}
    /\ promise' = [r \in Runs |-> IF r \in Release THEN "resolved" ELSE promise[r]]
    /\ runningPrompt' = {}

\* The stream is over: the for-await loop ends.  Every message_start was followed
\* by its message_end, so no partial message remains to be handled.
Finish(r) ==
    /\ consumer[r] = "consuming"
    /\ stream[r] = <<>>
    /\ loop[r].pc = "ended"
    /\ Finally
    /\ consumer' = [consumer EXCEPT ![r] = "none"]
    /\ loop' = [loop EXCEPT ![r] = NoLoop]
    /\ UNCHANGED <<stream, aborted, steeringQueue, followUpQueue, responses,
                   messages, inputs, owed, phase>>

\* A listener throws: the catch block records the failure and emits agent_end.
\* The loop is not told: it runs on, and nobody takes its events.
ListenerThrows(r) ==
    LET event == Head(stream[r])
        signalled == \E q \in abortController : aborted[q]
    IN  /\ ListenersThrow
        /\ Take(r)
        /\ messages' = Append(Transcript(event),
                              Message("assistant", 0, IF signalled THEN "aborted" ELSE "error"))
        /\ Finally
        /\ consumer' = [consumer EXCEPT ![r] = "gone"]
        /\ phase' = [phase EXCEPT ![r] = "idle"]
        /\ UNCHANGED <<loop, aborted, steeringQueue, followUpQueue, responses, inputs, owed>>

\* A loop nobody listens to has ended and is garbage.
Collect(r) ==
    /\ consumer[r] = "gone"
    /\ loop[r].pc = "ended"
    /\ consumer' = [consumer EXCEPT ![r] = "none"]
    /\ loop' = [loop EXCEPT ![r] = NoLoop]
    /\ stream' = [stream EXCEPT ![r] = <<>>]
    /\ UNCHANGED <<aborted, steeringQueue, followUpQueue, responses, messages, isStreaming,
                   streamMessage, pendingToolCalls, abortController, runningPrompt, promise,
                   inputs, owed, phase>>

-------------------------------------------------------------------------------
(* The other methods. *)

Steer ==
    /\ MaySend
    /\ steeringQueue' = Append(steeringQueue, Sent("steer"))
    /\ owed' = owed \cup {Sent("steer")}
    /\ inputs' = inputs + 1
    /\ UNCHANGED <<loop, stream, aborted, followUpQueue, responses, messages, isStreaming,
                   streamMessage, pendingToolCalls, abortController, runningPrompt, promise,
                   consumer, phase>>

FollowUp ==
    /\ MaySend
    /\ followUpQueue' = Append(followUpQueue, Sent("followUp"))
    /\ owed' = owed \cup {Sent("followUp")}
    /\ inputs' = inputs + 1
    /\ UNCHANGED <<loop, stream, aborted, steeringQueue, responses, messages, isStreaming,
                   streamMessage, pendingToolCalls, abortController, runningPrompt, promise,
                   consumer, phase>>

ClearAllQueues ==
    /\ steeringQueue # <<>> \/ followUpQueue # <<>>
    /\ steeringQueue' = <<>>
    /\ followUpQueue' = <<>>
    /\ owed' = owed \ (ToSet(steeringQueue) \cup ToSet(followUpQueue))
    /\ UNCHANGED <<loop, stream, aborted, responses, messages, isStreaming, streamMessage,
                   pendingToolCalls, abortController, runningPrompt, promise, consumer,
                   inputs, phase>>

Abort ==
    /\ \E r \in abortController : ~aborted[r]
    /\ aborted' = [r \in Runs |-> aborted[r] \/ r \in abortController]
    /\ UNCHANGED <<loop, stream, steeringQueue, followUpQueue, responses, agentVars>>

\* reset(); its callers wait for the agent to be idle first.
Reset ==
    /\ runningPrompt = {}
    /\ messages # <<>>
    /\ messages' = <<>>
    /\ isStreaming' = FALSE
    /\ streamMessage' = None
    /\ pendingToolCalls' = {}
    /\ steeringQueue' = <<>>
    /\ followUpQueue' = <<>>
    /\ owed' = {}
    /\ UNCHANGED <<loop, stream, aborted, responses, abortController, runningPrompt, promise,
                   consumer, inputs, phase>>

\* What a retry does before continue(): replaceMessages(messages.slice(0, -1)).
DropFailure ==
    /\ runningPrompt = {}
    /\ messages # <<>> /\ Last(messages) = Message("assistant", 0, "error")
    /\ messages' = Front(messages)
    /\ UNCHANGED <<loopVars, isStreaming, streamMessage, pendingToolCalls, abortController,
                   runningPrompt, promise, consumer, inputs, owed, phase>>

-------------------------------------------------------------------------------

Calling ==
    \/ Steer \/ FollowUp \/ ClearAllQueues \/ Abort \/ Reset \/ DropFailure
    \/ \E r \in Runs : Prompt(r) \/ Continue(r)

Consuming(r) ==
    \/ Consume(r) \/ Finish(r) \/ ListenerThrows(r) \/ Collect(r)

Next ==
    \/ Calling
    \/ \E r \in Runs : Consuming(r)
    \/ \E r \in Runs : (LoopStep(r) \/ LoopIO(r)) /\ UNCHANGED agentVars

Spec == Init /\ [][Next]_vars

LoopOnly(A) == A /\ UNCHANGED agentVars

\* The thread never stops: what waits only for it is done at last.
ThreadFairness ==
    \A r \in Runs : WF_vars(Consuming(r)) /\ WF_vars(LoopOnly(LoopStep(r)))

\* The LLM and the tools may hang unless their abort signal is set: providers
\* and the built-in tools honour it.
FairSpec ==
    Spec /\ ThreadFairness /\ \A r \in Runs : WF_vars(aborted[r] /\ LoopOnly(LoopIO(r)))

\* They answer in the end, as a provider that ends its stream does.
Answering == \A r \in Runs : WF_vars(LoopOnly(LoopIO(r)))

-------------------------------------------------------------------------------
(* Properties. *)

UserMessages == [role : {"user"}, n : 1..MaxInputs, kind : {"prompt", "steer", "followUp"}]
AssistantMessages ==
    [role : {"assistant"}, n : 0..MaxCalls, kind : {"partial", "stop", "error", "aborted", "toolUse"}]
ToolResults == [role : {"toolResult"}, n : ToolCalls, kind : {"ran", "skipped"}]
MessageSet == UserMessages \cup AssistantMessages \cup ToolResults

EventSet ==
    [type : {"message_start", "message_end"}, message : MessageSet]
    \cup [type : {"tool_execution_start", "tool_execution_end"},
          message : [role : {"toolCall"}, n : ToolCalls, kind : {""}]]
    \cup [type : {"agent_start", "turn_start", "turn_end", "agent_end"}, message : {None}]

LoopSet ==
    [pc : LoopPCs, context : Seq(MessageSet), pending : Seq(UserMessages), steering : Seq(UserMessages),
     results : Seq(ToolResults), call : 0..MaxCalls, hasMore : BOOLEAN, first : BOOLEAN,
     partial : BOOLEAN, signalled : BOOLEAN]

Busy(r) == loop[r].pc \notin {"none", "ended"}

\* The state has the shape the classes declare.
TypeOK ==
    /\ loop \in [Runs -> LoopSet] /\ stream \in [Runs -> Seq(EventSet)]
    /\ aborted \in [Runs -> BOOLEAN]
    /\ steeringQueue \in Seq(UserMessages) /\ followUpQueue \in Seq(UserMessages)
    /\ messages \in Seq(MessageSet)
    /\ isStreaming \in BOOLEAN
    /\ streamMessage \in MessageSet \cup {None}
    /\ pendingToolCalls \subseteq ToolCalls
    /\ abortController \subseteq Runs /\ runningPrompt \subseteq Runs
    /\ promise \in [Runs -> {"none", "pending", "resolved"}]
    /\ consumer \in [Runs -> {"none", "consuming", "gone"}]
    /\ inputs \in 0..MaxInputs

\* What the loop of r will have told its consumer once it caught up.
Known(r) ==
    (IF loop[r].partial THEN Front(loop[r].context) ELSE loop[r].context) \o loop[r].results

\* The transcript and the context the LLM sees never diverge: whatever the
\* loop did, the transcript holds it as soon as the stream is drained.
TranscriptMirrorsContext ==
    \A r \in Runs : consumer[r] = "consuming" => messages \o Completed(stream[r]) = Known(r)

\* No response is asked for with a tool call left unanswered, interruption or
\* not; and calls are skipped only in favour of a steering message, which
\* follows the skipped results before the LLM is asked again.
RequestsAnswered ==
    \A r \in Runs : loop[r].pc = "response" =>
        LET context == loop[r].context
        IN  /\ loop[r].partial \/ Paired(context)
            /\ \A i \in DOMAIN context : context[i].kind = "skipped" =>
                   i < Len(context) /\ context[i + 1].kind \in {"skipped", "steer"}

\* Listeners see the nesting README.md draws: turns within a run, one response
\* per turn, tool executions and their results after it, on every path.
EventGrammar == \A r \in Runs : phase[r] # "bad"

\* The transcript, what the current run will add to it, and what a queue still holds.
Line(queue) ==
    LET current == {r \in Runs : consumer[r] = "consuming"}
        inRun == IF current = {} THEN <<>>
                 ELSE LET r == CHOOSE r \in current : TRUE
                      IN  Completed(stream[r]) \o (loop[r].pending \o loop[r].steering)
    IN  (messages \o inRun) \o queue

OfKind(s, kind) == {m \in ToSet(s) : m.kind = kind}

Ascending(s, kind) ==
    \A i, j \in 1..Len(s) : i < j /\ s[i].kind = kind /\ s[j].kind = kind => s[i].n < s[j].n

\* Each steering and follow-up message that was not withdrawn is in exactly one
\* place - its queue, the loop, or the transcript - and in the order it was
\* queued: polls at any moment neither lose, repeat nor reorder one.
QueuedOnceInOrder ==
    /\ OfKind(Line(steeringQueue), "steer") \cup OfKind(Line(followUpQueue), "followUp") = owed
    /\ Ascending(Line(steeringQueue), "steer")
    /\ Ascending(Line(followUpQueue), "followUp")

\* At most one loop works for the agent, and while it does the agent says so and
\* its abort controller and waitForIdle() promise are those of that loop.  No tool
\* execution is open between turns, nor a message or a tool once it is idle.
OneRunAtATime ==
    /\ TypeOK
    /\ \A r, q \in Runs : Busy(r) /\ Busy(q) => r = q
    /\ \A r \in Runs : Busy(r) => isStreaming /\ abortController = {r} /\ runningPrompt = {r}
    /\ \A r \in Runs : phase[r] \in {"between", "asking"} => pendingToolCalls = {}
    /\ runningPrompt = {} => pendingToolCalls = {} /\ streamMessage = None

\* Whoever awaits waitForIdle() is released, if the LLM and the tools answer.
WaitersReleased ==
    Answering => \A r \in Runs :
        promise[r] = "pending" ~> (promise[r] = "resolved" \/ loop[r].pc = "crashed")

\* An aborted run ends, even if the LLM and the tools would hang for ever.
AbortEndsRun ==
    \A r \in Runs :
        (aborted[r] /\ Busy(r)) ~> ((~Busy(r) /\ promise[r] # "pending") \/ loop[r].pc = "crashed")

===============================================================================
