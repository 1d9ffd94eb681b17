------------------------------- MODULE AgentLoop -------------------------------
(***************************************************************************)
(* The agent loop of packages/agent/src/agent-loop.ts: turns of one LLM    *)
(* response and its tool calls, interrupted by steering messages after a   *)
(* tool and prolonged by follow-up messages when it would stop.  A loop is *)
(* an async function; an action is the code between two of its awaits, and *)
(* it talks to the rest of the program through the events it pushes, the   *)
(* two queues its configuration polls, and its abort signal.               *)
(*                                                                         *)
(* A message is its role, a number and a kind: a user message's number is  *)
(* its identity, an assistant message's the number of tool calls it makes, *)
(* a tool result's the call it answers.  Partial updates of a message      *)
(* being streamed change only its text and are left out.                   *)
(***************************************************************************)
EXTENDS Naturals, Sequences, SequencesExt

CONSTANTS
    Runs,            \* run slots: a loop and its stream, reused when over
    MaxResponses,    \* after so many responses the LLM calls no tool
    MaxCalls,        \* tool calls of one response
    SteeringMode,    \* "one-at-a-time" or "all"
    FollowUpMode,
    HooksThrow       \* may convertToLlm, transformContext, getApiKey or streamFn throw?

Modes == {"one-at-a-time", "all"}

ASSUME LoopAssumption ==
    /\ MaxResponses \in Nat /\ MaxCalls \in Nat \ {0}
    /\ SteeringMode \in Modes /\ FollowUpMode \in Modes
    /\ HooksThrow \in BOOLEAN

VARIABLES
    loop,             \* the locals of each run's loop
    stream,           \* events each loop pushed and its consumer did not take yet
    aborted,          \* the abort signal of each run
    steeringQueue,    \* Agent.steeringQueue
    followUpQueue,    \* Agent.followUpQueue
    responses         \* responses finished so far, bounds the tool calls

loopVars == <<loop, stream, aborted, steeringQueue, followUpQueue, responses>>

-------------------------------------------------------------------------------
(* Messages and events. *)

Message(role, n, kind) == [role |-> role, n |-> n, kind |-> kind]

Event(type, message) == [type |-> type, message |-> message]

None == Message("none", 0, "")

\* message_start and message_end for each message of a sequence.
Announce(messages) ==
    [k \in 1..(2 * Len(messages)) |->
        Event(IF k % 2 = 1 THEN "message_start" ELSE "message_end", messages[(k + 1) \div 2])]

ToolStart(call) == Event("tool_execution_start", Message("toolCall", call, ""))
ToolEnd(call) == Event("tool_execution_end", Message("toolCall", call, ""))

ToolEvents(call, result) ==
    <<ToolEnd(call), Event("message_start", result), Event("message_end", result)>>

TurnEnd == Event("turn_end", None)
TurnStart == Event("turn_start", None)
AgentEnd == Event("agent_end", None)

\* A response that is still streaming, and the messages one may end as.
Partial == Message("assistant", 0, "partial")

AbortedFinals == {Message("assistant", n, "aborted") : n \in {0, 1}}

NormalFinals ==
    {Message("assistant", 0, "stop"), Message("assistant", 0, "error")}
    \cup {Message("assistant", n, "toolUse") :
              n \in IF responses < MaxResponses THEN 1..MaxCalls ELSE {}}

\* A provider given an aborted signal ends the response as aborted; one whose
\* signal is aborted later may have completed the response before.
Finals(r) ==
    IF loop[r].signalled THEN AbortedFinals
    ELSE NormalFinals \cup IF aborted[r] THEN AbortedFinals ELSE {}

NoLoop == [pc |-> "none", context |-> <<>>, pending |-> <<>>, steering |-> <<>>,
           results |-> <<>>, call |-> 0, hasMore |-> FALSE, first |-> TRUE,
           partial |-> FALSE, signalled |-> FALSE]

LoopPCs == {"none", "polled", "followUp", "request", "response", "responded",
            "tool", "toolPolled", "toolsDone", "ended", "crashed"}

LoopInit ==
    /\ loop = [r \in Runs |-> NoLoop]
    /\ stream = [r \in Runs |-> <<>>]
    /\ aborted = [r \in Runs |-> FALSE]
    /\ steeringQueue = <<>>
    /\ followUpQueue = <<>>
    /\ responses = 0

-------------------------------------------------------------------------------
(* getSteeringMessages and getFollowUpMessages: async functions without an  *)
(* await, so a poll reads and shortens the queue at the moment of the call. *)

Popped(queue, mode) ==
    IF mode = "one-at-a-time" /\ queue # <<>> THEN <<Head(queue)>> ELSE queue

RestBuggy(queue, mode) == <<>>                 \* takes one, drops the others

Rest(queue, mode) ==
    IF mode = "one-at-a-time" /\ queue # <<>> THEN Tail(queue) ELSE <<>>

PollSteering == steeringQueue' = Rest(steeringQueue, SteeringMode)

Steering == Popped(steeringQueue, SteeringMode)

Push(r, events) == stream' = [stream EXCEPT ![r] = @ \o events]

-------------------------------------------------------------------------------
(* runLoop. *)

\* agentLoop and agentLoopContinue up to the first await: announce the prompts
\* and poll the steering queue.
StartLoop(r, context, prompts) ==
    /\ loop' = [loop EXCEPT ![r] =
                   [NoLoop EXCEPT !.pc = "polled", !.context = context \o prompts,
                                  !.pending = Steering, !.hasMore = TRUE]]
    /\ stream' = [stream EXCEPT ![r] = <<Event("agent_start", None), TurnStart>> \o Announce(prompts)]
    /\ aborted' = [aborted EXCEPT ![r] = FALSE]
    /\ PollSteering
    /\ UNCHANGED <<followUpQueue, responses>>

TurnOpeningBuggy(r) == <<TurnStart>> \o Announce(loop[r].pending)   \* firstTurn never tested

\* What the head of the inner loop pushes.
TurnOpening(r) ==
    (IF loop[r].first THEN <<>> ELSE <<TurnStart>>) \o Announce(loop[r].pending)

\* The inner loop goes on: inject the pending messages and ask for a response.
BeginTurn(r) ==
    /\ loop[r].pc = "polled"
    /\ loop[r].hasMore \/ loop[r].pending # <<>>
    /\ Push(r, TurnOpening(r))
    /\ loop' = [loop EXCEPT ![r].pc = "request", ![r].first = FALSE, ![r].pending = <<>>,
                            ![r].context = @ \o loop[r].pending]
    /\ UNCHANGED <<aborted, steeringQueue, followUpQueue, responses>>

\* The inner loop is over: poll the follow-up queue.
PollFollowUp(r) ==
    /\ loop[r].pc = "polled"
    /\ ~loop[r].hasMore
    /\ loop[r].pending = <<>>
    /\ followUpQueue' = Rest(followUpQueue, FollowUpMode)
    /\ loop' = [loop EXCEPT ![r].pc = "followUp", ![r].pending = Popped(followUpQueue, FollowUpMode)]
    /\ UNCHANGED <<stream, aborted, steeringQueue, responses>>

AfterFollowUp(r) ==
    /\ loop[r].pc = "followUp"
    /\ \/ /\ loop[r].pending # <<>>
          /\ loop' = [loop EXCEPT ![r].pc = "polled", ![r].hasMore = TRUE]
          /\ UNCHANGED stream
       \/ /\ loop[r].pending = <<>>
          /\ loop' = [loop EXCEPT ![r].pc = "ended"]
          /\ Push(r, <<AgentEnd>>)
    /\ UNCHANGED <<aborted, steeringQueue, followUpQueue, responses>>

-------------------------------------------------------------------------------
(* streamAssistantResponse. *)

\* The hooks and streamFn ran: the LLM has the context.
Request(r) ==
    /\ loop[r].pc = "request"
    /\ loop' = [loop EXCEPT ![r].pc = "response", ![r].signalled = aborted[r]]
    /\ UNCHANGED <<stream, aborted, steeringQueue, followUpQueue, responses>>

\* One of them threw: the rejection leaves the async function agentLoop started
\* and nobody catches it, so nothing is pushed any more.
RequestThrows(r) ==
    /\ HooksThrow
    /\ loop[r].pc = "request"
    /\ loop' = [loop EXCEPT ![r].pc = "crashed"]
    /\ UNCHANGED <<stream, aborted, steeringQueue, followUpQueue, responses>>

\* The "start" event.
ResponseStart(r) ==
    /\ loop[r].pc = "response"
    /\ ~loop[r].partial
    /\ loop' = [loop EXCEPT ![r].partial = TRUE, ![r].context = Append(@, Partial)]
    /\ Push(r, <<Event("message_start", Partial)>>)
    /\ UNCHANGED <<aborted, steeringQueue, followUpQueue, responses>>

FinalContextBuggy(r, final) == Append(loop[r].context, final)       \* the partial message stays

FinalContext(r, final) ==
    Append(IF loop[r].partial THEN Front(loop[r].context) ELSE loop[r].context, final)

\* The "done" or "error" event, which a response may also begin with.
ResponseEnd(r) ==
    /\ loop[r].pc = "response"
    /\ \E final \in Finals(r) :
           /\ loop' = [loop EXCEPT ![r].pc = "responded", ![r].partial = FALSE,
                                   ![r].context = FinalContext(r, final)]
           /\ Push(r, (IF loop[r].partial THEN <<>> ELSE <<Event("message_start", final)>>)
                      \o <<Event("message_end", final)>>)
    /\ responses' = IF responses < MaxResponses THEN responses + 1 ELSE responses
    /\ UNCHANGED <<aborted, steeringQueue, followUpQueue>>

StopsRun(message) == message.kind \in {"error", "aborted"}

\* Back in runLoop with the final message.
AfterResponse(r) ==
    LET message == Last(loop[r].context)
    IN  /\ loop[r].pc = "responded"
        /\ \/ /\ StopsRun(message)
              /\ loop' = [loop EXCEPT ![r].pc = "ended"]
              /\ Push(r, <<TurnEnd, AgentEnd>>)
              /\ UNCHANGED steeringQueue
           \/ /\ ~StopsRun(message) /\ message.n > 0
              /\ loop' = [loop EXCEPT ![r].pc = "tool", ![r].call = 1]
              /\ Push(r, <<ToolStart(1)>>)
              /\ UNCHANGED steeringQueue
           \/ /\ ~StopsRun(message) /\ message.n = 0
              /\ loop' = [loop EXCEPT ![r].pc = "polled", ![r].hasMore = FALSE, ![r].pending = Steering]
              /\ Push(r, <<TurnEnd>>)
              /\ PollSteering
        /\ UNCHANGED <<aborted, followUpQueue, responses>>

-------------------------------------------------------------------------------
(* executeToolCalls and skipToolCall. *)

Calls(r) == Last(loop[r].context).n

\* The tool returned or threw (an unknown tool and invalid arguments throw too);
\* both give a result, and its isError flag is left out.
ToolDone(r) ==
    LET result == Message("toolResult", loop[r].call, "ran")
    IN  /\ loop[r].pc = "tool"
        /\ loop' = [loop EXCEPT ![r].pc = "toolPolled", ![r].steering = Steering,
                                ![r].results = Append(@, result)]
        /\ Push(r, ToolEvents(loop[r].call, result))
        /\ PollSteering
        /\ UNCHANGED <<aborted, followUpQueue, responses>>

SkippedCallsBuggy(r) == <<>>                                        \* just leaves the for loop

\* The calls after the interrupted one.
SkippedCalls(r) == [i \in 1..(Calls(r) - loop[r].call) |-> loop[r].call + i]

Skipped(call) == Message("toolResult", call, "skipped")

SkipEvents(call) ==
    <<ToolStart(call), ToolEnd(call),
      Event("message_start", Skipped(call)), Event("message_end", Skipped(call))>>

\* Four events for each skipped call.
AllSkipped(calls) ==
    [k \in 1..(4 * Len(calls)) |-> SkipEvents(calls[(k + 3) \div 4])[((k + 3) % 4) + 1]]

AfterTool(r) ==
    /\ loop[r].pc = "toolPolled"
    /\ \/ /\ loop[r].steering # <<>>
          /\ Push(r, AllSkipped(SkippedCalls(r)))
          /\ loop' = [loop EXCEPT ![r].pc = "toolsDone",
                         ![r].results = @ \o [i \in DOMAIN SkippedCalls(r) |-> Skipped(SkippedCalls(r)[i])]]
       \/ /\ loop[r].steering = <<>> /\ loop[r].call < Calls(r)
          /\ loop' = [loop EXCEPT ![r].pc = "tool", ![r].call = @ + 1]
          /\ Push(r, <<ToolStart(loop[r].call + 1)>>)
       \/ /\ loop[r].steering = <<>> /\ loop[r].call = Calls(r)
          /\ loop' = [loop EXCEPT ![r].pc = "toolsDone"]
          /\ UNCHANGED stream
    /\ UNCHANGED <<aborted, steeringQueue, followUpQueue, responses>>

\* Steering messages taken after a tool replace the poll after the turn.
NextPending(r) == IF loop[r].steering # <<>> THEN loop[r].steering ELSE Steering

EndToolTurn(r) ==
    /\ loop[r].pc = "toolsDone"
    /\ loop' = [loop EXCEPT ![r].pc = "polled", ![r].hasMore = TRUE, ![r].call = 0,
                            ![r].context = @ \o loop[r].results, ![r].results = <<>>,
                            ![r].pending = NextPending(r), ![r].steering = <<>>]
    /\ Push(r, <<TurnEnd>>)
    /\ IF loop[r].steering # <<>> THEN UNCHANGED steeringQueue ELSE PollSteering
    /\ UNCHANGED <<aborted, followUpQueue, responses>>

-------------------------------------------------------------------------------

\* Steps that only wait for the JavaScript thread.
LoopStep(r) ==
    \/ BeginTurn(r) \/ PollFollowUp(r) \/ AfterFollowUp(r)
    \/ AfterResponse(r) \/ AfterTool(r) \/ EndToolTurn(r)

\* Steps that wait for a hook, the LLM or a tool.
LoopIO(r) == Request(r) \/ RequestThrows(r) \/ ResponseStart(r) \/ ResponseEnd(r) \/ ToolDone(r)

\* Every assistant message that called tools is followed by one result for each
\* of its calls, in order.  (A response that failed is not: the providers leave
\* it out of what they send.)
Paired(context) ==
    \A i \in DOMAIN context : context[i].kind = "toolUse" =>
        \A call \in 1..context[i].n :
            /\ i + call <= Len(context)
            /\ context[i + call].role = "toolResult" /\ context[i + call].n = call

\* The messages announced as complete in a sequence of events.
Completed(events) ==
    LET upto[i \in 0..Len(events)] ==
            IF i = 0 THEN <<>>
            ELSE IF events[i].type = "message_end" THEN Append(upto[i - 1], events[i].message)
            ELSE upto[i - 1]
    IN  upto[Len(events)]
===============================================================================
