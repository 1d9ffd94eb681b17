----------------------------- MODULE AgentSession -----------------------------
(***************************************************************************)
(* packages/coding-agent/src/core/agent-session.ts: the session between    *)
(* its callers (prompt and the user's commands), the agent, whose events   *)
(* it persists, and the session store.  After a run it retries a failed    *)
(* answer with a delay, or compacts a context that is too long; both go on *)
(* in the asynchronous handler of agent_end while callers keep calling.    *)
(*                                                                         *)
(* The agent is what Agent promises: one run at a time, which ends with an *)
(* answer.  The store is a sequence of entries per session.  A tool call   *)
(* and its result count as one answer, "tool", after which the run goes on.*)
(***************************************************************************)
EXTENDS Naturals, FiniteSets, SequencesExt, Selection

CONSTANTS
    Callers,         \* calls of prompt() that may be open at the same time
    Handlers,        \* bound: handlers of agent_end in progress
    Sessions,        \* session files, as numbers; the first is open at the start
    MaxRetries,      \* settings.retry.maxRetries
    MaxAnswers,      \* bound: later answers are all "ok"
    MaxCommands,     \* bound: commands of the user, prompts included
    Answers,         \* how the LLM may answer
    Commands         \* what the user may do besides prompting

Failures == {"retryable", "overflow", "fatal"}     \* stopReason "error"
AllAnswers == {"ok", "full", "tool"} \cup Failures
AllCommands == {"abort", "abortRetry", "abortCompaction", "bash", "compact", "switch"}

Command == "command"     \* the slot of the command being executed
Nobody == "nobody"

ASSUME SessionAssumption ==
    /\ MaxRetries \in Nat /\ MaxAnswers \in Nat /\ MaxCommands \in Nat
    /\ Sessions \subseteq Nat \ {0} /\ 1 \in Sessions
    /\ Answers \subseteq AllAnswers /\ Commands \subseteq AllCommands
    /\ Callers \cap Handlers = {} /\ {Command, Nobody} \cap (Callers \cup Handlers) = {}

Tasks == Callers \cup Handlers \cup {Command}

VARIABLES
    messages,          \* agent.state.messages
    streaming,         \* agent.state.isStreaming
    signalled,         \* the run's abort signal
    sessionFile,       \* the session the store has open
    entries,           \* the entries of each session, on its branch
    connected,         \* _unsubscribeAgent is set
    lastAssistantMessage,
    retryAttempt,
    retryPromise,      \* _retryPromise is set, and pending
    retryController,   \* the handler _retryAbortController was made by
    autoController,    \* the same for _autoCompactionAbortController
    cancelled,         \* compactions whose signal is aborted
    pendingBash,       \* _pendingBashMessages
    task,              \* where each call, handler and command is suspended
    answers, commands  \* so far

store == <<sessionFile, entries>>
agent == <<messages, streaming, signalled>>
retry == <<retryAttempt, retryPromise, retryController>>
compaction == <<autoController, cancelled>>
vars == <<agent, store, connected, lastAssistantMessage, retry, compaction, pendingBash,
          task, answers, commands>>

-------------------------------------------------------------------------------
(* Messages.  time is the number of answers before it, which orders failures  *)
(* and compactions; kept and of are a summary's first kept entry and session. *)

MessageKinds == AllAnswers \cup {"user", "bash", "aborted", "summary"}
OfKind(kinds) == [kind : kinds, time : 0..MaxAnswers, kept : Nat, of : Sessions \cup {0}]

Message(kind) == [kind |-> kind, time |-> 0, kept |-> 0, of |-> 0]
Dated(kind) == [Message(kind) EXCEPT !.time = answers]

FromAssistant(m) == m.kind \in AllAnswers \cup {"aborted"} /\ m.kind # "tool"
Failed(m) == m.kind \in Failures
EndsFailed(ms) == ms # <<>> /\ Failed(Last(ms))
EndsAnswered(ms) == ms # <<>> /\ FromAssistant(Last(ms))
WithoutAnswerBuggy(ms) == IF ms # <<>> THEN Front(ms) ELSE ms
WithoutAnswer(ms) == IF EndsAnswered(ms) THEN Front(ms) ELSE ms

None == Message("none")

\* buildSessionContext: the last summary, the entries it kept - none when its
\* first kept entry is not in this session - and what came later.
Context(es, s) ==
    LET at == SelectLastInSeq(es, LAMBDA e : e.kind = "summary")
        Plain(part) == Selected(part, OfKind(MessageKinds \ {"summary"}))
    IN  IF at = 0 THEN es
        ELSE <<es[at]>>
             \o (IF es[at].of = s THEN Plain(SubSeq(es, es[at].kept, at - 1)) ELSE <<>>)
             \o SubSeq(es, at + 1, Len(es))

Stored(ms) == [entries EXCEPT ![sessionFile] = @ \o ms]

-------------------------------------------------------------------------------
(* Tasks. *)

Free == [at |-> "free", retry |-> FALSE, kept |-> 0, of |-> 0]
At(stage) == [Free EXCEPT !.at = stage]
Is(t, stage) == task[t].at = stage

Init ==
    /\ messages = <<>> /\ streaming = FALSE /\ signalled = FALSE
    /\ sessionFile = 1
    /\ entries = [s \in Sessions |-> <<>>]
    /\ connected = TRUE
    /\ lastAssistantMessage = None
    /\ retryAttempt = 0 /\ retryPromise = FALSE /\ retryController = Nobody
    /\ autoController = Nobody /\ cancelled = {}
    /\ pendingBash = <<>>
    /\ task = [t \in Tasks |-> Free]
    /\ answers = 0 /\ commands = 0

\* Microtasks - the check before a prompt, what follows the end of a run - come
\* before the next input, answer or timer, as long as no extension awaits.
Turn ==
    /\ \A t \in Tasks : task[t].at \notin {"checking", "sending", "emitted", "returning"}
    /\ streaming \/ task[Command].at \notin {"stopping", "switching"}

\* While it holds, the interactive mode queues what is typed.
isCompacting == autoController # Nobody \/ Is(Command, "summarising")

MayCommand(name) ==
    /\ Turn /\ name \in Commands
    /\ commands < MaxCommands
    /\ commands' = commands + 1

ReleasedBuggy(tasks) == tasks

\* _resolveRetry: whoever waits for the retry goes on.
Released(tasks) == [t \in Tasks |-> IF tasks[t].at = "retrying" THEN Free ELSE tasks[t]]

\* abortRetry: ends the sleep whose controller is in the field, if one is.
AbortedRetry == Released([t \in Tasks |-> IF t = retryController THEN Free ELSE task[t]])

StopRetryBuggy ==
    /\ retryAttempt' = IF retryController = Nobody THEN retryAttempt ELSE 0
    /\ retryController' = Nobody
    /\ UNCHANGED retryPromise

StopRetry ==
    /\ retryAttempt' = IF retryController = Nobody THEN retryAttempt ELSE 0
    /\ retryPromise' = FALSE
    /\ retryController' = Nobody
-------------------------------------------------------------------------------
(* prompt(). *)

\* prompt() up to the API key it awaits; a run in progress would be steered.
StartPrompt(c) ==
    /\ Is(c, "free") /\ ~streaming
    /\ messages' = messages \o pendingBash
    /\ entries' = Stored(pendingBash)
    /\ pendingBash' = <<>>
    /\ task' = [task EXCEPT ![c] = At("checking")]
    /\ UNCHANGED <<streaming, signalled, sessionFile, connected, lastAssistantMessage,
                   retry, compaction, answers>>

Prompt(c) ==
    /\ Turn /\ commands < MaxCommands /\ ~isCompacting
    /\ commands' = commands + 1
    /\ StartPrompt(c)

\* agent.prompt() starts a run, whose first message_end persists the prompt ...
Run(c) ==
    /\ ~streaming
    /\ messages' = Append(messages, Message("user"))
    /\ entries' = IF connected THEN Stored(<<Message("user")>>) ELSE entries
    /\ streaming' = TRUE /\ signalled' = FALSE
    /\ task' = [task EXCEPT ![c] = At("running")]

\* ... and is rejected while another run is going on.
Rejected(c) ==
    /\ streaming
    /\ task' = [task EXCEPT ![c] = Free]
    /\ UNCHANGED <<agent, entries>>

\* waitForRetry(), once agent.prompt() has returned.
WaitForRetry(c) ==
    /\ Is(c, "returning")
    /\ \A h \in Handlers : ~Is(h, "emitted")
    /\ task' = [task EXCEPT ![c] = IF retryPromise THEN At("retrying") ELSE Free]
    /\ UNCHANGED <<agent, store, connected, lastAssistantMessage, retry, compaction,
                   pendingBash, answers, commands>>

-------------------------------------------------------------------------------
(* _checkCompaction and _runAutoCompaction. *)

\* The failure is older than the first compaction of the branch.
BeforeCompaction(m) ==
    LET es == entries[sessionFile]
        at == SelectInSeq(es, LAMBDA e : e.kind = "summary")
    IN  at # 0 /\ m.time < es[at].time

Overflowed(m) == m.kind = "overflow" /\ ~BeforeCompaction(m)
NeedsCompaction(m) == Overflowed(m) \/ m.kind = "full"

\* prepareCompaction: nothing to do for an empty branch or right after a
\* compaction.  The cut point is before the last entry.
Prepared == entries[sessionFile] # <<>> /\ Last(entries[sessionFile]).kind # "summary"
Preparation(stage, willRetry) ==
    [at |-> stage, retry |-> willRetry, kept |-> Len(entries[sessionFile]), of |-> sessionFile]

\* Up to the summary being awaited; an overflow first leaves the context.
StartCompaction(t, m) ==
    /\ Prepared
    /\ messages' = IF Overflowed(m) THEN WithoutAnswer(messages) ELSE messages
    /\ task' = [task EXCEPT ![t] = Preparation("compacting", Overflowed(m))]
    /\ autoController' = t

\* Entries with the summary that task t asked for.
Summary(t) == [kind |-> "summary", time |-> answers, kept |-> task[t].kept, of |-> task[t].of]

\* Where a caller or handler goes on when its compaction is over.
Proceed(t, again, ms, es) ==
    /\ messages' = ms /\ entries' = es
    /\ task' = [task EXCEPT ![t] = IF t \in Callers THEN At("sending")
                                   ELSE IF again THEN At("delayed") ELSE Free]
    /\ UNCHANGED <<streaming, signalled>>

\* The prompt that had to wait for a compaction is sent.
Send(c) ==
    /\ Is(c, "sending")
    /\ Run(c) \/ Rejected(c)
    /\ UNCHANGED <<sessionFile, connected, lastAssistantMessage, retry, compaction,
                   pendingBash, answers, commands>>

\* The summary arrives.  Its signal is read from the field, which another
\* compaction may have replaced, or cleared: then reading it throws.
CompactionDone(t) ==
    LET es == Stored(<<Summary(t)>>)
        ms == Context(es[sessionFile], sessionFile)
    IN  /\ Turn /\ Is(t, "compacting")
        /\ t \notin cancelled /\ autoController \notin cancelled \cup {Nobody}
        /\ Proceed(t, task[t].retry,
                   IF task[t].retry /\ EndsFailed(ms) THEN Front(ms) ELSE ms, es)
        /\ autoController' = Nobody /\ cancelled' = cancelled \ {t}
        /\ UNCHANGED <<sessionFile, connected, lastAssistantMessage, retry, pendingBash,
                       answers, commands>>

\* It was cancelled, the LLM failed, or the signal could not be read.
CompactionFails(t) ==
    /\ Turn /\ Is(t, "compacting")
    /\ Proceed(t, FALSE, messages, entries)
    /\ autoController' = Nobody /\ cancelled' = cancelled \ {t}
    /\ UNCHANGED <<sessionFile, connected, lastAssistantMessage, retry, pendingBash,
                   answers, commands>>

\* The check before a prompt is sent looks at the last answer in the context.
\* When there is nothing to compact, the compaction it asks for ends at once.
CheckBeforePrompt(c) ==
    LET at == SelectLastInSeq(messages, FromAssistant)
        last == IF at = 0 THEN None ELSE messages[at]
    IN  /\ Is(c, "checking") /\ \A t \in Callers : ~Is(t, "sending")
        /\ \/ /\ NeedsCompaction(last)
              /\ StartCompaction(c, last)
              /\ UNCHANGED <<streaming, signalled, entries>>
           \/ /\ NeedsCompaction(last) /\ ~Prepared
              /\ messages' = IF Overflowed(last) THEN WithoutAnswer(messages) ELSE messages
              /\ task' = [task EXCEPT ![c] = At("sending")]
              /\ autoController' = Nobody
              /\ UNCHANGED <<streaming, signalled, entries>>
           \/ /\ ~NeedsCompaction(last)
              /\ Run(c) \/ Rejected(c)
              /\ UNCHANGED autoController
        /\ UNCHANGED <<sessionFile, connected, lastAssistantMessage, retry, cancelled,
                       pendingBash, answers, commands>>

-------------------------------------------------------------------------------
(* The agent's run, and the handler of its end. *)

Kinds ==
    IF signalled THEN {"aborted"} ELSE IF answers < MaxAnswers THEN Answers ELSE {"ok"}

\* One answer: message_end persists it, unless the session is disconnected, and
\* anything but a failure ends the retry.  After "tool" the run goes on.  An LLM
\* takes longer than a timer of 0 ms.
Answer(kind) ==
    LET m == Dated(kind)
        recovers == connected /\ ~Failed(m) /\ retryAttempt > 0
        resumed == IF recovers THEN Released(task) ELSE task
        returned == [t \in Tasks |-> IF Is(t, "running") THEN At("returning") ELSE resumed[t]]
    IN  /\ Turn /\ streaming /\ kind \in Kinds
        /\ \A h \in Handlers : ~Is(h, "timer")
        /\ messages' = Append(messages, m)
        /\ entries' = IF connected THEN Stored(<<m>>) ELSE entries
        /\ lastAssistantMessage' = IF connected THEN m ELSE lastAssistantMessage
        /\ retryAttempt' = IF recovers THEN 0 ELSE retryAttempt
        /\ retryPromise' = (retryPromise /\ ~recovers)
        /\ answers' = IF answers < MaxAnswers THEN answers + 1 ELSE answers
        /\ \/ kind = "tool" /\ task' = resumed /\ UNCHANGED <<streaming, signalled>>
           \/ /\ kind # "tool"
              /\ streaming' = FALSE /\ signalled' = FALSE
              /\ \/ ~connected /\ task' = returned
                 \/ connected /\ \E h \in Handlers : /\ Is(h, "free")
                                                    /\ task' = [returned EXCEPT ![h] = At("emitted")]
        /\ UNCHANGED <<sessionFile, connected, retryController, compaction, pendingBash, commands>>

GivesUp == retryAttempt >= MaxRetries

\* _handleRetryableError: sleep before the next attempt, or give up.
Retry(h) ==
    \/ /\ ~GivesUp
       /\ retryAttempt' = retryAttempt + 1
       /\ retryPromise' = (retryPromise \/ retryAttempt = 0)
       /\ retryController' = h
       /\ messages' = WithoutAnswer(messages)
       /\ task' = [task EXCEPT ![h] = At("sleeping")]
    \/ /\ GivesUp
       /\ retryAttempt' = 0 /\ retryPromise' = FALSE
       /\ task' = [Released(task) EXCEPT ![h] = Free]
       /\ UNCHANGED <<retryController, messages>>

\* The handler of agent_end takes the last answer from the field.  The answer is
\* the last entry, so there is something to compact.
HandleEnd(h) ==
    LET m == lastAssistantMessage
    IN  /\ Is(h, "emitted")
        /\ lastAssistantMessage' = None
        /\ \/ m.kind = "retryable" /\ Retry(h) /\ UNCHANGED autoController
           \/ NeedsCompaction(m) /\ StartCompaction(h, m) /\ UNCHANGED retry
           \/ /\ m.kind # "retryable" /\ ~NeedsCompaction(m)
              /\ task' = [task EXCEPT ![h] = Free]
              /\ UNCHANGED <<messages, retry, autoController>>
        /\ UNCHANGED <<streaming, signalled, store, connected, cancelled, pendingBash,
                       answers, commands>>

\* The sleep is over: what follows is a timer that nothing cancels.
RetryDelayOver(h) ==
    /\ Turn /\ Is(h, "sleeping")
    /\ task' = [task EXCEPT ![h] = At("timer")]
    /\ retryController' = Nobody
    /\ UNCHANGED <<agent, store, connected, lastAssistantMessage, retryAttempt, retryPromise,
                   compaction, pendingBash, answers, commands>>

\* agent.continue(), 0 ms after a retry's sleep and 100 ms after a compaction;
\* its rejection is ignored.
Continue(h) ==
    /\ Turn /\ task[h].at \in {"timer", "delayed"}
    /\ task' = [task EXCEPT ![h] = Free]
    /\ \/ /\ ~streaming /\ messages # <<>> /\ ~EndsAnswered(messages)
          /\ streaming' = TRUE /\ signalled' = FALSE
       \/ /\ streaming \/ messages = <<>> \/ EndsAnswered(messages)
          /\ UNCHANGED <<streaming, signalled>>
    /\ UNCHANGED <<messages, store, connected, lastAssistantMessage, retry, compaction,
                   pendingBash, answers, commands>>
-------------------------------------------------------------------------------
(* Commands. *)

Abort ==
    /\ MayCommand("abort")
    /\ StopRetry /\ task' = AbortedRetry
    /\ signalled' = streaming
    /\ UNCHANGED <<messages, streaming, store, connected, lastAssistantMessage, compaction,
                   pendingBash, answers>>

AbortRetry ==
    /\ MayCommand("abortRetry")
    /\ StopRetry /\ task' = AbortedRetry
    /\ UNCHANGED <<agent, store, connected, lastAssistantMessage, compaction, pendingBash,
                   answers>>

\* The automatic compaction in the field, and the one of the command.
AbortCompaction ==
    /\ MayCommand("abortCompaction")
    /\ cancelled' = cancelled \cup ({autoController} \ {Nobody})
                              \cup {t \in {Command} : Is(t, "summarising")}
    /\ UNCHANGED <<agent, store, connected, lastAssistantMessage, retry, autoController,
                   pendingBash, task, answers>>

\* recordBashResult, when the shell command has ended.
RecordBash ==
    /\ MayCommand("bash")
    /\ \/ /\ streaming
          /\ pendingBash' = Append(pendingBash, Message("bash"))
          /\ UNCHANGED <<messages, entries>>
       \/ /\ ~streaming
          /\ messages' = Append(messages, Message("bash"))
          /\ entries' = Stored(<<Message("bash")>>)
          /\ UNCHANGED pendingBash
    /\ UNCHANGED <<streaming, signalled, sessionFile, connected, lastAssistantMessage, retry,
                   compaction, task, answers>>

\* compact() and switchSession() disconnect from the agent, abort, and wait
\* for the agent to be idle.
Disconnect(stage) ==
    /\ Is(Command, "free")
    /\ connected' = FALSE
    /\ StopRetry /\ signalled' = streaming
    /\ task' = [AbortedRetry EXCEPT ![Command] = stage]
    /\ UNCHANGED <<messages, streaming, store, lastAssistantMessage, compaction, pendingBash,
                   answers>>

\* A manual compaction is not asked for during an automatic one (assumption).
Compact == MayCommand("compact") /\ ~isCompacting /\ Disconnect(At("stopping"))
Switch(s) ==
    /\ MayCommand("switch") /\ s # sessionFile
    /\ Disconnect([At("switching") EXCEPT !.of = s])

BeginSummary ==
    /\ Is(Command, "stopping") /\ ~streaming
    /\ \/ /\ Prepared
          /\ task' = [task EXCEPT ![Command] = Preparation("summarising", FALSE)]
          /\ UNCHANGED connected
       \/ /\ ~Prepared
          /\ task' = [task EXCEPT ![Command] = Free]
          /\ connected' = TRUE
    /\ UNCHANGED <<agent, store, lastAssistantMessage, retry, compaction, pendingBash, answers,
                   commands>>

\* The summary arrives, or the LLM fails, or it is cancelled.
EndSummary ==
    /\ Turn /\ Is(Command, "summarising")
    /\ \/ /\ Command \notin cancelled
          /\ entries' = Stored(<<Summary(Command)>>)
          /\ messages' = Context(entries'[sessionFile], sessionFile)
       \/ UNCHANGED <<messages, entries>>
    /\ task' = [task EXCEPT ![Command] = Free]
    /\ connected' = TRUE
    /\ cancelled' = cancelled \ {Command}
    /\ UNCHANGED <<streaming, signalled, sessionFile, lastAssistantMessage, retry,
                   autoController, pendingBash, answers, commands>>

\* Neither the retries so far nor the pending bash messages are reset.
OpenSession ==
    /\ Is(Command, "switching") /\ ~streaming
    /\ sessionFile' = task[Command].of
    /\ messages' = Context(entries[sessionFile'], sessionFile')
    /\ task' = [task EXCEPT ![Command] = Free]
    /\ connected' = TRUE
    /\ UNCHANGED <<streaming, signalled, entries, lastAssistantMessage, retry, compaction,
                   pendingBash, answers, commands>>
-------------------------------------------------------------------------------
EndCompaction(t) == CompactionDone(t) \/ CompactionFails(t)

CallerStep(c) == CheckBeforePrompt(c) \/ Send(c) \/ WaitForRetry(c) \/ EndCompaction(c)
HandlerStep(h) == HandleEnd(h) \/ RetryDelayOver(h) \/ Continue(h) \/ EndCompaction(h)
CommandStep == BeginSummary \/ EndSummary \/ OpenSession
AnswerStep == \E kind \in Kinds : Answer(kind)

Next ==
    \/ \E c \in Callers : Prompt(c) \/ CallerStep(c)
    \/ \E h \in Handlers : HandlerStep(h)
    \/ CommandStep
    \/ AnswerStep
    \/ Abort \/ AbortRetry \/ AbortCompaction \/ RecordBash \/ Compact
    \/ \E s \in Sessions : Switch(s)

Spec == Init /\ [][Next]_vars
FairSpec ==
    /\ Spec
    /\ \A c \in Callers : WF_vars(CallerStep(c))
    /\ \A h \in Handlers : WF_vars(HandlerStep(h))
    /\ WF_vars(CommandStep) /\ WF_vars(AnswerStep)
-------------------------------------------------------------------------------
(* Properties. *)

MessageType == OfKind(MessageKinds)

\* Types; retryAttempt stays within the budget of settings.retry.maxRetries.
TypeOK ==
    /\ messages \in Seq(MessageType) /\ streaming \in BOOLEAN /\ signalled \in BOOLEAN
    /\ sessionFile \in Sessions /\ entries \in [Sessions -> Seq(MessageType)]
    /\ connected \in BOOLEAN
    /\ lastAssistantMessage \in MessageType \cup {None}
    /\ retryAttempt \in 0..MaxRetries /\ retryPromise \in BOOLEAN
    /\ retryController \in Handlers \cup {Nobody}
    /\ autoController \in Callers \cup Handlers \cup {Nobody}
    /\ cancelled \subseteq Tasks
    /\ pendingBash \in Seq({Message("bash")})
    /\ task \in [Tasks -> [at : {"free", "checking", "sending", "running", "returning", "retrying",
                                 "emitted", "sleeping", "timer", "delayed", "compacting",
                                 "stopping", "summarising", "switching"},
                           retry : BOOLEAN, kept : Nat, of : Sessions \cup {0}]]
    /\ answers \in 0..MaxAnswers /\ commands \in 0..MaxCommands

\* Nobody waits for a retry in vain: a pending promise belongs to an attempt,
\* which a success, an abort or the last failure ends, and a prompt() that waits
\* waits for a promise that is still in the field, where they find it.
WaitsForAttempt ==
    /\ TypeOK
    /\ retryPromise => retryAttempt > 0
    /\ \A c \in Callers : Is(c, "retrying") => retryPromise

\* The agent's context and the open session hold the same messages, failed and
\* aborted answers apart: a retry takes them out of the context only.
Lasting(ms) == Selected(ms, OfKind(MessageKinds \ (Failures \cup {"aborted"})))
InSync == Lasting(messages) = Lasting(Context(entries[sessionFile], sessionFile))

\* No step taken while the session listens to the agent lets them diverge: not
\* the removal of a failed answer, nor a bash command, a compaction that started
\* long before, or another session being opened.
SyncKept == [][connected /\ connected' /\ InSync => InSync']_vars

\* Auto-retry ends in success or final failure (rpc.md:697), as long as no answer
\* fails in another way than those that are retried.
OtherFailure ==
    \E s \in Sessions : \E i \in DOMAIN entries[s] : entries[s][i].kind \in {"fatal", "overflow"}
RetryEnds == retryPromise ~> ~retryPromise \/ OtherFailure

\* prompt() returns: "Wait for any in-progress retry to complete" does not wait
\* when no retry is in progress (agent-session.ts:2142).  The code leaves the
\* promise pending when a retried run fails with an error that is not retried.
PromptReturns == \A c \in Callers : Is(c, "running") ~> Is(c, "free")
===============================================================================
