---------------------------- MODULE InteractiveMode ----------------------------
(***************************************************************************)
(* packages/coding-agent/src/modes/interactive/interactive-mode.ts on top  *)
(* of AgentSession: what becomes of a text that is typed while the session *)
(* works, and what Escape does at each moment.  The session's events swap  *)
(* the handler of Escape; texts wait in the agent's queues, in the queue   *)
(* kept for the end of a compaction, or go back to the editor.             *)
(*                                                                         *)
(* A text is its number; steering and follow-up messages are one queue.    *)
(***************************************************************************)
EXTENDS AgentSession

CONSTANT Main        \* the loop that prompts with the editor's input

ASSUME InteractiveAssumption == Main \in Callers /\ Callers # {Main}

VARIABLES
    escape,          \* its handler, and those put aside by a retry, an automatic
                     \* and a manual compaction
    loading,         \* loadingAnimation is shown
    typed,           \* texts so far
    compactionQueuedMessages,
    flushing,        \* what flushCompactionQueue has taken out of it
    batch,           \* what each prompt() was called with; a flushed one with its batch
    queued,          \* the agent's queues
    shown,           \* _steeringMessages and _followUpMessages
    editor,          \* texts restored to the editor
    delivered,       \* texts in the order the agent got them
    dropped,         \* history: texts that went nowhere
    astray,          \* history: a flushed prompt was rejected, or a text polled unheard
    overlapped       \* history: two works went on at once, or one started in the other

keys == <<escape, loading, overlapped>>
texts == <<typed, compactionQueuedMessages, flushing, batch, queued, shown, editor, delivered,
           dropped, astray>>
modeVars == <<keys, texts>>

NoFlush == [texts |-> <<>>, again |-> FALSE]

ModeInit ==
    /\ Init
    /\ escape = [now |-> "main", retry |-> "none", auto |-> "none", manual |-> "none"]
    /\ loading = FALSE /\ overlapped = FALSE
    /\ typed = 0 /\ compactionQueuedMessages = <<>> /\ flushing = NoFlush
    /\ batch = [c \in Callers |-> <<>>]
    /\ queued = <<>> /\ shown = <<>> /\ editor = <<>>
    /\ delivered = <<>> /\ dropped = {} /\ astray = FALSE

-------------------------------------------------------------------------------
(* What the mode hears of a step of the session. *)

Enters(t, stage) == task[t].at # stage /\ task'[t].at = stage
Leaves(t, stage) == task[t].at = stage /\ task'[t].at # stage

AgentStarts == connected /\ ~streaming /\ streaming'
AgentEnds == connected /\ streaming /\ ~streaming'
RetryStarts == \E h \in Handlers : Enters(h, "sleeping")
RetryOver == retryAttempt > 0 /\ retryAttempt' = 0
CompactionStarts == \E t \in Tasks : Enters(t, "compacting")
CompactionOver ==
    \E t \in Tasks : Leaves(t, "compacting") \/ (Is(t, "checking") /\ task'[t].at = "sending")
WillRetry == \E t \in Tasks : Leaves(t, "compacting") /\ task[t].retry /\ entries' # entries
ExecuteCompaction == Enters(Command, "stopping")
Executed == \/ Leaves(Command, "summarising")
            \/ Is(Command, "stopping") /\ task'[Command].at = "free"

Replace(e, place, handler) == [e EXCEPT ![place] = e.now, !.now = handler]
PutBack(e, place) ==
    IF e[place] = "none" THEN e ELSE [e EXCEPT !.now = e[place], ![place] = "none"]

\* What goes on, as far as the mode knows.
Busy(stages) == \E t \in Tasks : task[t].at \in stages
Works == (IF streaming /\ loading THEN {"run"} ELSE {})
           \cup (IF Busy({"sleeping"}) THEN {"retry"} ELSE {})
           \cup (IF Busy({"compacting", "summarising"}) THEN {"compaction"} ELSE {})

\* The end of the retry comes after the run's start.
HearStartBuggy(e) == e
HearStart(e) == IF AgentStarts THEN PutBack(e, "retry") ELSE e

\* The handlers of Escape, in the order of the events that a step may contain.
Hear ==
    LET e1 == IF ExecuteCompaction THEN Replace(escape, "manual", "abortCompaction") ELSE escape
        e2 == IF RetryOver THEN PutBack(e1, "retry") ELSE e1
        e3 == IF CompactionStarts THEN Replace(e2, "auto", "abortCompaction") ELSE e2
        e4 == IF CompactionOver THEN PutBack(e3, "auto") ELSE e3
        e5 == HearStart(e4)
        e6 == IF RetryStarts THEN Replace(e5, "retry", "abortRetry") ELSE e5
    IN  /\ escape' = IF Executed THEN PutBack(e6, "manual") ELSE e6
        /\ loading' = \/ AgentStarts
                      \/ /\ loading /\ ~AgentEnds
                         /\ ~ExecuteCompaction /\ ~Enters(Command, "switching")
        /\ overlapped' = \/ overlapped \/ Cardinality(Works') > 1
                         \/ \E place \in {"retry", "auto", "manual"} :
                                escape'[place] \notin {"none", "main"}

-------------------------------------------------------------------------------
(* Texts. *)

\* flushCompactionQueue gives up: the whole batch waits for the next compaction.
\* What it queues after the queues were cleared stays there as well.
RestoreQueue(all, later) ==
    /\ \E n \in later : queued' = SubSeq(all, Len(all) - n + 1, Len(all))
    /\ shown' = queued'
    /\ compactionQueuedMessages' = all
    /\ astray' = TRUE
    /\ dropped' = dropped \cup (ToSet(queued \o compactionQueuedMessages) \ ToSet(all))

\* The compaction's end flushes its queue before anything else happens.
TakeQueue ==
    /\ flushing' = IF compactionQueuedMessages = <<>> THEN NoFlush
                   ELSE [texts |-> compactionQueuedMessages, again |-> WillRetry]
    /\ compactionQueuedMessages' = <<>>

Starts == {c \in Callers : Enters(c, "running")}
Rejects == {c \in Callers : task[c].at \in {"checking", "sending"} /\ task'[c].at = "free"}

\* What a step of the session does to the texts.
Follow ==
    /\ UNCHANGED <<typed, batch, editor>>
    /\ delivered' = IF Starts = {} THEN delivered
                    ELSE Append(delivered, Head(batch[CHOOSE c \in Starts : TRUE]))
    /\ \/ \E c \in Rejects \ {Main} : RestoreQueue(batch[c], {0}) /\ UNCHANGED flushing
       \/ /\ Rejects \ {Main} = {}
          /\ UNCHANGED <<queued, astray>>
          /\ shown' = IF Leaves(Command, "switching") THEN <<>> ELSE shown
          /\ IF CompactionOver \/ Executed THEN TakeQueue
             ELSE IF Enters(Command, "switching")
                  THEN compactionQueuedMessages' = <<>> /\ UNCHANGED flushing
                  ELSE UNCHANGED <<compactionQueuedMessages, flushing>>
          /\ dropped' = dropped
                 \cup (IF Main \in Rejects THEN ToSet(batch[Main]) ELSE {})
                 \cup (IF Enters(Command, "switching") THEN ToSet(compactionQueuedMessages) ELSE {})

\* flushCompactionQueue, once it has taken the queue: before a retry all of it is
\* steered; otherwise its first text is prompted and the rest steered.
Flush ==
    /\ flushing.texts # <<>>
    /\ flushing' = NoFlush
    /\ \/ /\ flushing.again
          /\ queued' = queued \o flushing.texts /\ shown' = shown \o flushing.texts
          /\ UNCHANGED <<vars, batch, compactionQueuedMessages, dropped, astray>>
       \/ /\ ~flushing.again /\ streaming
          /\ RestoreQueue(flushing.texts, {0} \cup 0..(Len(flushing.texts) - 2))
          /\ UNCHANGED <<vars, batch>>
       \/ /\ ~flushing.again
          /\ \E c \in Callers \ {Main} :
                 /\ StartPrompt(c) /\ c = CHOOSE d \in Callers \ {Main} : Is(d, "free")
                 /\ batch' = [batch EXCEPT ![c] = flushing.texts]
          /\ UNCHANGED commands
          /\ queued' = queued \o Tail(flushing.texts) /\ shown' = shown \o Tail(flushing.texts)
          /\ UNCHANGED <<compactionQueuedMessages, dropped, astray>>
    /\ UNCHANGED <<keys, typed, editor, delivered>>

\* The agent takes a message out of its queues, whose start the session sees.
Poll ==
    /\ flushing = NoFlush /\ streaming /\ ~signalled /\ queued # <<>>
    /\ messages' = Append(messages, Message("user"))
    /\ entries' = IF connected THEN Stored(<<Message("user")>>) ELSE entries
    /\ queued' = Tail(queued)
    /\ shown' = IF connected THEN RemoveFirst(shown, Head(queued)) ELSE shown
    /\ delivered' = Append(delivered, Head(queued))
    /\ astray' = (astray \/ ~connected)
    /\ UNCHANGED <<streaming, signalled, sessionFile, connected, lastAssistantMessage, retry,
                   compaction, pendingBash, task, answers, commands, keys, typed,
                   compactionQueuedMessages, flushing, batch, editor, dropped>>

-------------------------------------------------------------------------------
(* Keys. *)

Pressed ==
    /\ Turn /\ flushing = NoFlush
    /\ commands < MaxCommands /\ commands' = commands + 1

sessionVars == <<agent, store, connected, lastAssistantMessage, retry, compaction, pendingBash,
                 task, answers>>

\* onSubmit: the text is queued for the end of a compaction or for the run in
\* progress, or given to whoever waits for input, if anyone does.
Enter ==
    LET text == typed + 1
    IN  /\ Pressed /\ typed' = text
        /\ \/ /\ isCompacting
              /\ compactionQueuedMessages' = Append(compactionQueuedMessages, text)
              /\ UNCHANGED <<sessionVars, batch, queued, shown, dropped>>
           \/ /\ ~isCompacting /\ streaming
              /\ queued' = Append(queued, text) /\ shown' = Append(shown, text)
              /\ UNCHANGED <<sessionVars, batch, compactionQueuedMessages, dropped>>
           \/ /\ Prompt(Main)
              /\ batch' = [batch EXCEPT ![Main] = <<text>>]
              /\ UNCHANGED <<compactionQueuedMessages, queued, shown, dropped>>
           \/ /\ ~isCompacting /\ ~streaming /\ ~Is(Main, "free")
              /\ dropped' = dropped \cup {text}
              /\ UNCHANGED <<sessionVars, batch, compactionQueuedMessages, queued, shown>>
        /\ UNCHANGED <<keys, flushing, editor, delivered, astray>>

\* clearAllQueues: the session's queued texts and those kept here.
AllQueuedBuggy == shown
AllQueued == shown \o compactionQueuedMessages

\* restoreQueuedMessagesToEditor: what is shown as queued goes back.
Restore ==
    /\ editor' = editor \o AllQueued
    /\ queued' = <<>> /\ shown' = <<>> /\ compactionQueuedMessages' = <<>>
    /\ dropped' = dropped \cup (ToSet(queued) \ ToSet(shown))
    /\ UNCHANGED <<keys, typed, flushing, batch, delivered, astray>>

\* Alt+Up.
Dequeue ==
    /\ Pressed /\ AllQueued # <<>>
    /\ Restore /\ UNCHANGED sessionVars

\* Escape aborts the run, the retry or the compaction.
Interrupt ==
    /\ escape.now = "main" /\ loading
    /\ Pressed /\ Restore
    /\ signalled' = streaming
    /\ UNCHANGED <<messages, streaming, store, connected, lastAssistantMessage, retry, compaction,
                   pendingBash, task, answers>>
Escape ==
    \/ Interrupt
    \/ /\ flushing = NoFlush
       /\ \/ escape.now = "abortRetry" /\ AbortRetry
          \/ escape.now = "abortCompaction" /\ AbortCompaction
       /\ Hear /\ Follow

\* /compact wants two messages.
Compactable == Len(SelectSeq(entries[sessionFile], LAMBDA e : e.kind # "summary")) > 1

-------------------------------------------------------------------------------
\* A step of the session, as the mode sees it.
Seen(step) == flushing = NoFlush /\ step /\ Hear /\ Follow

\* A run goes on as long as messages are queued for it.
AnswerSeen == \E kind \in Kinds : (kind \in {"ok", "full"} => queued = <<>>) /\ Seen(Answer(kind))
SeenCaller(c) == Seen(CallerStep(c))
SeenHandler(h) == Seen(HandlerStep(h))
SeenCommand == Seen(CommandStep)

Proceeds ==
    \/ \E c \in Callers : SeenCaller(c)
    \/ \E h \in Handlers : SeenHandler(h)
    \/ SeenCommand
    \/ AnswerSeen \/ Poll \/ Flush

ModeNext ==
    \/ Proceeds
    \/ Enter \/ Dequeue \/ Escape
    \/ Seen(RecordBash) \/ (Compactable /\ Seen(Compact))
    \/ \E s \in Sessions : Seen(Switch(s))

ModeSpec == ModeInit /\ [][ModeNext]_<<vars, modeVars>>

\* What is under way goes on, whatever the user does.
FairModeSpec == ModeSpec /\ WF_<<vars, modeVars>>(Proceeds)

-------------------------------------------------------------------------------
(* Properties. *)

\* Escape aborts what goes on: the run, the delay of a retry or the compaction.
\* (Once two of them have overlapped, each puts back the handler it found, and
\* Escape may stay with one that aborts nothing.)
EscapeTrue ==
    \/ overlapped
    \/ /\ "run" \in Works => escape.now = "main"
       /\ "retry" \in Works => escape.now = "abortRetry"
       /\ "compaction" \in Works => escape.now = "abortCompaction"

\* Where a text is: in the context, waiting, back in the editor, or about to be sent.
Pending(c) == task[c].at \in {"checking", "sending", "compacting"}
Lines == [context |-> delivered, agent |-> queued, mode |-> compactionQueuedMessages,
          flushed |-> flushing.texts, editor |-> editor]
Spots(text) ==
    (UNION {{name} \X {i \in DOMAIN Lines[name] : Lines[name][i] = text} : name \in DOMAIN Lines})
      \cup {"prompt"} \X {c \in Callers : Pending(c) /\ Head(batch[c]) = text}

InOnePlace(text) == Cardinality(Spots(text)) = IF text \in dropped THEN 0 ELSE 1

\* Nothing that is typed is lost or sent twice, whatever it waits for, but for
\* what the code gives up (dropped); and what was typed during a compaction does
\* not stay behind: "queued and delivered after compaction completes"
\* (CHANGELOG.md:979).
TextsKept ==
    /\ [](astray \/ \A text \in 1..typed : InOnePlace(text))
    /\ compactionQueuedMessages \o flushing.texts # <<>>
           ~> compactionQueuedMessages \o flushing.texts = <<>> \/ astray
===============================================================================
