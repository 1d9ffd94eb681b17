---------------------------------- MODULE Mom ----------------------------------
(***************************************************************************)
(* packages/mom: one channel of the Slack bot.  slack.ts receives messages *)
(* and queues work, main.ts runs one piece of work at a time and answers   *)
(* stop requests, agent.ts brings the channel's log into the session,      *)
(* prompts it and posts what it says through a chain of Slack calls.       *)
(*                                                                         *)
(* A message is its timestamp: its place in the channel's history.  The    *)
(* session is what AgentSession makes of a prompt: a run that ends, except *)
(* that an overflow is compacted behind prompt()'s back and continued.     *)
(***************************************************************************)
EXTENDS Naturals, SequencesExt, FiniteSetsExt, Selection, TLC

CONSTANTS
    Texts,           \* what users write: "stop" is the command, "aside" is not meant for mom
    MaxSent,         \* bound: messages of users
    MaxEvents,       \* bound: scheduled events, see EventsWatcher
    MaxArrivals,     \* bound: messages and events together
    QueueLimit,      \* events that may wait, 5 in the code
    MaxFaults        \* bound: Slack calls that fail, and kills of the process

ASSUME MomAssumption ==
    /\ MaxSent \in Nat /\ MaxEvents \in Nat /\ MaxArrivals \in Nat /\ QueueLimit \in Nat
    /\ MaxFaults \in Nat
    /\ "event" \notin Texts

Nothing == 0
Messages == 1..MaxSent
Events == (MaxSent + 1)..(MaxSent + MaxEvents)
Items == Messages \cup Events

VARIABLES
    \* Slack
    sent,            \* the texts of the channel's messages, by timestamp
    missed,          \* messages sent while the socket was closed, to be redelivered
    shown,           \* the bot's message for each item
    \* the channel's files
    log,             \* log.jsonl: timestamps of user messages
    entries,         \* context.jsonl: the texts of user messages
    answered,        \* it holds an answer, hence is on disk
    \* the process
    bot,             \* how far start() has come
    startupTs,       \* first message to be answered, or Nothing
    queue,           \* ChannelQueue.queue: work that waits
    processing,      \* ChannelQueue.processing
    running,         \* state.running
    stopRequested,   \* state.stopRequested
    stopPosts,       \* pending posts of "Stopping..."
    stopMessage,     \* state.stopMessageTs is set
    work,            \* the work in progress: its item, stage and result
    broken,          \* updatePromise of its context is rejected
    outbox,          \* Slack calls chained by the session's events
    agent,           \* the session's agent
    continuation,    \* a compaction will call continue()
    unanswered,      \* the agent's context ends with a user message
    \* history
    events, faults,
    spoilt           \* items whose work was cut short

slackVars == <<sent, missed, shown>>
files == <<log, entries, answered>>
stops == <<stopRequested, stopPosts, stopMessage>>
queued == <<queue, processing, running, work>>
output == <<broken, outbox>>
session == <<agent, continuation, unanswered>>
momVars == <<slackVars, files, bot, startupTs, queued, stops, output, session,
             events, faults, spoilt>>

-------------------------------------------------------------------------------

Idle == [item |-> Nothing, at |-> "none", result |-> "none"]
Text(i) == IF i \in Messages THEN sent[i] ELSE "event"
At(stage) == work' = [work EXCEPT !.at = stage]
IsAt(stage) == work.at = stage

MomInit ==
    /\ sent = <<>> /\ missed = {} /\ shown = [i \in Items |-> "none"]
    /\ log = <<>> /\ entries = <<>> /\ answered = FALSE
    /\ bot = "down" /\ startupTs = Nothing
    /\ queue = <<>> /\ processing = FALSE /\ running = FALSE
    /\ stopRequested = FALSE /\ stopPosts = 0 /\ stopMessage = FALSE
    /\ work = Idle /\ broken = FALSE /\ outbox = 0
    /\ agent = "idle" /\ continuation = FALSE /\ unanswered = FALSE
    /\ events = 0 /\ faults = 0 /\ spoilt = {}

-------------------------------------------------------------------------------
(* The queue of the channel, and handleEvent up to its first Slack call. *)

BeginBuggy(item, waiting) ==
    /\ queue' = waiting /\ processing' = TRUE /\ running' = running
    /\ stopRequested' = FALSE
    /\ work' = [item |-> item, at |-> "typing", result |-> "none"]
    /\ broken' = FALSE /\ outbox' = 0

Begin(item, waiting) ==
    /\ queue' = waiting /\ processing' = TRUE /\ running' = TRUE
    /\ stopRequested' = FALSE
    /\ work' = [item |-> item, at |-> "typing", result |-> "none"]
    /\ broken' = FALSE /\ outbox' = 0

\* ChannelQueue.enqueue
Enqueue(item) ==
    \/ ~processing /\ Begin(item, queue)
    \/ /\ processing
       /\ queue' = Append(queue, item)
       /\ UNCHANGED <<processing, running, stopRequested, work, broken, outbox>>

\* The work is over: finally, and processNext.
EndWorkBuggy ==
    /\ queue' = queue /\ processing' = FALSE /\ running' = FALSE
    /\ work' = Idle
    /\ UNCHANGED <<stopRequested, broken, outbox>>

EndWork ==
    \/ queue # <<>> /\ Begin(Head(queue), Tail(queue))
    \/ /\ queue = <<>>
       /\ processing' = FALSE /\ running' = FALSE
       /\ work' = Idle
       /\ UNCHANGED <<queue, stopRequested, broken, outbox>>

CutShort == EndWork /\ spoilt' = spoilt \cup {work.item}

\* handleStop: abort what the session does, and say so.
HandleStop ==
    \/ /\ running
       /\ stopRequested' = TRUE
       /\ agent' = IF agent = "idle" THEN agent ELSE "aborted"
       /\ stopPosts' = stopPosts + 1
    \/ ~running /\ UNCHANGED <<stopRequested, agent, stopPosts>>

StopPosted ==
    /\ stopPosts > 0
    /\ stopPosts' = stopPosts - 1
    /\ stopMessage' = TRUE
    /\ UNCHANGED <<slackVars, files, bot, startupTs, queued, stopRequested, output, session,
                   events, faults, spoilt>>

\* The handlers of app_mention and message.
Receive(ts, text) ==
    /\ log' = Append(log, ts)
    /\ \/ /\ ts < startupTs \/ text = "aside" \/ (text # "stop" /\ running)
          /\ UNCHANGED <<queued, stopRequested, stopPosts, agent, broken, outbox>>
       \/ /\ ts >= startupTs /\ text = "stop"
          /\ HandleStop
          /\ UNCHANGED <<queued, broken, outbox>>
       \/ /\ ts >= startupTs /\ text \notin {"stop", "aside"} /\ ~running
          /\ Enqueue(ts)
          /\ UNCHANGED <<stopPosts, agent>>

\* A user writes.  What the socket does not deliver may be delivered again once
\* it is open, whether or not the backfill has read it.
Send(text) ==
    /\ Len(sent) < MaxSent /\ Len(sent) + events < MaxArrivals
    /\ sent' = Append(sent, text)
    /\ \/ /\ bot \in {"connected", "up"}
          /\ Receive(Len(sent'), text)
          /\ UNCHANGED missed
       \/ /\ bot \in {"down", "backfilled"}
          /\ missed' = missed \cup {Len(sent')}
          /\ UNCHANGED <<log, queued, stopRequested, stopPosts, agent, broken, outbox>>
    /\ UNCHANGED <<shown, entries, answered, bot, startupTs, stopMessage,
                   continuation, unanswered, events, faults, spoilt>>

Redeliver(ts) ==
    /\ bot \in {"connected", "up"} /\ ts \in missed
    /\ missed' = missed \ {ts}
    /\ Receive(ts, sent[ts])
    /\ UNCHANGED <<sent, shown, entries, answered, bot, startupTs, stopMessage,
                   continuation, unanswered, events, faults, spoilt>>

\* enqueueEvent: discarded when too many wait.
EnqueueEvent ==
    /\ bot # "down" /\ events < MaxEvents /\ Len(sent) + events < MaxArrivals
    /\ events' = events + 1
    /\ \/ /\ Len(queue) < QueueLimit
          /\ Enqueue(MaxSent + events')
       \/ /\ Len(queue) >= QueueLimit
          /\ UNCHANGED <<queued, stopRequested, broken, outbox>>
    /\ UNCHANGED <<slackVars, files, bot, startupTs, stopPosts, stopMessage,
                   session, faults, spoilt>>

-------------------------------------------------------------------------------
(* A run: handleEvent and AgentRunner.run from one await to the next. *)

\* A Slack call chained to the run's messages: once one was rejected, all are.
SlackCall(ok) ==
    /\ ok => ~broken
    /\ faults' = IF ok \/ broken THEN faults ELSE faults + 1
    /\ faults' <= MaxFaults

Show(state) == shown' = [shown EXCEPT ![work.item] = state]

\* setTyping and setWorking; a failure ends the work before it ran.
Announce(ok) ==
    /\ IsAt("typing") \/ IsAt("working")
    /\ SlackCall(ok)
    /\ \/ /\ ok /\ Show("working")
          /\ At(IF IsAt("typing") THEN "working" ELSE "mkdir")
          /\ UNCHANGED <<queue, processing, running, stopRequested, broken, outbox, spoilt>>
       \/ ~ok /\ CutShort /\ UNCHANGED shown
    /\ UNCHANGED <<sent, missed, files, bot, startupTs, stopPosts, stopMessage,
                   session, events>>

\* syncLogToSessionManager: the logged messages whose text is not in the session,
\* each text where it was logged first, sorted by their time.
Stamps == [ts \in DOMAIN sent |-> ts]
TextsOf(stamps) == [i \in DOMAIN stamps |-> sent[stamps[i]]]

Unknown(current) ==
    LET Places == {i \in DOMAIN log : log[i] # current /\ sent[log[i]] \notin ToSet(entries)}
    IN  {log[i] : i \in {i \in Places : \A j \in Places : sent[log[j]] = sent[log[i]] => i <= j}}

NewTextsBuggy(current) == TextsOf(Selected(Stamps, Unknown(Nothing)))

NewTexts(current) == TextsOf(Selected(Stamps, Unknown(current)))

\* The session is read again: an answer that a continuation had taken out of
\* the context is back in it.
Sync ==
    /\ IsAt("mkdir") /\ At("ready")
    /\ LET new == NewTexts(work.item)
       IN  /\ entries' = entries \o new
           /\ unanswered' = (new # <<>>)
    /\ UNCHANGED <<slackVars, log, answered, bot, startupTs, queue, processing, running, stops,
                   broken, outbox, agent, continuation, events, faults, spoilt>>

\* session.prompt() throws while a continuation is at work.
Prompt ==
    /\ IsAt("ready")
    /\ \/ /\ agent = "idle"
          /\ agent' = "running" /\ unanswered' = FALSE
          /\ entries' = Append(entries, Text(work.item))
          /\ At("prompting")
          /\ UNCHANGED <<queue, processing, running, stopRequested, broken, outbox, spoilt>>
       \/ /\ agent # "idle"
          /\ CutShort
          /\ UNCHANGED <<agent, unanswered, entries>>
    /\ UNCHANGED <<slackVars, log, answered, bot, startupTs, stopPosts, stopMessage,
                   continuation, events, faults>>

\* What the session says while the run awaits its prompt is chained to the run;
\* nobody awaits what a continuation says later.
Says == outbox' = IF IsAt("prompting") THEN outbox + 1 ELSE outbox

\* An answer that calls tools, of which there may be any number.
Tool ==
    /\ agent = "running" /\ outbox = 0
    /\ Says
    /\ answered' = TRUE
    /\ UNCHANGED <<slackVars, log, entries, bot, startupTs, queued, stops, broken,
                   session, events, faults, spoilt>>

\* prompt() returns if the run that ended is the one it waits for.
ReturnsBuggy(result) == IsAt("prompting") /\ result # "aborted"
Returns(result) == IsAt("prompting")

\* The agent's run ends; after an overflow the compaction goes on by itself.
Answer(result) ==
    /\ agent # "idle" /\ agent' = "idle"
    /\ result = "aborted" => agent = "aborted"
    /\ Says
    /\ answered' = TRUE
    /\ continuation' = (continuation \/ result = "overflow")
    /\ unanswered' = (result = "overflow")
    /\ work' = IF Returns(result) THEN [work EXCEPT !.at = "draining", !.result = result] ELSE work
    /\ UNCHANGED <<slackVars, log, entries, bot, startupTs, queue, processing, running, stops,
                   broken, events, faults, spoilt>>

\* continue() after the compaction, if it succeeded; its rejection is ignored.
Continue ==
    /\ continuation /\ continuation' = FALSE
    /\ agent' \in {agent} \cup (IF agent = "idle" /\ unanswered THEN {"running"} ELSE {})
    /\ unanswered' = (unanswered /\ agent' = agent)
    /\ UNCHANGED <<slackVars, files, bot, startupTs, queued, stops, output, events, faults,
                   spoilt>>

\* One chained call; its failure is logged.
Post(ok) ==
    /\ outbox > 0 /\ work.at \in {"prompting", "draining"}
    /\ SlackCall(ok)
    /\ outbox' = outbox - 1 /\ broken' = ~ok
    /\ UNCHANGED <<sent, missed, shown, files, bot, startupTs, queued, stops, session,
                   events, spoilt>>

\* Once the chain is empty: the final text, or an apology, or nothing at all
\* for a silent answer.  A failure here is only logged.
Conclude(ok) ==
    /\ IsAt("draining") /\ outbox = 0
    /\ SlackCall(ok)
    /\ At("finishing") /\ broken' = ~ok
    /\ IF ok /\ work.result = "silent" THEN Show("deleted") ELSE UNCHANGED shown
    /\ UNCHANGED <<sent, missed, files, bot, startupTs, queue, processing, running, stops,
                   outbox, session, events, spoilt>>

Unmark == IF shown[work.item] = "working" THEN Show("done") ELSE UNCHANGED shown

\* setWorking(false); an aborted run that was asked to stop says so.
Finish(ok) ==
    /\ IsAt("finishing")
    /\ SlackCall(ok)
    /\ \/ /\ ok /\ Unmark
          /\ \/ /\ work.result = "aborted" /\ stopRequested
                /\ At("stopped")
                /\ UNCHANGED <<queue, processing, running, stopRequested, broken, outbox>>
             \/ ~(work.result = "aborted" /\ stopRequested) /\ EndWork
          /\ UNCHANGED spoilt
       \/ ~ok /\ CutShort /\ UNCHANGED shown
    /\ UNCHANGED <<sent, missed, files, bot, startupTs, stopPosts, stopMessage,
                   session, events>>

\* The message of the stop becomes "Stopped", if it has arrived.
ReportStop(ok) ==
    /\ IsAt("stopped")
    /\ faults' = IF ok THEN faults ELSE faults + 1
    /\ faults' <= MaxFaults
    /\ stopMessage' = (stopMessage /\ ~ok)
    /\ EndWork
    /\ UNCHANGED <<sent, missed, shown, files, bot, startupTs, stopPosts, session,
                   events, spoilt>>

-------------------------------------------------------------------------------
(* start() and the end of the process. *)

\* The backfill logs what is newer than the newest line of an existing log.
Backfilled ==
    IF log = <<>> THEN log ELSE log \o Selected(Stamps, (Max(ToSet(log)) + 1)..Len(sent))

Backfill ==
    /\ bot = "down" /\ bot' = "backfilled"
    /\ log' = Backfilled
    /\ UNCHANGED <<slackVars, entries, answered, startupTs, queued, stops, output, session,
                   events, faults, spoilt>>

Connect ==
    /\ bot = "backfilled" /\ bot' = "connected"
    /\ UNCHANGED <<slackVars, files, startupTs, queued, stops, output, session, events,
                   faults, spoilt>>

Started ==
    /\ bot = "connected" /\ bot' = "up"
    /\ startupTs' = Len(sent) + 1
    /\ UNCHANGED <<slackVars, files, queued, stops, output, session, events, faults, spoilt>>

\* The process ends: it is killed, or a Slack call nobody awaits fails, as
\* the one of handleStop.  A session without an answer was never written.
Kill ==
    /\ bot # "down" /\ faults < MaxFaults
    /\ faults' = faults + 1
    /\ bot' = "down" /\ startupTs' = Nothing
    /\ entries' = IF answered THEN entries ELSE <<>>
    /\ queue' = <<>> /\ processing' = FALSE /\ running' = FALSE /\ work' = Idle
    /\ stopRequested' = FALSE /\ stopPosts' = 0 /\ stopMessage' = FALSE
    /\ broken' = FALSE /\ outbox' = 0
    /\ agent' = "idle" /\ continuation' = FALSE /\ unanswered' = FALSE
    /\ spoilt' = spoilt \cup ({work.item} \ {Nothing})
    /\ UNCHANGED <<slackVars, log, answered, events>>

-------------------------------------------------------------------------------

MomNext ==
    \/ \E text \in Texts : Send(text)
    \/ \E ts \in missed : Redeliver(ts)
    \/ EnqueueEvent
    \/ \E ok \in BOOLEAN : Announce(ok) \/ Post(ok) \/ Conclude(ok) \/ Finish(ok) \/ ReportStop(ok)
    \/ Sync \/ Prompt \/ Tool \/ Continue \/ StopPosted
    \/ \E result \in {"ok", "silent", "overflow", "aborted"} : Answer(result)
    \/ Backfill \/ Connect \/ Started \/ Kill

\* Slack answers every call or fails it, promises settle, and a run that is
\* aborted ends.  Nothing obliges the LLM to answer.
MomFairness ==
    /\ WF_momVars(\E ok \in BOOLEAN : Announce(ok)) /\ WF_momVars(Sync) /\ WF_momVars(Prompt)
    /\ WF_momVars(\E ok \in BOOLEAN : Post(ok))
    /\ WF_momVars(\E ok \in BOOLEAN : Conclude(ok))
    /\ WF_momVars(\E ok \in BOOLEAN : Finish(ok))
    /\ WF_momVars(\E ok \in BOOLEAN : ReportStop(ok))
    /\ WF_momVars(Continue)
    /\ WF_momVars(agent = "aborted" /\ \E result \in {"ok", "silent", "aborted"} : Answer(result))

MomSpec == MomInit /\ [][MomNext]_momVars /\ MomFairness

-------------------------------------------------------------------------------

MomTypeOK ==
    /\ sent \in Seq(Texts) /\ missed \subseteq DOMAIN sent
    /\ shown \in [Items -> {"none", "working", "done", "deleted"}]
    /\ log \in Seq(DOMAIN sent) /\ entries \in Seq(Texts \cup {"event"})
    /\ answered \in BOOLEAN /\ bot \in {"down", "backfilled", "connected", "up"}
    /\ startupTs \in 0..(MaxSent + 1)
    /\ queue \in Seq(Items) /\ (queue # <<>> => processing) /\ (running => processing)
    /\ stopRequested \in BOOLEAN /\ stopPosts \in 0..MaxSent /\ stopMessage \in BOOLEAN
    /\ (work = Idle) = ~processing
    /\ broken \in BOOLEAN /\ outbox \in Nat
    /\ agent \in {"idle", "running", "aborted"}
    /\ continuation \in BOOLEAN /\ unanswered \in BOOLEAN
    /\ spoilt \subseteq Items

\* Where the log and the session hold a text.
Logged(text) == {i \in DOMAIN log : sent[log[i]] = text}
Told(text) == {i \in DOMAIN entries : entries[i] = text}

\* A message is answered with all that was said before it: what the channel
\* logged before the message, in this process or an earlier one, while the bot
\* was busy or away, is in the session when its prompt has been given.  And
\* nothing is told to the model more often than it was logged: the message that
\* is prompted is not synced as well, and a restart does not sync it again.
ContextExact ==
    /\ MomTypeOK
    /\ \A i \in DOMAIN log :
           log[i] = work.item /\ work.at \in {"prompting", "draining", "finishing"}
           => \A j \in 1..i : sent[log[j]] \in ToSet(entries)
    /\ \A text \in Texts : Cardinality(Told(text)) <= Cardinality(Logged(text))

\* isRunning() answers for the queue: it was asked, and said no, for every user
\* message that was queued, so no user's message ever waits behind other work.
UserNeverWaits == ToSet(queue) \subseteq Events

\* The " ..." of a message goes away when its work is over, unless a Slack call
\* of that work failed, its prompt was refused, or the process ended.
IndicatorGone ==
    \A i \in Items : shown[i] = "working" /\ work.item # i => i \in spoilt

\* A run that was aborted comes to its end, whatever Slack does.
AbortedEnds ==
    \A i \in Items : (agent = "aborted" /\ IsAt("prompting") /\ work.item = i) ~> work.item # i

\* Work that is over, or was stopped, is seen to be over.
StopEndsRun == []IndicatorGone /\ AbortedEnds

\* As long as the LLM answers in the end, waiting events get their turn.
QueueDrains == []<>(agent = "idle") => []<>(queue = <<>>)

================================================================================
