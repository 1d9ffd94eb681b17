------------------------------- MODULE Compaction -------------------------------
(***************************************************************************)
(* packages/coding-agent/src/core/compaction/compaction.ts, with what the  *)
(* session writes around it and what providers/transform-messages.ts makes *)
(* of it: a branch of a session grows message by message, a compaction     *)
(* replaces its older part by a summary, and every request is built from   *)
(* the summary and the rest.                                               *)
(*                                                                         *)
(* An entry is its kind, its estimated tokens, the tool calls it makes or  *)
(* answers, how an answer stopped, and for a compaction the first entry it *)
(* keeps and the entries its summary was made from.                        *)
(***************************************************************************)
EXTENDS Naturals, FiniteSetsExt, SequencesExt

CONSTANTS
    KeepRecentTokens,
    ResultTokens,    \* sizes of tool results; other messages count one
    MaxCalls,        \* bound: tool calls in an answer
    MaxLength,       \* bound: entries of a branch
    MaxCompactions   \* bound: compactions in a branch

ASSUME CompactionAssumption ==
    /\ KeepRecentTokens \in Nat \ {0} /\ ResultTokens \subseteq Nat
    /\ MaxCalls \in Nat /\ MaxLength \in Nat /\ MaxCompactions \in Nat

VARIABLES
    path,            \* the entries from the root to the leaf
    owed,            \* tool calls still to be executed in the present turn
    running          \* a run goes on

compactionVars == <<path, owed, running>>

NewEntry(type, tokens) ==
    [type |-> type, tokens |-> tokens, calls |-> {}, stop |-> "none", keeps |-> 0, covers |-> {}]

Asides == {"bash", "hidden_bash", "custom_message"}
\* Entries whose type is "message"; the other two that reach the LLM are not.
Messages == {"user", "assistant", "toolResult", "bash", "hidden_bash"}
InContext == Messages \cup {"custom_message", "branch_summary"}

\* Turns start there; a cut may be made there or at an answer.
TurnStarts == InContext \ {"assistant", "toolResult"}
CutPointsBuggy == InContext
CutPoints == InContext \ {"toolResult"}

Of(types, positions) == {i \in positions : path[i].type \in types}

-------------------------------------------------------------------------------
(* prepareCompaction *)

LastCompaction(end) == Max(Of({"compaction"}, 1..end) \cup {0})

Tokens(positions) == Cardinality(UNION {{i} \X (1..path[i].tokens) : i \in Of(Messages, positions)})

\* Messages from which on the budget is used up.
Reached(start) == {i \in Of(Messages, start..Len(path)) : Tokens(i..Len(path)) >= KeepRecentTokens}

\* findCutPoint: the first cut point from there on, or the first of all, with
\* the entries before it that are no messages.
CutPoint(start) ==
    LET points == Of(CutPoints, start..Len(path))
        near == {c \in points : Reached(start) # {} /\ c >= Max(Reached(start))}
        cut == Min(IF near # {} THEN near ELSE points)
    IN  IF points = {} THEN start
        ELSE Min({i \in start..cut : Of(Messages, i..(cut - 1)) = {}})

\* findTurnStartIndex, or 0: the turn that the cut splits.
TurnStart(start, cut) ==
    IF path[cut].type = "user" THEN 0 ELSE Max(Of(TurnStarts, start..cut) \cup {0})

HistoryEndBuggy(turn, cut) == IF turn # 0 THEN turn - 1 ELSE cut
HistoryEnd(turn, cut) == IF turn # 0 THEN turn ELSE cut

\* What the new summary is made from.  The previous one is only handed to the
\* summary of the history, which is left out where a split turn is all there is.
Covers(start, cut) ==
    LET turn == TurnStart(start, cut)
        history == Of(InContext, start..(HistoryEnd(turn, cut) - 1))
        prefix == IF turn = 0 THEN {} ELSE Of(InContext, turn..(cut - 1))
        previous == IF start = 1 THEN {} ELSE path[start - 1].covers
    IN  IF history = {} /\ prefix # {} THEN prefix ELSE previous \cup history \cup prefix

Compactions == Cardinality(Of({"compaction"}, DOMAIN path))

CanCompact == path # <<>> /\ Last(path).type # "compaction"

Compacted ==
    LET start == LastCompaction(Len(path)) + 1
        cut == CutPoint(start)
    IN  Append(path, [NewEntry("compaction", 0) EXCEPT !.keeps = cut, !.covers = Covers(start, cut)])

-------------------------------------------------------------------------------
(* What the LLM is sent. *)

HasSummary == LastCompaction(Len(path)) # 0
FirstKept == IF HasSummary THEN path[LastCompaction(Len(path))].keeps ELSE 1
Shown == Of(InContext, FirstKept..Len(path))

\* buildSessionContext: positions, 0 for the summary.
ShownContext ==
    (IF HasSummary THEN <<0>> ELSE <<>>) \o SelectSeq([i \in DOMAIN path |-> i], LAMBDA i : i \in Shown)

\* convertToLlm
Role(i) == IF i # 0 /\ path[i].type \in {"assistant", "toolResult"} THEN path[i].type ELSE "user"
Converted == {i \in Shown : path[i].type # "hidden_bash"}

Sent(role, calls) == [role |-> role, calls |-> calls]

\* Calls that were never answered get a result before what comes next.
Closed(acc) ==
    acc.sent \o SetToSeq({Sent("toolResult", {call}) : call \in acc.pending \ acc.found})

\* transformMessages: answers that failed are left out.
Transform(acc, i) ==
    CASE Role(i) = "user" ->
            [sent |-> Append(Closed(acc), Sent("user", {})), pending |-> {}, found |-> {}]
      [] Role(i) = "toolResult" ->
            [acc EXCEPT !.sent = Append(@, Sent("toolResult", path[i].calls)),
                        !.found = @ \cup path[i].calls]
      [] Role(i) = "assistant" /\ path[i].stop = "stop" ->
            [sent |-> Append(Closed(acc), Sent("assistant", path[i].calls)),
             pending |-> path[i].calls, found |-> {}]
      [] OTHER -> [sent |-> Closed(acc), pending |-> {}, found |-> {}]

Request ==
    LET first == IF HasSummary THEN <<Sent("user", {})>> ELSE <<>>
        upTo[i \in 0..Len(path)] ==
            IF i = 0 THEN [sent |-> first, pending |-> {}, found |-> {}]
            ELSE IF i \in Converted THEN Transform(upTo[i - 1], i) ELSE upTo[i - 1]
    IN  upTo[Len(path)].sent

-------------------------------------------------------------------------------

CompactionInit == path = <<>> /\ owed = {} /\ running = FALSE

Add(entry) == Len(path) < MaxLength /\ path' = Append(path, entry)

\* A prompt, or a message that steers the run or follows it up.
User == owed = {} /\ Add(NewEntry("user", 1)) /\ running' = TRUE /\ UNCHANGED owed

Owed(stop, calls) == IF stop = "stop" THEN calls ELSE {}

\* An answer; the calls of one that failed or was aborted are not executed.
Answer(n, stop) ==
    LET calls == {<<Len(path) + 1, k>> : k \in 1..n}
    IN  /\ running /\ owed = {}
        /\ Add([NewEntry("assistant", IF stop = "stop" THEN 1 ELSE 0) EXCEPT !.calls = calls, !.stop = stop])
        /\ owed' = Owed(stop, calls)
        /\ running' = (stop = "stop" /\ n > 0)

\* A tool's result, or the note that it was skipped.
Result(tokens) ==
    \E call \in owed :
        /\ \A other \in owed : call[2] <= other[2]
        /\ Add([NewEntry("toolResult", tokens) EXCEPT !.calls = {call}])
        /\ owed' = owed \ {call} /\ UNCHANGED running

\* The process is killed, or the run stopped without its messages being stored.
Halt == running /\ running' = FALSE /\ owed' = {} /\ UNCHANGED path

\* Shell commands and messages of extensions go in between runs, changes of
\* model and the like at any time.
Aside(type) == ~running /\ Add(NewEntry(type, 1)) /\ UNCHANGED <<owed, running>>
Setting == Add(NewEntry("setting", 0)) /\ UNCHANGED <<owed, running>>

\* navigateTree, back along the branch, with a summary or without one.
Navigate(to, summarize) ==
    /\ ~running /\ to < Len(path)
    /\ path' = IF summarize THEN Append(SubSeq(path, 1, to), NewEntry("branch_summary", 1))
               ELSE SubSeq(path, 1, to)
    /\ UNCHANGED <<owed, running>>

\* compact(), or the threshold reached at the end of a run.
Compact ==
    /\ ~running /\ CanCompact
    /\ Compactions < MaxCompactions /\ Len(path) < MaxLength
    /\ path' = Compacted /\ UNCHANGED <<owed, running>>

\* The auto-retry takes the error out of the agent's context and continues.
Retry == ~running /\ path # <<>> /\ Last(path).stop = "error" /\ running' = TRUE /\ UNCHANGED <<path, owed>>

\* continue() refuses a context that ends with an answer, after one error at
\* the end was taken out.
Failed(i) == i # 0 /\ path[i].stop \in {"error", "overflow"}
CanContinue ==
    LET messages == IF Failed(Last(ShownContext)) THEN Front(ShownContext) ELSE ShownContext
    IN  messages # <<>> /\ Role(Last(messages)) # "assistant"

LastAnswer == Max({0} \cup Of({"assistant"}, Shown))

\* The last answer says that the context has overflowed, now or when the next
\* prompt comes: the session compacts it and continues.  Errors from before
\* the first compaction are known to be old ones.
Recover ==
    /\ ~running /\ CanCompact /\ Compactions < MaxCompactions /\ Len(path) < MaxLength
    /\ LastAnswer # 0 /\ path[LastAnswer].stop = "overflow"
    /\ Compactions = 0 \/ Of({"compaction"}, 1..LastAnswer) # {}
    /\ path' = Compacted /\ running' = CanContinue' /\ UNCHANGED owed

CompactionNext ==
    \/ User \/ Halt \/ Setting \/ Compact \/ Retry \/ Recover
    \/ \E n \in 0..MaxCalls, stop \in {"stop", "error", "overflow", "aborted"} : Answer(n, stop)
    \/ \E tokens \in ResultTokens : Result(tokens)
    \/ \E type \in Asides : Aside(type)
    \/ \E to \in 0..Len(path), summarize \in BOOLEAN : Navigate(to, summarize)

CompactionSpec == CompactionInit /\ [][CompactionNext]_compactionVars

-------------------------------------------------------------------------------

PathEntries == [type : InContext \cup {"setting", "compaction"}, tokens : Nat,
            calls : SUBSET ((1..MaxLength) \X (1..MaxCalls)),
            stop : {"none", "stop", "error", "overflow", "aborted"},
            keeps : 0..MaxLength, covers : SUBSET (1..MaxLength)]

CompactionTypeOK ==
    /\ path \in Seq(PathEntries) /\ Len(path) <= MaxLength
    /\ owed # {} => running /\ \E i \in DOMAIN path : owed \subseteq path[i].calls
    /\ \A i \in Of({"compaction"}, DOMAIN path) : path[i].keeps \in 1..(i - 1) /\ path[i].covers \subseteq 1..(i - 1)

\* Whatever was cut, killed, left behind or compacted, the LLM is asked for an
\* answer only with each tool call followed at once by its results, no result
\* without its call, and something at the end to answer.
RequestsPaired ==
    running /\ owed = {} =>
        /\ Request # <<>> /\ Last(Request).role # "assistant"
        /\ \A i \in DOMAIN Request :
               LET n == Cardinality(Request[i].calls)
               IN  CASE Request[i].role = "assistant" ->
                           /\ i + n <= Len(Request)
                           /\ {{call} : call \in Request[i].calls} =
                                  {Request[j].calls : j \in (i + 1)..(i + n)}
                     [] Request[i].role = "toolResult" ->
                           \E a \in 1..(i - 1) : /\ Request[a].role = "assistant"
                                                 /\ Request[i].calls \subseteq Request[a].calls
                     [] OTHER -> TRUE

\* A compaction leaves out nothing of what came after the one before it: each
\* message is kept or in what the summary was made from, in a split turn too.
SummarizedOrKept ==
    \A p \in Of({"compaction"}, DOMAIN path) :
        Of(InContext, (LastCompaction(p - 1) + 1)..(p - 1)) \subseteq path[p].covers \cup (path[p].keeps..(p - 1))

\* Each message is in the context or in what its summary was made from.
NothingForgotten ==
    LET last == LastCompaction(Len(path))
    IN  last # 0 => Of(InContext, DOMAIN path) \subseteq path[last].covers \cup Shown

\* A compaction keeps the messages that the budget has room for, as far as a
\* cut can be made there, and no more than one beyond it unless no cut can be
\* made at all.
KeepsJustRecent ==
    \A p \in Of({"compaction"}, DOMAIN path) :
        LET since == (LastCompaction(p - 1) + 1)..(p - 1)
            kept == Of(Messages, path[p].keeps..(p - 1))
        IN  /\ \A c \in Of(CutPoints, since) : Tokens(c..(p - 1)) < KeepRecentTokens => path[p].keeps <= c
            /\ \/ kept = {} \/ Tokens((Min(kept) + 1)..(p - 1)) < KeepRecentTokens
               \/ Of(CutPoints, Min(since)..(path[p].keeps - 1)) = {}

\* A cut is made where the budget puts it and loses nothing of either side.
CutExact == CompactionTypeOK /\ SummarizedOrKept /\ KeepsJustRecent

================================================================================
