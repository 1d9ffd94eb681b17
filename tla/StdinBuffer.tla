------------------------------- MODULE StdinBuffer -------------------------------
(***************************************************************************)
(* packages/tui/src/stdin-buffer.ts: the terminal sends keys, replies and  *)
(* pastes; stdin delivers their characters in chunks cut anywhere, and     *)
(* the buffer puts one event per key and one per paste together again.     *)
(* What stays incomplete for 10 ms is passed on as it is.                  *)
(*                                                                         *)
(* Characters are classes of bytes: "E" is ESC, "0" stands for parameters, *)
(* "A" and "M" for final bytes, "s" and "e" end the markers of a paste.    *)
(***************************************************************************)
EXTENDS Naturals, SequencesExt, FiniteSetsExt

CONSTANTS
    Keys,            \* what the terminal sends, each a sequence of characters
    Pastes,          \* what is pasted
    MaxSent          \* bound: keys and pastes

PasteStart == <<"E", "[", "0", "s">>
PasteEnd == <<"E", "[", "0", "e">>

ASSUME StdinAssumption ==
    /\ MaxSent \in Nat
    /\ \A p \in Pastes : \A i \in DOMAIN p : ~IsPrefix(PasteEnd, SubSeq(p, i, Len(p)))

Events == [kind : {"data"}, text : Keys] \cup [kind : {"paste"}, text : Pastes]

VARIABLES
    sent,            \* what the terminal has sent
    wire,            \* its characters that stdin has not delivered
    buffer, pasteMode, pasteBuffer,
    waiting,         \* the timeout is set
    emitted,         \* the events
    hasty            \* history: the timeout has cut a key or a marker in two

stdinVars == <<sent, wire, buffer, pasteMode, pasteBuffer, waiting, emitted, hasty>>

-------------------------------------------------------------------------------

Written(event) ==
    IF event.kind = "data" THEN event.text ELSE PasteStart \o event.text \o PasteEnd

\* indexOf, or zero.
Position(marker, s) ==
    LET at == {i \in DOMAIN s : IsPrefix(marker, SubSeq(s, i, Len(s)))}
    IN  IF at = {} THEN 0 ELSE Min(at)

After(s, n) == SubSeq(s, n + 1, Len(s))

Terminated(s) == IsSuffix(<<"E", "\\">>, s)

\* isCompleteSequence, for what starts with ESC.
IsCompleteBuggy(s) == Len(s) >= 2 /\ Last(s) \notin {"[", "O", "0"}

IsComplete(s) ==
    /\ Len(s) >= 2
    /\ s[2] = "[" => /\ Len(s) >= 3
                     /\ IF s[3] = "M" THEN Len(s) >= 6
                        ELSE IF s[3] = "<" THEN Last(s) = "M"
                        ELSE Last(s) \in {"A", "M", "s", "e"}
    /\ s[2] = "]" => Terminated(s) \/ Last(s) = "bel"
    /\ s[2] \in {"P", "_"} => Terminated(s)
    /\ s[2] = "O" => Len(s) >= 3

\* extractCompleteSequences: the first piece of a string, its length or zero.
FirstLength(s) ==
    IF s[1] # "E" THEN 1
    ELSE LET ends == {n \in DOMAIN s : IsComplete(SubSeq(s, 1, n))}
         IN  IF ends = {} THEN 0 ELSE Min(ends)

Cut(s) ==
    LET Cuts[k \in 0..Len(s)] ==
            LET n == IF k = Len(s) THEN 0 ELSE FirstLength(After(s, k))
            IN  IF n = 0 THEN <<k>> ELSE <<k>> \o Cuts[k + n]
    IN  Cuts[0]

Extract(s) ==
    LET cuts == Cut(s)
    IN  [found |-> [i \in 1..(Len(cuts) - 1) |->
                       [kind |-> "data", text |-> SubSeq(s, cuts[i] + 1, cuts[i + 1])]],
         rest |-> After(s, Last(cuts))]

-------------------------------------------------------------------------------

StdinInit ==
    /\ sent = <<>> /\ wire = <<>>
    /\ buffer = <<>> /\ pasteMode = FALSE /\ pasteBuffer = <<>> /\ waiting = FALSE
    /\ emitted = <<>> /\ hasty = FALSE

\* An Escape key is followed by a pause: what comes at once is another key.
Send(event) ==
    /\ Len(sent) < MaxSent
    /\ sent # <<>> /\ Last(sent).text = <<"E">> => wire = <<>> /\ ~waiting
    /\ sent' = Append(sent, event)
    /\ wire' = wire \o Written(event)
    /\ UNCHANGED <<buffer, pasteMode, pasteBuffer, waiting, emitted, hasty>>

Data(state, pieces) == [state EXCEPT !.out = @ \o pieces]

\* process(): what is in front of a paste, the paste, and, since it calls itself,
\* what follows.
Round(state) ==
    LET all == IF state.mode THEN state.paste \o state.input ELSE state.buffer \o state.input
        start == Position(PasteStart, all)
        end == Position(PasteEnd, all)
        whole == Extract(all)
    IN  CASE state.mode /\ end = 0 ->
                [state EXCEPT !.input = <<>>, !.paste = all]
          [] state.mode /\ end > 0 ->
                [state EXCEPT !.input = After(all, end + 3), !.mode = FALSE, !.paste = <<>>,
                              !.out = Append(@, [kind |-> "paste", text |-> SubSeq(all, 1, end - 1)])]
          [] ~state.mode /\ start > 0 ->
                [Data(state, Extract(SubSeq(all, 1, start - 1)).found)
                    EXCEPT !.input = After(all, start + 3), !.buffer = <<>>, !.mode = TRUE]
          [] OTHER ->
                [Data(state, whole.found) EXCEPT !.input = <<>>, !.buffer = whole.rest]

States == [input : Seq(STRING), buffer : Seq(STRING), mode : BOOLEAN, paste : Seq(STRING),
           out : Seq([kind : STRING, text : Seq(STRING)])]

Rounds[state \in States] == IF state.input = <<>> THEN state ELSE Rounds[Round(state)]

Waits(rest) == rest # <<>>

\* A chunk arrives.
Process(n) ==
    LET r == Rounds[[input |-> SubSeq(wire, 1, n), buffer |-> buffer, mode |-> pasteMode,
                     paste |-> pasteBuffer, out |-> <<>>]]
    IN  /\ buffer' = r.buffer /\ pasteMode' = r.mode /\ pasteBuffer' = r.paste
        /\ waiting' = Waits(r.buffer)
        /\ emitted' = emitted \o r.out
        /\ wire' = After(wire, n)
        /\ UNCHANGED <<sent, hasty>>

\* flush(), 10 ms after the last chunk.
Flush ==
    /\ waiting /\ waiting' = FALSE
    /\ emitted' = Append(emitted, [kind |-> "data", text |-> buffer])
    /\ buffer' = <<>>
    /\ hasty' = (hasty \/ wire # <<>>)
    /\ UNCHANGED <<sent, wire, pasteMode, pasteBuffer>>

StdinNext ==
    \/ \E event \in Events : Send(event)
    \/ \E n \in DOMAIN wire : Process(n)
    \/ Flush

\* Stdin delivers what was sent, and the timer fires.
StdinFairness == WF_stdinVars(\E n \in DOMAIN wire : Process(n)) /\ WF_stdinVars(Flush)

StdinSpec == StdinInit /\ [][StdinNext]_stdinVars /\ StdinFairness

-------------------------------------------------------------------------------

StdinTypeOK ==
    /\ sent \in Seq(Events) /\ Len(sent) <= MaxSent
    /\ pasteMode \in BOOLEAN /\ (pasteMode => buffer = <<>>) /\ (~pasteMode => pasteBuffer = <<>>)
    /\ waiting = (buffer # <<>>) /\ hasty \in BOOLEAN

Characters(events) == FlattenSeq([i \in DOMAIN events |-> Written(events[i])])

\* However the characters are cut into chunks, the events are the keys and the
\* pastes the terminal sent, in their order; unless a chunk takes so long that
\* the timeout cuts one of them, which then arrives in pieces.
InOrder == ~hasty => IsPrefix(emitted, sent)

\* Nothing that arrives is lost, in pieces or not.
NothingLost ==
    Characters(emitted) \o (IF pasteMode THEN PasteStart ELSE <<>>) \o pasteBuffer \o buffer \o wire
        = Characters(sent)

\* Everything sent is passed on in the end, unless it ends in the middle of a
\* paste whose marker was cut.
AllEmitted == (wire # <<>>) ~> (hasty \/ emitted = sent)

\* The program is given what was typed and pasted, just that and all of it.
InputWhole == [](StdinTypeOK /\ InOrder /\ NothingLost) /\ AllEmitted

================================================================================
