------------------------------ MODULE PromptEditor ------------------------------
(***************************************************************************)
(* packages/tui/src/components/editor.ts: the prompt editor's text with     *)
(* its undo stack, kill ring, large pastes and prompt history.  The lines   *)
(* and the cursor in them are one text with line ends and a position in it; *)
(* a marker of a large paste is two characters, so that it can be cut in    *)
(* two.  Wrapping, scrolling and the list of completions are left out.      *)
(***************************************************************************)
EXTENDS Integers, SequencesExt, FiniteSetsExt, Functions, Selection

CONSTANTS
    MaxText,         \* bound: characters of a text
    MaxKeys,         \* bound: keys pressed
    MaxPastes        \* bound: large pastes

ASSUME EditorAssumption == MaxText \in Nat /\ MaxKeys \in Nat /\ MaxPastes \in Nat

VARIABLES
    text, cursor,
    undoStack,       \* earlier texts with their cursors
    killRing,        \* newest last
    lastAction,      \* "kill", "yank", "type-word" or "none"
    history,         \* submitted texts, newest first
    historyIndex,    \* 0 while not browsing
    pastes,          \* what the markers of this prompt stand for
    pasted,          \* large pastes so far: each has its number
    whole,           \* the text before the present series of kills
    keys

shown == <<text, cursor>>
editorVars == <<shown, undoStack, killRing, lastAction, history, historyIndex, pastes, pasted, whole, keys>>

\* A character is what it is, and for a half of a marker the number it shows
\* and the paste it was made for.
Character(c, shows, paste) == [c |-> c, shows |-> shows, paste |-> paste]
Letter == Character("a", 0, 0)
Space == Character(" ", 0, 0)
LineEnd == Character("\n", 0, 0)
Marker(shows, paste) == <<Character("[", shows, paste), Character("]", shows, paste)>>

Snapshot == [text |-> text, cursor |-> cursor]

Before == SubSeq(text, 1, cursor)
Behind == SubSeq(text, cursor + 1, Len(text))

\* Where the line of the cursor begins and ends.
LineEnds == {i \in DOMAIN text : text[i] = LineEnd}
LineStart == Max({0} \cup {i \in LineEnds : i <= cursor})
LineStop == Min({Len(text)} \cup {i - 1 : i \in {j \in LineEnds : j > cursor}})

\* moveWordBackwards and moveWordForwards within a line: over white space, then
\* over a word.
WordStart == Min({cursor} \cup {i \in LineStart..cursor :
    \E j \in i..cursor : /\ \A k \in (i + 1)..j : text[k] # Space
                         /\ \A k \in (j + 1)..cursor : text[k] = Space})
WordStop == Max({cursor} \cup {i \in cursor..LineStop :
    \E j \in cursor..i : /\ \A k \in (cursor + 1)..j : text[k] = Space
                         /\ \A k \in (j + 1)..i : text[k] # Space})

-------------------------------------------------------------------------------

Pressed == keys < MaxKeys /\ keys' = keys + 1

pushUndoSnapshot == undoStack' = Append(undoStack, Snapshot)

\* Text goes in at the cursor, which moves behind it.
Insert(chars) ==
    /\ Len(text) + Len(chars) <= MaxText
    /\ text' = Before \o chars \o Behind
    /\ cursor' = cursor + Len(chars)

Take(from, to) ==
    /\ text' = SubSeq(text, 1, from) \o SubSeq(text, to + 1, Len(text))
    /\ cursor' = from

\* An edit that is undone by itself and ends a series of kills or yanks.
Edit ==
    /\ Pressed /\ pushUndoSnapshot /\ lastAction' = "none" /\ historyIndex' = 0
    /\ UNCHANGED <<killRing, history, whole>>

Coalesced(char) == char # Space /\ lastAction = "type-word"

\* insertCharacter: a word is undone with the white space before it.
InsertCharacter(char) ==
    /\ Pressed /\ Insert(<<char>>)
    /\ IF Coalesced(char) THEN UNCHANGED undoStack ELSE pushUndoSnapshot
    /\ lastAction' = "type-word" /\ historyIndex' = 0
    /\ UNCHANGED <<killRing, history, pastes, pasted, whole>>

\* addNewLine, a small paste, insertTextAtCursor.
InsertText(chars) == Edit /\ Insert(chars) /\ UNCHANGED <<pastes, pasted>>

\* handlePaste with more than 10 lines or 1000 characters.
PasteLarge ==
    LET id == Cardinality(DOMAIN pastes) + 1
    IN  /\ pasted < MaxPastes
        /\ Edit /\ Insert(Marker(id, pasted + 1))
        /\ pasted' = pasted + 1
        /\ pastes' = [i \in 1..id |-> IF i = id THEN pasted' ELSE pastes[i]]

\* handleBackspace, handleForwardDelete.
DeleteCharacter(from) ==
    /\ from >= 0 /\ from < Len(text)
    /\ Edit /\ Take(from, from + 1) /\ UNCHANGED <<pastes, pasted>>

\* addToKillRing: one entry for a series of kills.
AccumulatedBuggy(chars, prepend) ==
    IF lastAction = "kill" /\ killRing # <<>>
    THEN Append(Front(killRing), Last(killRing) \o chars) ELSE Append(killRing, chars)
Accumulated(chars, prepend) ==
    IF lastAction = "kill" /\ killRing # <<>>
    THEN Append(Front(killRing), IF prepend THEN chars \o Last(killRing) ELSE Last(killRing) \o chars)
    ELSE Append(killRing, chars)

Kill(from, to, prepend) ==
    /\ from < to
    /\ Pressed /\ pushUndoSnapshot
    /\ killRing' = Accumulated(SubSeq(text, from + 1, to), prepend)
    /\ Take(from, to)
    /\ lastAction' = "kill" /\ historyIndex' = 0
    /\ whole' = IF lastAction = "kill" THEN whole ELSE text
    /\ UNCHANGED <<history, pastes, pasted>>

\* At the end of a line, its end is killed.
DeleteToLineStart ==
    Kill(IF cursor > LineStart THEN LineStart ELSE Max({0, cursor - 1}), cursor, TRUE)
DeleteToLineEnd ==
    Kill(cursor, IF cursor < LineStop THEN LineStop ELSE Min({Len(text), cursor + 1}), FALSE)
DeleteWordBackwards ==
    Kill(IF cursor > LineStart THEN WordStart ELSE Max({0, cursor - 1}), cursor, TRUE)
DeleteWordForward ==
    Kill(cursor, IF cursor < LineStop THEN WordStop ELSE Min({Len(text), cursor + 1}), FALSE)

Yank ==
    /\ killRing # <<>>
    /\ Pressed /\ pushUndoSnapshot /\ Insert(Last(killRing))
    /\ lastAction' = "yank" /\ historyIndex' = 0
    /\ UNCHANGED <<killRing, history, pastes, pasted, whole>>

Rotated == <<Last(killRing)>> \o Front(killRing)

\* yankPop: what was yanked last is taken out, the entry before it goes in.
YankPop ==
    LET from == cursor - Len(Last(killRing))
    IN  /\ lastAction = "yank" /\ Len(killRing) > 1
        /\ Pressed /\ pushUndoSnapshot
        /\ killRing' = Rotated
        /\ text' = SubSeq(text, 1, from) \o Last(Rotated) \o Behind
        /\ Len(text') <= MaxText
        /\ cursor' = from + Len(Last(Rotated))
        /\ historyIndex' = 0
        /\ UNCHANGED <<lastAction, history, pastes, pasted, whole>>

\* Arrows, words, pages, jumps to a character: all end a series.
MoveTo(to) ==
    /\ Pressed /\ cursor' = to /\ to # cursor /\ lastAction' = "none"
    /\ UNCHANGED <<text, undoStack, killRing, history, historyIndex, pastes, pasted, whole>>

Undo ==
    /\ undoStack # <<>>
    /\ Pressed
    /\ text' = Last(undoStack).text /\ cursor' = Last(undoStack).cursor
    /\ undoStack' = Front(undoStack)
    /\ lastAction' = "none" /\ historyIndex' = 0
    /\ UNCHANGED <<killRing, history, pastes, pasted, whole>>

\* A completion is taken: the provider replaces the word before the cursor.
\* The editor stays in the history if it was there.
Complete ==
    /\ Pressed /\ pushUndoSnapshot /\ Insert(<<Letter>>) /\ lastAction' = "none"
    /\ UNCHANGED <<killRing, history, historyIndex, pastes, pasted, whole>>

\* setText, from the program.
SetText(chars) ==
    /\ Len(chars) <= MaxText
    /\ Pressed /\ text' = chars /\ cursor' = Len(chars)
    /\ IF text = chars THEN UNCHANGED undoStack ELSE pushUndoSnapshot
    /\ lastAction' = "none" /\ historyIndex' = 0
    /\ UNCHANGED <<killRing, history, pastes, pasted, whole>>

\* navigateHistory: the draft can be had back by undo only.
Browse(to) ==
    /\ to \in 0..Len(history)
    /\ \/ to = historyIndex + 1 /\ (text = <<>> \/ (historyIndex > 0 /\ LineStart = 0))
       \/ to = historyIndex - 1 /\ LineStop = Len(text)
    /\ Pressed
    /\ IF historyIndex = 0 THEN pushUndoSnapshot ELSE UNCHANGED undoStack
    /\ historyIndex' = to
    /\ text' = (IF to = 0 THEN <<>> ELSE history[to]) /\ cursor' = Len(text')
    /\ lastAction' = "none"
    /\ UNCHANGED <<killRing, history, pastes, pasted, whole>>

\* A key with nothing to delete, nowhere to go or nothing to undo.
InVain ==
    /\ Pressed
    /\ lastAction' \in {lastAction, "none"} /\ historyIndex' \in {historyIndex, 0}
    /\ <<lastAction, historyIndex>>' # <<lastAction, historyIndex>>
    /\ UNCHANGED <<shown, undoStack, killRing, history, pastes, pasted, whole>>

Whole(chars, i) == i < Len(chars) /\ chars[i].c = "[" /\ chars[i + 1].c = "]"

\* What submitValue sends for a marker, 0 if it stays as it is.
Expansion(chars, i) ==
    IF Whole(chars, i) /\ chars[i].shows \in DOMAIN pastes THEN pastes[chars[i].shows] ELSE 0

UndoClearedBuggy == UNCHANGED undoStack
UndoCleared == undoStack' = <<>>

\* What is sent, one letter standing for all that was pasted at a marker.
Submitted ==
    LET marked == {i \in DOMAIN text : Expansion(text, i) # 0}
        kept == Selected([i \in DOMAIN text |-> i], {i \in DOMAIN text : i - 1 \notin marked})
        chars == [k \in DOMAIN kept |-> IF kept[k] \in marked THEN Letter ELSE text[kept[k]]]
        inner == {i \in DOMAIN chars : chars[i] \notin {Space, LineEnd}}
    IN  IF inner = {} THEN <<>> ELSE SubSeq(chars, Min(inner), Max(inner))

addToHistory(chars) ==
    history' = IF chars = <<>> \/ IsPrefix(<<chars>>, history) THEN history ELSE <<chars>> \o history

\* submitValue; the program puts what was sent into the history.
Submit ==
    /\ Pressed
    /\ text' = <<>> /\ cursor' = 0
    /\ pastes' = <<>> /\ UndoCleared
    /\ lastAction' = "none" /\ historyIndex' = 0
    /\ addToHistory(Submitted)
    /\ UNCHANGED <<killRing, pasted, whole>>

-------------------------------------------------------------------------------

EditorInit ==
    /\ text = <<>> /\ cursor = 0 /\ undoStack = <<>> /\ killRing = <<>> /\ lastAction = "none"
    /\ history = <<>> /\ historyIndex = 0 /\ pastes = <<>> /\ pasted = 0 /\ whole = <<>> /\ keys = 0

EditorNext ==
    \/ \E char \in {Letter, Space} : InsertCharacter(char)
    \/ InsertText(<<LineEnd>>) \/ InsertText(<<Letter, LineEnd>>)
    \/ PasteLarge
    \/ DeleteCharacter(cursor - 1) \/ DeleteCharacter(cursor)
    \/ DeleteToLineStart \/ DeleteToLineEnd \/ DeleteWordBackwards \/ DeleteWordForward
    \/ InVain \/ Yank \/ YankPop \/ Undo \/ Complete \/ Submit
    \/ SetText(<<>>) \/ SetText(<<Letter>>)
    \/ \E to \in 0..Len(text) : MoveTo(to)
    \/ \E to \in {historyIndex - 1, historyIndex + 1} : Browse(to)

EditorSpec == EditorInit /\ [][EditorNext]_editorVars

-------------------------------------------------------------------------------

Glyphs == {Letter, Space, LineEnd} \cup UNION {ToSet(Marker(i, j)) : i, j \in 1..MaxPastes}

EditorTypeOK ==
    /\ text \in Seq(Glyphs) /\ Len(text) <= MaxText /\ cursor \in 0..Len(text)
    /\ \A i \in DOMAIN undoStack : undoStack[i].cursor \in 0..Len(undoStack[i].text)
    /\ killRing \in Seq(Seq(Glyphs)) /\ <<>> \notin ToSet(killRing)
    /\ lastAction \in {"kill", "yank", "type-word", "none"}
    /\ historyIndex \in 0..Len(history)

\* Undo takes back one edit or one word, with the white space it was typed
\* after, and leads back to the empty editor: no change goes unrecorded and no
\* two words, nor what was typed in two places, are taken back as one.
UndoExact ==
    /\ undoStack = <<>> => text = <<>>
    /\ lastAction = "type-word" =>
           LET last == Last(undoStack)
               typed == SubSeq(text, last.cursor + 1, cursor)
           IN  /\ typed # <<>> /\ Space \notin ToSet(Tail(typed))
               /\ text = SubSeq(last.text, 1, last.cursor) \o typed
                         \o SubSeq(last.text, last.cursor + 1, Len(last.text))

\* Behind a yank the newest entry of the ring is what stands before the cursor,
\* so that yank-pop replaces just that; after a series of kills, whichever way
\* they went, yanking gives back the text from before the first of them.
KillRingTrue ==
    /\ lastAction = "yank" => SubSeq(text, cursor - Len(Last(killRing)) + 1, cursor) = Last(killRing)
    /\ lastAction = "kill" => Before \o Last(killRing) \o Behind = whole

\* What the user takes back is what was there: undo gives back the text from
\* before one edit or word, a yank the text from before a series of kills.
TakenBackExact == EditorTypeOK /\ UndoExact /\ KillRingTrue

\* A marker, also one that undo brings back, is sent as what was pasted for it,
\* unless it comes from an earlier prompt by way of the kill ring or the history.
MarkersExpand ==
    LET Stale(chars) == \E i \in DOMAIN chars : chars[i].paste \notin Range(pastes) \cup {0}
        texts == {text} \cup {s.text : s \in ToSet(undoStack)}
    IN  (\A chars \in ToSet(killRing) \cup ToSet(history) : ~Stale(chars)) =>
            \A chars \in texts : \A i \in DOMAIN chars :
                Whole(chars, i) => Expansion(chars, i) = chars[i].paste

================================================================================
