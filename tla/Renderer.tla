-------------------------------- MODULE Renderer --------------------------------
(***************************************************************************)
(* packages/tui/src/tui.ts, doRender: what the user sees is the result of  *)
(* relative cursor moves and of the few lines rewritten, so the TUI must   *)
(* know what the terminal shows and where its cursor is.  Here the         *)
(* terminal is modelled beside it: rows scroll off at the top, a move      *)
(* stops at the edge of the screen.                                        *)
(*                                                                         *)
(* A line is a value; columns and styles within a line are left out, so    *)
(* are changes of the terminal's height, whose effect on the rows is the   *)
(* terminal's own affair.                                                  *)
(***************************************************************************)
EXTENDS Integers, SequencesExt, FiniteSetsExt

CONSTANTS
    Lines,           \* what a line may show, apart from nothing
    MaxLines,        \* bound: lines of the content
    Height,          \* rows of the terminal
    Outgrow          \* content may outgrow the screen with clearOnShrink off, too

ASSUME RendererAssumption ==
    MaxLines \in Nat /\ Height \in Nat \ {0} /\ Outgrow \in BOOLEAN

Blank == "blank"
Mixed == "mixed"     \* a line written over another that was longer
Contents == UNION {[1..n -> Lines \cup {Blank}] : n \in 0..MaxLines}

VARIABLES
    terminal,        \* its rows, how many are above the screen, the cursor's row
    origin,          \* row of the first line of the content
    previousLines, maxLinesRendered, previousViewportTop, hardwareCursorRow,
    clearOnShrink,   \* the setting, off by default
    stale,           \* the next render must clear: forced, or another width
    overlay          \* an overlay is up: a line at this row of the screen, or None

rendererVars == <<terminal, origin, previousLines, maxLinesRendered, previousViewportTop,
                  hardwareCursorRow, clearOnShrink, stale, overlay>>
None == -1

-------------------------------------------------------------------------------
(* The terminal. *)

Bottom(t) == t.top + Height - 1
Blanks(n) == [i \in 1..n |-> Blank]

Down(t, n) == [t EXCEPT !.cursor = Min({t.cursor + n, Bottom(t)})]
Up(t, n) == [t EXCEPT !.cursor = Max({t.cursor - n, t.top})]
Move(t, diff) == IF diff > 0 THEN Down(t, diff) ELSE Up(t, -diff)

NewLine(t) ==
    IF t.cursor < Bottom(t) THEN [t EXCEPT !.cursor = @ + 1]
    ELSE [rows |-> Append(t.rows, Blank), top |-> t.top + 1, cursor |-> t.cursor + 1]

NewLines(t, n) == FoldLeft(LAMBDA u, i : NewLine(u), t, Blanks(n))

Erase(t) == [t EXCEPT !.rows[t.cursor + 1] = Blank]

Put(t, line) ==
    LET old == t.rows[t.cursor + 1]
    IN  [t EXCEPT !.rows[t.cursor + 1] =
            CASE old = Blank -> line [] line \in {Blank, old} -> old [] OTHER -> Mixed]

Cleared == [rows |-> Blanks(Height), top |-> 0, cursor |-> 0]

\* Lines from the cursor down: "write" takes the rows to be clean, "rewrite"
\* erases each before, "erase" only does that and does not scroll.
Advance(t, how) == IF how = "erase" THEN Down(t, 1) ELSE NewLine(t)
PutLine(t, line, how) == Put(IF how = "write" THEN t ELSE Erase(t), line)

PutLines(t, lines, how) ==
    LET upTo[i \in 0..Len(lines)] ==
            IF i = 0 THEN t
            ELSE PutLine(IF i = 1 THEN t ELSE Advance(upTo[i - 1], how), lines[i], how)
    IN  upTo[Len(lines)]

-------------------------------------------------------------------------------
(* doRender *)

Line(lines, i) == IF i \in DOMAIN lines THEN lines[i] ELSE Blank

\* compositeOverlays: the content is padded to the working area.
Composite(lines) ==
    IF overlay = None THEN lines
    ELSE LET height == Max({maxLinesRendered, Len(lines), overlay + 1})
             row == Max({0, height - Height}) + overlay + 1
         IN  [i \in 1..height |-> IF i = row THEN "overlay" ELSE Line(lines, i)]

\* The rows of a content in which the cursor's marker is looked for.
Markers(lines) == {None} \cup (Max({0, Len(lines) - Height}))..(Len(lines) - 1)

Track(target, row) == hardwareCursorRow' = target

Most(lines) == Max({maxLinesRendered, Len(lines)})

\* positionHardwareCursor, with what the caller has written and tracked.
Finish(t, row, marker, lines, most) ==
    LET target == IF marker = None \/ lines = <<>> THEN row ELSE marker
    IN  /\ terminal' = Move(t, target - row)
        /\ Track(target, row)
        /\ previousLines' = lines
        /\ maxLinesRendered' = most
        /\ previousViewportTop' = Max({0, most - Height})

FullRender(lines, marker, clear) ==
    /\ Finish(PutLines(IF clear THEN Cleared ELSE terminal, lines, "write"),
              Max({0, Len(lines) - 1}), marker, lines,
              IF clear THEN Len(lines) ELSE Most(lines))
    /\ origin' = IF clear THEN 0 ELSE origin

ViewportTop == Max({0, maxLinesRendered - Height})

\* All changes are in lines that are no more.
Delete(lines, marker) ==
    LET target == Max({0, Len(lines) - 1})
        extra == Len(previousLines) - Len(lines)
        diff == (target - ViewportTop) - (hardwareCursorRow - previousViewportTop)
    IN  IF extra > Height THEN FullRender(lines, marker, TRUE)
        ELSE /\ Finish(Up(PutLines(Down(Move(terminal, diff), 1), Blanks(extra), "erase"), extra),
                       target, marker, lines, maxLinesRendered)
             /\ UNCHANGED origin

\* computeLineDiff
Diff(target, top, row, previousTop) == (target - top) - (row - previousTop)

\* Only the changed lines are written, after a scroll if they are below the screen.
Update(lines, marker, first, last) ==
    LET appended == first = Len(previousLines) /\ first > 0 /\ Len(lines) > first
        moveTo == IF appended THEN first - 1 ELSE first
        scroll == Max({0, moveTo - (previousViewportTop + Height - 1)})
        toBottom == Height - 1 - Max({0, Min({Height - 1, hardwareCursorRow - previousViewportTop})})
        row == IF scroll > 0 THEN moveTo ELSE hardwareCursorRow
        there == Move(IF scroll > 0 THEN NewLines(Down(terminal, toBottom), scroll) ELSE terminal,
                      Diff(moveTo, ViewportTop + scroll, row, previousViewportTop + scroll))
        end == Min({last, Len(lines) - 1})
        written == PutLines(IF appended THEN NewLine(there) ELSE there,
                            SubSeq(lines, first + 1, end + 1), "rewrite")
        extra == Max({0, Len(previousLines) - Len(lines)})
        erased == PutLines(NewLine(Down(written, Len(lines) - 1 - end)), Blanks(extra), "rewrite")
    IN  /\ Finish(IF extra > 0 THEN Up(erased, extra) ELSE written,
                  IF extra > 0 THEN Len(lines) - 1 ELSE end,
                  marker, lines, Most(lines))
        /\ UNCHANGED origin

Shrunk(lines) == clearOnShrink /\ Len(lines) < maxLinesRendered /\ overlay = None

AboveViewportBuggy(first) == FALSE
AboveViewport(first) == first < Max({0, Len(previousLines) - Height})

Render(lines, marker) ==
    LET changed == {i \in 0..(Max({Len(lines), Len(previousLines)}) - 1) :
                       Line(lines, i + 1) # Line(previousLines, i + 1)}
                   \cup Len(previousLines)..(Len(lines) - 1)
        first == Min(changed)
    IN  /\ stale' = FALSE
        /\ \/ stale /\ FullRender(lines, marker, TRUE)
           \/ /\ ~stale /\ previousLines = <<>>
              /\ FullRender(lines, marker, FALSE)
           \/ /\ ~stale /\ previousLines # <<>> /\ Shrunk(lines)
              /\ FullRender(lines, marker, TRUE)
           \/ /\ ~stale /\ previousLines # <<>> /\ ~Shrunk(lines)
              /\ \/ /\ changed = {}
                    /\ Finish(terminal, hardwareCursorRow, marker, previousLines, maxLinesRendered)
                    /\ UNCHANGED origin
                 \/ /\ changed # {} /\ first >= Len(lines)
                    /\ Delete(lines, marker)
                 \/ /\ changed # {} /\ first < Len(lines)
                    /\ IF AboveViewport(first) THEN FullRender(lines, marker, TRUE)
                       ELSE Update(lines, marker, first, Max(changed))

-------------------------------------------------------------------------------

\* The terminal's cursor may be anywhere when the TUI starts; what is below it
\* is clean.
RendererInit ==
    /\ origin \in 0..(Height - 1)
    /\ terminal = [rows |-> Blanks(Height), top |-> 0, cursor |-> origin]
    /\ previousLines = <<>> /\ maxLinesRendered = 0 /\ previousViewportTop = 0
    /\ hardwareCursorRow = 0
    /\ clearOnShrink \in BOOLEAN /\ stale = FALSE /\ overlay = None

\* The application's lines have changed, or may have.  (No component tree of
\* the program is empty; without clearOnShrink the last line would stay.)
Redraw ==
    /\ \E content \in Contents :
           /\ clearOnShrink \/ (content # <<>> /\ (Outgrow \/ Len(content) <= Height))
           /\ LET lines == Composite(content)
              IN  \E marker \in Markers(lines) : Render(lines, marker)
    /\ UNCHANGED <<overlay, clearOnShrink>>

\* requestRender(true), or another width; an overlay comes or goes.
ForceRender == stale' = TRUE /\ UNCHANGED <<terminal, origin, previousLines, maxLinesRendered,
                                      previousViewportTop, hardwareCursorRow, clearOnShrink, overlay>>

ChangeOverlay(row) ==
    /\ overlay' = row
    /\ UNCHANGED <<terminal, origin, previousLines, maxLinesRendered, previousViewportTop,
                   hardwareCursorRow, clearOnShrink, stale>>

RendererNext == Redraw \/ ForceRender \/ \E row \in {None} \cup 0..(Height - 1) : ChangeOverlay(row)

RendererSpec == RendererInit /\ [][RendererNext]_rendererVars

-------------------------------------------------------------------------------

RendererTypeOK ==
    /\ Len(terminal.rows) = terminal.top + Height
    /\ terminal.cursor \in terminal.top..Bottom(terminal)
    /\ Len(previousLines) <= maxLinesRendered
    /\ previousViewportTop = Max({0, maxLinesRendered - Height})
    /\ hardwareCursorRow \in Nat

Shown == \A row \in origin..(Len(terminal.rows) - 1) :
             terminal.rows[row + 1] = Line(previousLines, row - origin + 1)

\* The screen, and what has scrolled off it, show the lines rendered last and
\* nothing of earlier ones, whatever part of them was written, and the cursor is
\* in the row the TUI believes it in, where every move to come starts.  With the
\* setting off this ends with the first content that is higher than the screen.
ScreenTrue ==
    /\ RendererTypeOK
    /\ clearOnShrink \/ maxLinesRendered <= Height =>
           Shown /\ terminal.cursor = origin + hardwareCursorRow

================================================================================
