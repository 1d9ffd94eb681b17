-------------------------------- MODULE Overlays --------------------------------
(***************************************************************************)
(* packages/tui/src/tui.ts: the stack of overlays and the focus.  Overlays *)
(* come, are hidden and go through their handles or from the top; each     *)
(* remembers who had the focus before it, and its visible() may change     *)
(* with the size of the terminal at any time.                              *)
(***************************************************************************)
EXTENDS Naturals, SequencesExt, FiniteSetsExt

CONSTANTS
    Overlay,         \* components shown as overlays, one at a time each
    Responsive,      \* those that have a visible() function
    Nested,          \* only the topmost overlay is closed
    Editor           \* the component below them all

ASSUME OverlaysAssumption == Responsive \subseteq Overlay /\ Editor \notin Overlay /\ Nested \in BOOLEAN

VARIABLES
    stack,           \* overlayStack, the topmost last
    hidden,          \* entries hidden by their handle
    preFocus,        \* what had the focus when the entry was shown
    focused,         \* focusedComponent
    small            \* the terminal is too small for a responsive overlay

overlayVars == <<stack, hidden, preFocus, focused, small>>

-------------------------------------------------------------------------------

IsVisible(o, h) == o \notin h /\ (o \in Responsive => ~small)

\* getTopmostVisibleOverlay, or what comes in its place.
Topmost(overlays, h, otherwise) ==
    LET visible == {i \in DOMAIN overlays : IsVisible(overlays[i], h)}
    IN  IF visible = {} THEN otherwise ELSE overlays[Max(visible)]

\* An overlay that goes or hides passes on the focus only if it has it.
RefocusBuggy(o, overlays, h) == UNCHANGED focused
Refocus(o, overlays, h) ==
    focused' = IF focused = o THEN Topmost(overlays, h, preFocus[o]) ELSE focused

OverlaysInit ==
    /\ stack = <<>> /\ hidden = {} /\ preFocus = [o \in Overlay |-> Editor]
    /\ focused = Editor /\ small = FALSE

ShowOverlay(o) ==
    /\ o \notin ToSet(stack)
    /\ stack' = Append(stack, o) /\ preFocus' = [preFocus EXCEPT ![o] = focused]
    /\ focused' = IF IsVisible(o, hidden) THEN o ELSE focused
    /\ UNCHANGED <<hidden, small>>

\* hide() of a handle.
Hide(o) ==
    /\ o \in ToSet(stack) /\ (Nested => o = Last(stack))
    /\ \E index \in DOMAIN stack : stack[index] = o /\ stack' = RemoveAt(stack, index)
    /\ hidden' = hidden \ {o}
    /\ Refocus(o, stack', hidden)
    /\ UNCHANGED <<preFocus, small>>

\* hideOverlay: the focus moves whoever has it.
HideOverlay ==
    /\ stack # <<>>
    /\ stack' = Front(stack) /\ hidden' = hidden \ {Last(stack)}
    /\ focused' = Topmost(stack', hidden, preFocus[Last(stack)])
    /\ UNCHANGED <<preFocus, small>>

\* setHidden() of a handle.
SetHidden(o) ==
    /\ o \in ToSet(stack)
    /\ \/ /\ o \notin hidden /\ hidden' = hidden \cup {o}
          /\ Refocus(o, stack, hidden')
       \/ /\ o \in hidden /\ hidden' = hidden \ {o}
          /\ focused' = IF IsVisible(o, hidden') THEN o ELSE focused
    /\ UNCHANGED <<stack, preFocus, small>>

Resize == small' = ~small /\ UNCHANGED <<stack, hidden, preFocus, focused>>

\* handleInput: where a key goes, and with it the focus.
Target ==
    IF focused \in ToSet(stack) /\ ~IsVisible(focused, hidden)
    THEN Topmost(stack, hidden, preFocus[focused]) ELSE focused

Key == focused' = Target /\ UNCHANGED <<stack, hidden, preFocus, small>>

OverlaysNext ==
    \/ \E o \in Overlay : ShowOverlay(o) \/ Hide(o) \/ SetHidden(o)
    \/ HideOverlay \/ Resize \/ Key

OverlaysSpec == OverlaysInit /\ [][OverlaysNext]_overlayVars

-------------------------------------------------------------------------------

OverlaysTypeOK ==
    /\ stack \in Seq(Overlay) /\ IsInjective(stack)
    /\ hidden \subseteq ToSet(stack)
    /\ preFocus \in [Overlay -> Overlay \cup {Editor}]
    /\ focused \in Overlay \cup {Editor} /\ small \in BOOLEAN

\* Whoever has the focus is still there, and so is whoever will be given it
\* back, below: no key goes to a component that was removed, and following
\* preFocus comes to the editor, however overlays were hidden and shown and the
\* terminal resized meanwhile.  It takes closing them in order.
FocusAlive ==
    /\ OverlaysTypeOK
    /\ Nested => /\ focused \in ToSet(stack) \cup {Editor}
                 /\ \A i \in DOMAIN stack :
                        preFocus[stack[i]] \in {Editor} \cup {stack[j] : j \in 1..(i - 1)}

================================================================================
