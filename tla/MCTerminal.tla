------------------------------- MODULE MCTerminal -------------------------------
(* The three parts of the terminal have no state in common: a behaviour is one *)
(* of any of them, the others at rest.                                         *)
EXTENDS Renderer, Overlays, StdinBuffer

MCKeys == {<<"a">>, <<"E", "[", "A">>, <<"E", "a">>, <<"E">>, <<"E", "O", "A">>,
           <<"E", "[", "<", "0", "M">>, <<"E", "P", "E", "\\">>}
MCPastes == {<<>>, <<"E", "[", "A">>}

VARIABLE part

MCInit ==
    /\ RendererInit /\ OverlaysInit /\ StdinInit
    /\ part \in {"screen", "focus", "input"}
    /\ part # "screen" => origin = 0 /\ clearOnShrink

MCNext ==
    /\ \/ part = "screen" /\ RendererNext /\ UNCHANGED <<overlayVars, stdinVars>>
       \/ part = "focus" /\ OverlaysNext /\ UNCHANGED <<rendererVars, stdinVars>>
       \/ part = "input" /\ StdinNext /\ UNCHANGED <<rendererVars, overlayVars>>
    /\ UNCHANGED part

MCSpec == MCInit /\ [][MCNext]_<<part, rendererVars, overlayVars, stdinVars>> /\ StdinFairness

================================================================================
