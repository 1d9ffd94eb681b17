--------------------------- MODULE MCInteractiveMode ---------------------------
(* The user types, presses keys and runs commands while one session works. *)
EXTENDS InteractiveMode

MCSessions == {1, 2}

================================================================================
