-------------------------------- MODULE MCAgent --------------------------------
(* Model-checking instances of Agent. *)
EXTENDS Agent

RunSymmetry == Permutations(Runs)
===============================================================================
