---------------------------- MODULE MCEventStream ----------------------------
(* Model-checking instance of EventStream and of the contract it implements. *)
EXTENDS EventStream
===============================================================================
