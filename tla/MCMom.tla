--------------------------------- MODULE MCMom ---------------------------------
(* The bot in a small channel, and the scheduler of its events.  The two have  *)
(* no state in common: a behaviour is one of either, the other at rest (no     *)
(* time is left for the events, or the fairness of their clock would be in the *)
(* way).                                                                       *)
EXTENDS Mom, Events

VARIABLE part

MCInit ==
    /\ MomInit /\ EventsInit
    /\ part \in {"bot", "events"}
    /\ now = IF part = "events" THEN 0 ELSE MaxTime

MCNext ==
    /\ \/ part = "bot" /\ MomNext /\ UNCHANGED eventsVars
       \/ part = "events" /\ EventsNext /\ UNCHANGED momVars
    /\ UNCHANGED part

MCSpec == MCInit /\ [][MCNext]_<<part, momVars, eventsVars>> /\ MomFairness /\ EventsFairness

================================================================================
