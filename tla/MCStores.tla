-------------------------------- MODULE MCStores --------------------------------
(* What outlives a process: session files, credentials and settings, each      *)
(* read and written by several programs or one that is killed and restarted.   *)
(* The three have no state in common: a behaviour is one of any of them.       *)
EXTENDS SessionManager, AuthStorage, SettingsManager

Labelled == {"user", "assistant", "label"}
MCInstanceOf == [c \in Caller |-> IF c = "c2" THEN "i2" ELSE "i1"]

VARIABLE part

MCInit ==
    /\ Init /\ AuthInit /\ SettingsInit
    /\ part \in {"sessions", "credentials", "settings"}
    /\ part # "sessions" => disk = Empty

MCNext ==
    /\ \/ part = "sessions" /\ Next /\ UNCHANGED <<authVars, settingsVars>>
       \/ part = "credentials" /\ AuthNext /\ UNCHANGED <<vars, settingsVars>>
       \/ part = "settings" /\ SettingsNext /\ UNCHANGED <<vars, authVars>>
    /\ UNCHANGED part

MCSpec == MCInit /\ [][MCNext]_<<part, vars, authVars, settingsVars>> /\ AuthFairness

================================================================================
