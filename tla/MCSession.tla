------------------------------- MODULE MCSession -------------------------------
(* A session and the RPC mode its prompts may come from: the tree of its       *)
(* entries with branches, summaries, compactions and forks; commands, runs and *)
(* dialogs.  The two share no state: a behaviour is one of either; of the RPC  *)
(* mode it has calls or dialogs.                                               *)
EXTENDS SessionManager, Rpc

Compacting == {"user", "compaction", "branch_summary"}

VARIABLE part

MCInit ==
    /\ Init /\ RpcInit
    /\ part \in {"tree", "calls", "dialogs"}
    /\ part # "tree" => disk = Empty

MCNext ==
    /\ \/ part = "tree" /\ Next /\ UNCHANGED rpcVars
       \/ /\ part \in {"calls", "dialogs"} /\ RpcNext /\ UNCHANGED vars
          /\ dialog' # dialog => part = "dialogs"
          /\ <<request, waiter>>' # <<request, waiter>> => part = "calls"
    /\ UNCHANGED part

MCSpec == MCInit /\ [][MCNext]_<<part, vars, rpcVars>>

================================================================================
