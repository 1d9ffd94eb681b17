------------------------------- MODULE MCPrompts -------------------------------
(* Where a prompt is written and where it ends: the editor, and the branch of  *)
(* messages that is compacted, with tool results below and above the budget.   *)
(* The two share no state: a behaviour is one of either.                       *)
EXTENDS PromptEditor, Compaction

VARIABLE part

MCInit == EditorInit /\ CompactionInit /\ part \in {"text", "branch"}

MCNext ==
    /\ \/ part = "text" /\ EditorNext /\ UNCHANGED compactionVars
       \/ part = "branch" /\ CompactionNext /\ UNCHANGED editorVars
    /\ UNCHANGED part

MCSpec == MCInit /\ [][MCNext]_<<part, editorVars, compactionVars>>

================================================================================
