------------------------------ MODULE MCCompaction ------------------------------
(* Compaction of short branches; tool results below and above the budget.      *)
EXTENDS Compaction

================================================================================
