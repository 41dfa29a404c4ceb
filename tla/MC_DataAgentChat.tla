-------------------------- MODULE MC_DataAgentChat ---------------------------
(* Two requests for any of three questions; the smallest window that leaves  *)
(* the planner's limit effective (the program's 10 and 3 have slack).        *)
EXTENDS DataAgentChat
=============================================================================
