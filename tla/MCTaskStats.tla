---------------------------- MODULE MCTaskStats -----------------------------
(* TaskStats for TLC: a backlog of 2 or 4 runs instead of 16, and a time    *)
(* that wraps after a few runs.                                             *)
EXTENDS TaskStats
==============================================================================
