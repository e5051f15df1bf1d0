---------------------------- MODULE MCTaskManager ----------------------------
(***************************************************************************)
(* Small instances of TaskManager for TLC.                                 *)
(***************************************************************************)
EXTENDS TaskManager, TLC

\* Task ids are fresh uuids, except those of legacy rows, and workers are names.
MCSymmetry == Permutations(Task \ Legacy) \cup Permutations(Worker)

=============================================================================
