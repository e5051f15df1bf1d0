----------------------------- MODULE MCDatabases -----------------------------
(***************************************************************************)
(* Small instances of Databases for TLC.                                   *)
(***************************************************************************)
EXTENDS Databases, TLC

\* Task ids and workers are names; the legacy task is not like the others.
MCSymmetry == Permutations(Task \ Legacy) \cup Permutations(Worker)

=============================================================================
