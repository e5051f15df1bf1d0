------------------------------- MODULE MCHealth -------------------------------
(***************************************************************************)
(* Small instances of Health for TLC.                                      *)
(***************************************************************************)
EXTENDS Health

CONSTANTS w1, w2

MCWorkerSeq == <<w1, w2>>

=============================================================================
