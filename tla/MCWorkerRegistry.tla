--------------------------- MODULE MCWorkerRegistry ---------------------------
(***************************************************************************)
(* Small instances of WorkerRegistry for TLC.                              *)
(***************************************************************************)
EXTENDS WorkerRegistry

CONSTANT Wide \* the workers that take two tasks at a time; the others take one

MCManager == {0}
MCUnder == [w \in Worker |-> 0]
MCSyncActive == [m \in Manager |-> 1]
MCMaxConcurrent == [w \in Worker |-> IF w \in Wide THEN 2 ELSE 1]

=============================================================================
