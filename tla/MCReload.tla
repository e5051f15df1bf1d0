------------------------------ MODULE MCReload ------------------------------
(***************************************************************************)
(* Small instances of Reload for TLC.                                      *)
(***************************************************************************)
EXTENDS Reload

CONSTANT Removed \* the workers that the first reload takes away and the second brings back

MCConfigured ==
  [r \in Registry |-> IF r = 1 THEN Service \ Removed ELSE Service]

MCMaxConcurrent == [slot \in Registry \X Service |-> 1]

MCSyncActive == [m \in Manager |-> 1]

=============================================================================
