------------------------- MODULE MCWorkersOnDemand -------------------------
(* Small instances of the one-thread-per-operation workers for TLC. *)
EXTENDS WorkersOnDemand

=============================================================================
