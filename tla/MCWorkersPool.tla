--------------------------- MODULE MCWorkersPool ---------------------------
(* Small instance of the thread pool for TLC. *)
EXTENDS WorkersPool

=============================================================================
