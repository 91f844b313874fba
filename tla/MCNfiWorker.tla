---------------------------- MODULE MCNfiWorker ----------------------------
(* Small instances of the client's parallel calls for TLC. *)
EXTENDS NfiWorker

=============================================================================
