--------------------------- MODULE MCServerSession ---------------------------
(* Model checking of the conversation between a client and a server. *)
EXTENDS ServerSession
=============================================================================
