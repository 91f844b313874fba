-------------------------- MODULE MCServerLifecycle --------------------------
(* Two clients, or a job of two ranks, and two servers.  Every mode of the  *)
(* programs is there with each way to stop the servers that matters in it,  *)
(* and a death where it changes something.                                  *)
EXTENDS ServerLifecycle
Mode(type, threads, keep, stop, deaths) ==
  [type |-> type, threads |-> threads, keep |-> keep, stop |-> stop, deaths |-> deaths]
MCModes == {Mode("SCK", TRUE, 1, "terminate", 0), Mode("SCK", FALSE, 1, "await", 0),
            Mode("SCK", FALSE, 1, "terminate", 1), Mode("SCK", FALSE, 0, "terminate", 0),
            Mode("MPI", TRUE, 1, "await", 0), Mode("MPI", FALSE, 1, "down", 0)}
==============================================================================
