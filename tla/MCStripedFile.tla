---------------------------- MODULE MCStripedFile ----------------------------
(* Small instances of the striped file for TLC. *)
EXTENDS StripedFile

File(clients, threads, level, nserv, size, errors) ==
    [block_size |-> 2, replication_level |-> level, data_nserv |-> nserv, threads |-> threads,
     first_node |-> 1, clients |-> clients, max_size |-> size, max_errors |-> errors]

\* One client with threads, replication level 1 over three servers, one of which may be
\* marked in error; two clients without threads or replication, whose swrite and pwrite
\* interleave; two clients with threads, whose updates of the size are not waited for; a
\* client that loses the only server of a block.
Files == {File(1, TRUE, 1, 3, 5, 1), File(2, FALSE, 0, 2, 3, 0), File(2, TRUE, 0, 2, 3, 0),
          File(1, FALSE, 0, 2, 4, 1)}

\* Once a worker is disturbed anything may follow.
Undisturbed == ~disturbed

=============================================================================
