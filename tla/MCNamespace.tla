----------------------------- MODULE MCNamespace -----------------------------
(* Two clients and names that hash to different servers. *)
EXTENDS Namespace, TLC

MCHash == "/" :> 0 @@ "d" :> 1 @@ "e" :> 0 @@ "f" :> 2 @@ "g" :> 4

Partition(servers, level, here, errors) ==
    [data_nserv |-> servers, replication_level |-> level, local |-> here, max_errors |-> errors]

\* Two copies on three servers elsewhere; one copy, or three, with a server on the clients'
\* node.  And seven servers, enough for the search of stat to make a step of two and to
\* leave the copies behind.
MCModes == {Partition(3, 1, {}, 1), Partition(3, 0, {1}, 0), Partition(3, 2, {1}, 0)}
             \cup {Partition(7, level, here, 3) : level \in 2..4, here \in {{}, {5}}}

\* Behaviours end where little is promised of the names.
SomethingPromised ==
    /\ Cardinality(murky) <= 1
    /\ \A c \in Clients : error[c] # {} => murky = {}

\* Calls on different names use different pieces.
SameNames == \A c, k \in Clients : call[c] # Idle /\ call[k] # Idle =>
               About(call[c].p, call[c].q) \cap Uses(call[k].p, call[k].q) # {}

\* Files are created in "d" and get into "e" by a rename.
CreatedInD == \A c \in Clients : call[c] # Idle /\ call[c].op = "create" => call[c].p.dir = "d"

\* With seven servers one client creates one file, which grows, and then marks servers.
OneFileOnSeven == n = 7 =>
    /\ Cardinality({c \in Clients : call[c] # Idle \/ error[c] # {}}) <= 1
    /\ \A c \in Clients :
         /\ call[c] # Idle => call[c].op \in {"create", "update"} /\ call[c].p.name = "f" /\ error[c] = {}
         /\ error[c] # {} => calls = 1
    /\ calls <= 1 /\ failures = 0

Symmetry == Permutations(Clients)
=============================================================================
