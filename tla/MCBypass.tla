------------------------------ MODULE MCBypass ------------------------------
(* A process of two threads for TLC. *)
EXTENDS Bypass, TLC

\* Behaviours end once the program has left what the library can do.
KeepsToTheRules ==
    /\ flags \cap {"mixed", "dup", "full", "many", "early", "moved"} = {}
    /\ ~("finalized" \in flags /\ running)

\* Two positioned calls at once either share a file, which sets "moved", or do not meet.
\* Nor do the offsets of two files, or one offset and the files that fill the table.
OnePositionedCall ==
    /\ Cardinality({t \in Threads : call[t].at \in {"pread", "pwrite", "back"}}) <= 1
    /\ Cardinality({o \in Ids : pos[o] > 0}) <= 1
    /\ \A o \in Ids : pos[o] > 0 => Cardinality({h \in Ids : held[h] # NoFd}) <= 2

\* What the program does with the system's descriptors does not depend on how many files
\* it has open besides.
SystemBesideOne ==
    (sys \ Inherited) \cap 0..(PLUSXPN - 1) = {} \/ Cardinality({o \in Ids : held[o] # NoFd}) <= 1

Symmetry == Permutations(Threads)

=============================================================================
