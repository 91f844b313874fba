----------------------------- MODULE BlockLayout -----------------------------
(***************************************************************************)
(* Where a byte of an XPN file lives: the round-robin placement of         *)
(* xpn_policy_rw.c for a file whose set of servers has not changed.  Every *)
(* block has replicationLevel + 1 replicas; the replicas of all blocks,    *)
(* one after the other, are dealt to the servers in turn, starting at      *)
(* firstNode, and a server keeps the ones it gets one after the other.     *)
(***************************************************************************)
EXTENDS Integers

-----------------------------------------------------------------------------
(* The remainder of C, which has the sign of the dividend. *)
CRemainder(a, n) == IF a >= 0 THEN a % n ELSE -((-a) % n)

\* The position in the deal of a replica of a block.
BlockReplication(replicationLevel, block, replication) ==
    block * (replicationLevel + 1) + replication

\* The line (in blocks) of the server's file where position p is kept.
BlockLine(nserv, p) == p \div nserv

\* The server that gets position p.
ServerOf(nserv, firstNode, p) == (p + firstNode) % nserv

\* XpnCalculateBlock: file offset and replica to server and local offset.
CalculateBlock(blockSize, replicationLevel, nserv, offset, replication, firstNode) ==
    LET p == BlockReplication(replicationLevel, offset \div blockSize, replication)
    IN  [serv |-> ServerOf(nserv, firstNode, p),
         local_offset |-> BlockLine(nserv, p) * blockSize + (offset % blockSize)]

\* Which of the nserv positions of a line a server has.  C's remainder has
\* the sign of its first operand; "+ nserv" makes it positive.
TurnOf(nserv, serv, firstNode) ==
    CRemainder(CRemainder(serv - firstNode, nserv) + nserv, nserv)

\* XpnCalculateBlockInvert: server and local offset to file offset and replica.
CalculateBlockInvert(blockSize, replicationLevel, nserv, serv, localOffset, firstNode) ==
    LET line == localOffset \div blockSize
        p == line * nserv + TurnOf(nserv, serv, firstNode)
    IN  [offset |-> (p \div (replicationLevel + 1)) * blockSize
                      + (localOffset % blockSize),
         replication |-> p % (replicationLevel + 1)]

=============================================================================
