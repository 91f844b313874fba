---------------------------- MODULE Malleability ----------------------------
(***************************************************************************)
(* Where a byte of an XPN file lives when its set of servers has changed.  *)
(* The metadata of a file records its reconfigurations in data_nserv and   *)
(* offsets: a positive entry is a number of servers and the last block of  *)
(* the configuration before it; a negative entry -(s + 1), always followed *)
(* by a positive one, says that server s was removed and how many of its   *)
(* blocks are dealt anew to the ones that stay.  A zero ends the list.     *)
(* XpnCalculateBlockMdata (xpn_policy_rw.c) reads the list, xpn_expand.c   *)
(* and xpn_shrink.c extend it.                                             *)
(***************************************************************************)
EXTENDS BlockLayout, Sequences, FiniteSets, FiniteSetsExt

CONSTANT MaxReconstructions    \* XPN_METADATA_MAX_RECONSTURCTIONS

\* A removal takes two entries after the first one.
ASSUME MaxReconstructionsAssumption == MaxReconstructions \in Nat \ {0, 1, 2}

-----------------------------------------------------------------------------
(* The entries of a list that ends with zeros. *)
Zeros == [i \in 0..(MaxReconstructions + 1) |-> 0]

\* XpnCreateMetadataExtern: one configuration.
CreateMetadata(block_size, replication_level, first_node, nserv) ==
    [block_size |-> block_size, replication_level |-> replication_level,
     first_node |-> first_node, file_size |-> 0,
     data_nserv |-> [Zeros EXCEPT ![0] = nserv], offsets |-> Zeros]

Configurations(md) ==
    {i \in 0..(MaxReconstructions - 1) : md.data_nserv[i] > 0}

IsShrink(md, i) == i > 0 /\ md.data_nserv[i - 1] < 0

\* The configuration before configuration i.
Previous(md, i) == IF IsShrink(md, i) THEN i - 2 ELSE i - 1

\* The number of servers the file has now.
CurrentServers(md) == md.data_nserv[Max(Configurations(md))]

-----------------------------------------------------------------------------
\* Division of C, which rounds towards zero.
CQuotient(a, n) == IF a >= 0 THEN a \div n ELSE -((-a) \div n)

\* Is the block one of configuration i?
Covers(md, i, block) ==
    LET last == IF md.data_nserv[i + 1] > 0 THEN md.offsets[i + 1] ELSE md.offsets[i + 2]
    IN  /\ block > md.offsets[i] \/ block = 0
        /\ block <= last \/ last = 0

\* The first configuration that has the block, -1 if none has.
ActualIndex(md, block) ==
    LET C == {i \in Configurations(md) : Covers(md, i, block)}
    IN  IF C = {} THEN -1 ELSE Min(C)

\* The blocks dealt in the configuration before i, minus one; the ones dealt
\* anew when that configuration began count.
LastOfPrevious(md, i) ==
    LET p == Previous(md, i)
    IN  (IF p = 0 THEN md.offsets[i] ELSE md.offsets[i] - md.offsets[p] - 1)
        + (IF IsShrink(md, p) THEN md.offsets[p - 1] ELSE 0)

\* What the configuration before i takes in the file of a server.
SegmentLength(md, i) ==
    LET rl == md.replication_level
    IN  (CQuotient(BlockReplication(rl, LastOfPrevious(md, i), rl),
                   md.data_nserv[Previous(md, i)]) + 1) * md.block_size

\* Where the blocks of configuration i start in the files of the servers.
SegmentStart(md, i) ==
    LET start[j \in 0..i] ==
            IF j = 0 THEN 0
            ELSE start[j - 1] + (IF j \in Configurations(md) THEN SegmentLength(md, j) ELSE 0)
    IN  start[i]

\* A server that an expansion brought has none of the earlier segments.
Brought(md, i, serv) ==
    IF IsShrink(md, i) THEN 3 <= i /\ md.data_nserv[i - 3] > 0 /\ serv = md.data_nserv[i] - 1
    ELSE md.data_nserv[i - 1] <= serv /\ serv < md.data_nserv[i]
LateStart(md, i, serv) ==
    LET late == {j \in Configurations(md) : 0 < j /\ j <= i /\ Brought(md, j, serv)}
        last == Max(late)
    IN  IF late = {} THEN 0 ELSE SegmentStart(md, IF IsShrink(md, last) THEN last - 2 ELSE last)

\* Place of a replica in configuration i, the one that has its block.
PlaceIn(md, i, offset, replication) ==
    LET skipped == IF i = 0 THEN 0
                   ELSE md.offsets[i] + 1 - (IF IsShrink(md, i) THEN md.offsets[i - 1] ELSE 0)
        at == CalculateBlock(md.block_size, md.replication_level, md.data_nserv[i],
                             offset - md.block_size * skipped, replication, md.first_node)
    IN  [at EXCEPT !.local_offset = @ + SegmentStart(md, i) - LateStart(md, i, at.serv)]

\* What the removal of a server at the start of configuration i does to a place:
\* what the server had is dealt to the others, the servers above it move down.
RemovedRedealt(md, i, at, replication) ==
    LET new == CalculateBlock(md.block_size, md.replication_level, md.data_nserv[i],
                              at.local_offset, replication, md.first_node)
        late == IF 3 <= i /\ md.data_nserv[i - 3] > 0 /\ new.serv = md.data_nserv[i] - 1
                THEN SegmentStart(md, i - 2) ELSE 0
    IN  [new EXCEPT !.local_offset = @ + SegmentStart(md, i) - late]
AfterRemoval(md, i, at, replication) ==
    LET removed == -md.data_nserv[i - 1] - 1
    IN  CASE at.serv = removed -> RemovedRedealt(md, i, at, replication)
          [] at.serv > removed -> [at EXCEPT !.serv = @ - 1]
          [] OTHER             -> at

\* The place in configuration first, through the removals that came after it.  A
\* block in no configuration leaves what the caller had in its variables: no place.
PlaceSince(md, first, offset, replication) ==
    LET after[i \in first..(MaxReconstructions - 1)] ==
            IF i = first THEN PlaceIn(md, first, offset, replication)
            ELSE IF md.data_nserv[i] > 0 /\ IsShrink(md, i)
                 THEN AfterRemoval(md, i, after[i - 1], replication)
                 ELSE after[i - 1]
    IN  IF first = -1 THEN [serv |-> -1, local_offset |-> -1]
        ELSE after[MaxReconstructions - 1]

\* XpnCalculateBlockMdata.
CalculateBlockMdata(md, offset, replication) ==
    IF md.data_nserv[1] = 0
    THEN CalculateBlock(md.block_size, md.replication_level, md.data_nserv[0],
                        offset, replication, md.first_node)
    ELSE PlaceSince(md, ActualIndex(md, offset \div md.block_size), offset, replication)

-----------------------------------------------------------------------------
\* The first entry of the list that is free.
FreeEntry(md) == Min({i \in 1..(MaxReconstructions + 1) : md.data_nserv[i] = 0})

\* The block from which the new servers count (xpn_expand.c): the last one of
\* the round that the file has begun.  RoundLimitShort takes the round as full.
RoundLimitShort(md, nserv) == (md.file_size \div md.block_size) - 1
RoundLimit(md, nserv) ==
    LET actual_blocks == md.file_size \div md.block_size
    IN  ((actual_blocks + nserv - 1) \div nserv) * nserv - 1

\* xpn_expand.c copy(): a configuration more; none when the list is full.
ExpandMetadata(md, size) ==
    LET i == FreeEntry(md)
    IN  IF i >= MaxReconstructions THEN md
        ELSE [md EXCEPT !.data_nserv[i] = size,
                        !.offsets[i] = RoundLimit(md, md.data_nserv[i - 1])]

IsPrevFirstNode(first_node, node, nserv) ==
    node = (IF first_node = 0 THEN nserv ELSE first_node) - 1

\* The server of position p of the deal of all replicas.
Position(md, p) ==
    LET k == md.replication_level + 1
    IN  CalculateBlockMdata(md, (p \div k) * md.block_size, p % k)

\* One turn of the loop of xpn_shrink.c copy() that removes server `removed`.
\* The configuration ends where the deal, from position p on, passes the server
\* before the first node for the second time.
EndOfConfiguration(md, nserv, p) ==
    LET passes == {t \in 0..(2 * nserv - 1) :
                      IsPrevFirstNode(md.first_node, Position(md, p + t).serv, nserv)}
    IN  p + (IF Cardinality(passes) < 2 THEN 2 * nserv ELSE Min(passes \ {Min(passes)}))

\* How many blocks the removed server has in the deal up to position p.
BlocksOfRemoved(md, nserv, removed, p) ==
    LET t == Min({t \in 0..(nserv - 1) : t < nserv - 1 => Position(md, p - t).serv = removed})
    IN  Position(md, p - t).local_offset \div md.block_size + 1

Removal(md, i, nserv, removed, last) ==
    LET k == md.replication_level + 1
    IN  [last |-> last,
         md |-> [md EXCEPT !.data_nserv = [@ EXCEPT ![i] = -(removed + 1), ![i + 1] = nserv - 1],
                           !.offsets = [@ EXCEPT ![i] = BlocksOfRemoved(md, nserv, removed, last * k + k - 1),
                                                 ![i + 1] = last]]]

RemoveServer(md, last_block, removed) ==
    LET i == FreeEntry(md)
        k == md.replication_level + 1
        before == md.data_nserv[i - 1]
        nserv == IF before < 0 THEN md.data_nserv[i - 2] ELSE before
        from == (IF last_block < before THEN before ELSE last_block) + 1
    IN  Removal(md, i, nserv, removed, EndOfConfiguration(md, nserv, from * k) \div k)

\* trans_rank_array after the servers of the sequence gone left: the number a
\* server has among the ones that stay, and a negative one for one that leaves
\* (-1, and one less for each server below it that leaves later).
TransRank(size, gone) ==
    [r \in 0..(size - 1) |->
        IF \E i \in DOMAIN gone : gone[i] = r
        THEN LET at == CHOOSE i \in DOMAIN gone : gone[i] = r
             IN  -1 - Cardinality({i \in DOMAIN gone : at < i /\ gone[i] < r})
        ELSE r - Cardinality({i \in DOMAIN gone : gone[i] < r})]

\* Server gone[j] leaves, after the ones before it in the sequence; nothing is
\* recorded when the list is full.
RemoveNext(size, gone, j, sofar) ==
    LET number == TransRank(size, SubSeq(gone, 1, j - 1))[gone[j]]
    IN  IF FreeEntry(sofar.md) + 1 >= MaxReconstructions THEN sofar
        ELSE RemoveServer(sofar.md, sofar.last, number)

\* xpn_shrink.c copy(): one entry pair per server that leaves, in the order the
\* servers are named on the command line.
ShrinkMetadata(md, size, gone) ==
    LET step[j \in 0..Len(gone)] ==
            IF j = 0 THEN [md |-> md, last |-> md.file_size \div md.block_size]
            ELSE RemoveNext(size, gone, j, step[j - 1])
    IN  step[Len(gone)].md

=============================================================================
