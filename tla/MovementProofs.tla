--------------------------- MODULE MovementProofs ---------------------------
(***************************************************************************)
(* Proofs about the layout of a file, about the utilities that move its    *)
(* data, and about their walk over the tree: the placement of blocks is a  *)
(* bijection for every size of the system; no rank of a utility waits for  *)
(* what never comes, for any number of readers and writers; and the ranks  *)
(* that walk over a tree meet in every collective call and copy the whole  *)
(* of it, for any tree and any number of ranks.                            *)
(***************************************************************************)
EXTENDS Movement, TreeWalk, NaturalsInduction, WellFoundedInduction, SequenceTheorems, FiniteSetTheorems, TLAPS

-----------------------------------------------------------------------------
(* Division *)

\* Quotient and remainder are unique.
LEMMA DivideUnique ==
    ASSUME NEW n \in Nat \ {0}, NEW q \in Int, NEW r \in 0..(n - 1)
    PROVE  (q * n + r) \div n = q /\ (q * n + r) % n = r
  OBVIOUS

\* Every natural number is its quotient and remainder.
LEMMA DivideParts ==
    ASSUME NEW n \in Nat \ {0}, NEW a \in Nat
    PROVE  /\ a \div n \in Nat /\ a % n \in 0..(n - 1)
           /\ a = (a \div n) * n + (a % n)
  OBVIOUS

LEMMA Divided ==
    ASSUME NEW n \in Nat \ {0}, NEW a \in Nat
    PROVE  \E q \in Nat, r \in 0..(n - 1) : a = q * n + r
  <1>1. a \div n \in Nat /\ a % n \in 0..(n - 1) /\ a = (a \div n) * n + (a % n)
    BY DivideParts
  <1> QED
    BY ONLY <1>1

\* The C expression of XpnCalculateBlockInvert is the mathematical remainder.
LEMMA CRemainderWraps ==
    ASSUME NEW n \in Nat \ {0}, NEW s \in 0..(n - 1), NEW f \in 0..(n - 1)
    PROVE  TurnOf(n, s, f)
             = IF s >= f THEN s - f ELSE s - f + n
  <1>1. CASE s >= f
    <2>1. s - f \in 0..(n - 1) BY <1>1
    <2>2. CRemainder(s - f, n) = s - f BY <2>1, <1>1 DEF CRemainder
    <2>3. (1 * n + (s - f)) % n = s - f BY <2>1, DivideUnique
    <2>4. (s - f) + n = 1 * n + (s - f) OBVIOUS
    <2> QED BY <1>1, <2>1, <2>2, <2>3, <2>4 DEF CRemainder, TurnOf
  <1>2. CASE s < f
    <2>1. f - s \in 0..(n - 1) /\ f - s > 0 BY <1>2
    <2>2. (f - s) % n = f - s BY <2>1
    <2>3. CRemainder(s - f, n) = s - f
      BY <1>2, <2>2 DEF CRemainder
    <2>4. s - f + n \in 0..(n - 1) BY <2>1
    <2>5. (s - f + n) % n = s - f + n BY <2>4
    <2> QED BY <1>2, <2>3, <2>4, <2>5 DEF CRemainder, TurnOf
  <1> QED BY <1>1, <1>2

-----------------------------------------------------------------------------
(* Positions, servers and lines *)

\* The server of a position is a server, and it determines the position's
\* remainder the way XpnCalculateBlockInvert recovers it.
LEMMA ServerOfPosition ==
    ASSUME NEW n \in Nat \ {0}, NEW f \in 0..(n - 1), NEW p \in Nat
    PROVE  /\ ServerOf(n, f, p) \in 0..(n - 1)
           /\ TurnOf(n, ServerOf(n, f, p), f) = p % n
  <1>1. PICK q \in Nat, r \in 0..(n - 1) : p = q * n + r BY DivideParts
  <1>2. p % n = r
    <2>1. (q * n + r) % n = r BY DivideUnique
    <2> QED BY <1>1, <2>1
  <1>3. CASE r + f < n
    <2>1. q \in Int /\ r + f \in 0..(n - 1) BY <1>3
    <2>2. (q * n + (r + f)) % n = r + f BY <2>1, DivideUnique, Zenon
    <2>3. p + f = q * n + (r + f) BY <1>1
    <2>4. ServerOf(n, f, p) = r + f BY <2>2, <2>3 DEF ServerOf
    <2>5. TurnOf(n, r + f, f)
            = IF r + f >= f THEN (r + f) - f ELSE (r + f) - f + n
      BY <2>1, CRemainderWraps, Zenon
    <2>6. TurnOf(n, r + f, f) = r BY <2>5
    <2> QED BY <1>2, <2>1, <2>4, <2>6
  <1>4. CASE r + f >= n
    <2>1. q + 1 \in Int /\ r + f - n \in 0..(n - 1) BY <1>4
    <2>2. ((q + 1) * n + (r + f - n)) % n = r + f - n BY <2>1, DivideUnique, Zenon
    <2>3. p + f = (q + 1) * n + (r + f - n) BY <1>1
    <2>4. ServerOf(n, f, p) = r + f - n BY <2>2, <2>3 DEF ServerOf
    <2>5. TurnOf(n, r + f - n, f)
            = IF r + f - n >= f THEN (r + f - n) - f ELSE (r + f - n) - f + n
      BY <2>1, CRemainderWraps, Zenon
    <2>6. TurnOf(n, r + f - n, f) = r BY <2>5
    <2> QED BY <1>2, <2>1, <2>4, <2>6
  <1> QED BY <1>1, <1>3, <1>4

\* The position XpnCalculateBlockInvert recovers is dealt to that server.
LEMMA PositionOfServer ==
    ASSUME NEW n \in Nat \ {0}, NEW f \in 0..(n - 1), NEW s \in 0..(n - 1),
           NEW line \in Nat
    PROVE  LET p == line * n + TurnOf(n, s, f)
           IN  p \in Nat /\ BlockLine(n, p) = line /\ ServerOf(n, f, p) = s
  <1> DEFINE r == IF s >= f THEN s - f ELSE s - f + n
             p == line * n + r
  <1>1. r \in 0..(n - 1) OBVIOUS
  <1>2. TurnOf(n, s, f) = r BY CRemainderWraps
  <1>3. p \in Nat BY <1>1
  <1>4. p \div n = line BY <1>1, DivideUnique
  <1>5. (p + f) % n = s
    <2>1. CASE s >= f
      <3>1. p + f = line * n + s BY <2>1
      <3> QED BY <3>1, DivideUnique
    <2>2. CASE s < f
      <3>1. p + f = (line + 1) * n + s BY <2>2
      <3>2. ((line + 1) * n + s) % n = s BY DivideUnique
      <3> QED BY <3>1, <3>2
    <2> QED BY <2>1, <2>2
  <1> QED BY <1>2, <1>3, <1>4, <1>5 DEF BlockLine, ServerOf

-----------------------------------------------------------------------------
(* The placement *)

\* XpnCalculateBlockInvert undoes XpnCalculateBlock: what a server keeps at
\* the place where a replica was put is that replica of that byte, so no two
\* bytes and no two replicas share a place.
THEOREM InvertOfCalculate ==
    ASSUME NEW bs \in Nat \ {0}, NEW rl \in Nat, NEW n \in Nat \ {0},
           NEW f \in 0..(n - 1), NEW offset \in Nat, NEW replica \in 0..rl
    PROVE  LET at == CalculateBlock(bs, rl, n, offset, replica, f)
           IN  CalculateBlockInvert(bs, rl, n, at.serv, at.local_offset, f)
                 = [offset |-> offset, replication |-> replica]
  <1> DEFINE b == offset \div bs
             o == offset % bs
             p == BlockReplication(rl, b, replica)
             at == CalculateBlock(bs, rl, n, offset, replica, f)
             line == BlockLine(n, p)
  <1>1. b \in Nat /\ o \in 0..(bs - 1) /\ offset = b * bs + o BY DivideParts
  <1>2. p \in Nat /\ p = b * (rl + 1) + replica BY <1>1 DEF BlockReplication
  <1>3. p \div (rl + 1) = b /\ p % (rl + 1) = replica
    BY SMTT(40), <1>1, <1>2, DivideUnique
  <1>4. line \in Nat /\ p = line * n + (p % n)
    BY <1>2, DivideParts DEF BlockLine
  <1>5. at.serv = ServerOf(n, f, p) /\ at.local_offset = line * bs + o
    BY DEF CalculateBlock
  <1>6. at.local_offset \div bs = line /\ at.local_offset % bs = o
    <2> HIDE DEF b, o, p, at, line
    <2>1. line \in Int BY <1>4
    <2>2. (line * bs + o) \div bs = line /\ (line * bs + o) % bs = o
      BY <1>1, <2>1, DivideUnique, Zenon
    <2> QED BY <1>5, <2>2
  <1>7. TurnOf(n, at.serv, f) = p % n
    BY <1>2, <1>5, ServerOfPosition
  <1> HIDE DEF b, o, p, at, line
  <1>8. CalculateBlockInvert(bs, rl, n, at.serv, at.local_offset, f)
          = [offset |-> b * bs + o, replication |-> replica]
    BY <1>3, <1>4, <1>6, <1>7 DEF CalculateBlockInvert
  <1> QED BY <1>1, <1>8 DEF at

\* XpnCalculateBlock undoes XpnCalculateBlockInvert: every byte a server can
\* keep belongs to exactly one replica of one byte of the file, so the files
\* of the servers have no holes of their own.
THEOREM CalculateOfInvert ==
    ASSUME NEW bs \in Nat \ {0}, NEW rl \in Nat, NEW n \in Nat \ {0},
           NEW f \in 0..(n - 1), NEW s \in 0..(n - 1), NEW local \in Nat
    PROVE  LET of == CalculateBlockInvert(bs, rl, n, s, local, f)
           IN  /\ of.offset \in Nat /\ of.replication \in 0..rl
               /\ CalculateBlock(bs, rl, n, of.offset, of.replication, f)
                    = [serv |-> s, local_offset |-> local]
  <1> DEFINE line == local \div bs
             o == local % bs
             p == line * n + TurnOf(n, s, f)
             b == p \div (rl + 1)
             r == p % (rl + 1)
             of == CalculateBlockInvert(bs, rl, n, s, local, f)
  <1>1. line \in Nat /\ o \in 0..(bs - 1) /\ local = line * bs + o BY DivideParts
  <1>2. p \in Nat /\ BlockLine(n, p) = line /\ ServerOf(n, f, p) = s
    <2> HIDE DEF line, o, b, r, of
    <2>1. line \in Nat BY <1>1
    <2> QED BY <2>1, PositionOfServer, ZenonT(60)
  <1>3. b \in Nat /\ r \in 0..rl /\ p = b * (rl + 1) + r
    <2> HIDE DEF p
    <2>1. rl + 1 \in Nat \ {0} /\ 0..((rl + 1) - 1) = 0..rl OBVIOUS
    <2>2. /\ p \div (rl + 1) \in Nat /\ p % (rl + 1) \in 0..((rl + 1) - 1)
          /\ p = (p \div (rl + 1)) * (rl + 1) + (p % (rl + 1))
      BY <1>2, <2>1, DivideParts, Zenon
    <2> QED BY <2>1, <2>2
  <1>4. of.offset = b * bs + o /\ of.replication = r BY DEF CalculateBlockInvert
  <1>5. of.offset \in Nat BY <1>1, <1>3, <1>4
  <1>6. of.offset \div bs = b /\ of.offset % bs = o
    <2> HIDE DEF line, o, p, b, r, of
    <2>1. (b * bs + o) \div bs = b /\ (b * bs + o) % bs = o
      BY <1>1, <1>3, DivideUnique
    <2> QED BY <1>4, <2>1
  <1>7. BlockReplication(rl, b, r) = p BY <1>3 DEF BlockReplication
  <1> HIDE DEF line, o, p, b, r, of
  <1>8. CalculateBlock(bs, rl, n, of.offset, of.replication, f)
          = [serv |-> s, local_offset |-> line * bs + o]
    BY <1>2, <1>4, <1>6, <1>7 DEF CalculateBlock
  <1> QED BY <1>1, <1>3, <1>4, <1>5, <1>8 DEF of

\* With fewer replicas than servers the replicas of a byte are on different
\* servers: one server in error takes at most one of them away.
THEOREM ReplicasOnDistinctServers ==
    ASSUME NEW bs \in Nat \ {0}, NEW rl \in Nat, NEW n \in Nat \ {0}, rl < n,
           NEW f \in 0..(n - 1), NEW offset \in Nat,
           NEW i \in 0..rl, NEW j \in 0..rl, i # j
    PROVE  CalculateBlock(bs, rl, n, offset, i, f).serv
             # CalculateBlock(bs, rl, n, offset, j, f).serv
  <1> DEFINE b == offset \div bs
             pi == BlockReplication(rl, b, i)
             pj == BlockReplication(rl, b, j)
  <1>1. b \in Nat BY DivideParts
  <1>2. pi \in Nat /\ pj \in Nat /\ pi - pj = i - j BY <1>1 DEF BlockReplication
  <1>3. i - j # 0 /\ i - j < n /\ j - i < n OBVIOUS
  <1> HIDE DEF pi, pj
  <1>4. ServerOf(n, f, pi) # ServerOf(n, f, pj)
    <2>1. SUFFICES ASSUME ServerOf(n, f, pi) = ServerOf(n, f, pj) PROVE FALSE
      OBVIOUS
    <2>2. PICK qi \in Nat, qj \in Nat, r \in 0..(n - 1) :
            pi + f = qi * n + r /\ pj + f = qj * n + r
      <3>1. pi + f \in Nat /\ pj + f \in Nat BY <1>2
      <3>2. PICK qi \in Nat, ri \in 0..(n - 1) : pi + f = qi * n + ri
        BY ONLY n \in Nat \ {0}, <3>1, Divided
      <3>3. PICK qj \in Nat, rj \in 0..(n - 1) : pj + f = qj * n + rj
        BY ONLY n \in Nat \ {0}, <3>1, Divided
      <3>4. (pi + f) % n = ri
        <4>1. (qi * n + ri) % n = ri BY DivideUnique
        <4> QED BY <3>2, <4>1
      <3>5. (pj + f) % n = rj
        <4>1. (qj * n + rj) % n = rj BY DivideUnique
        <4> QED BY <3>3, <4>1
      <3>6. ri = rj BY <2>1, <3>4, <3>5 DEF ServerOf
      <3> QED BY <3>2, <3>3, <3>6
    <2>3. i - j = (qi - qj) * n BY <1>2, <2>2
    <2>4. CASE qi = qj BY <1>3, <2>3, <2>4
    <2>5. CASE qi > qj
      <3>1. (qi - qj) * n >= n BY <2>5, <2>2
      <3> QED BY <1>3, <2>3, <3>1
    <2>6. CASE qi < qj
      <3>1. (qj - qi) * n >= n BY <2>6, <2>2
      <3>2. j - i = (qj - qi) * n BY <2>3
      <3> QED BY <1>3, <3>1, <3>2
    <2> QED BY <2>2, <2>4, <2>5, <2>6
  <1> QED BY <1>4 DEF CalculateBlock, pi, pj

\* XpnWriteBlocksAllInOne sends the blocks a server gets as one run of bytes:
\* the next position dealt to the same server is kept on the next line.
THEOREM NextBlockOfServerIsAdjacent ==
    ASSUME NEW n \in Nat \ {0}, NEW f \in 0..(n - 1), NEW p \in Nat
    PROVE  /\ ServerOf(n, f, p + n) = ServerOf(n, f, p)
           /\ BlockLine(n, p + n) = BlockLine(n, p) + 1
  <1>1. PICK q \in Nat, r \in 0..(n - 1) : p = q * n + r BY DivideParts
  <1>2. p \div n = q
    <2>1. (q * n + r) \div n = q BY DivideUnique
    <2> QED BY <1>1, <2>1
  <1>3. q + 1 \in Int /\ p + n = (q + 1) * n + r BY <1>1
  <1>4. (p + n) \div n = q + 1
    <2>1. ((q + 1) * n + r) \div n = q + 1 BY <1>3, DivideUnique
    <2> QED BY <1>3, <2>1
  <1>5. p + f \in Nat OBVIOUS
  <1>6. PICK t \in Nat, u \in 0..(n - 1) : p + f = t * n + u BY <1>5, DivideParts
  <1>7. (p + f) % n = u
    <2>1. (t * n + u) % n = u BY DivideUnique
    <2> QED BY <1>6, <2>1
  <1>8. t + 1 \in Int /\ (p + n) + f = (t + 1) * n + u BY <1>6
  <1>9. ((p + n) + f) % n = u
    <2>1. ((t + 1) * n + u) % n = u BY <1>8, DivideUnique
    <2> QED BY <1>8, <2>1
  <1> QED BY <1>2, <1>4, <1>7, <1>9 DEF BlockLine, ServerOf

-----------------------------------------------------------------------------
(* Nobody is left waiting: the invariant *)

Running == job.tool \in {"shrink", "rebuild", "active_reader", "active_writer"}

\* Metadata with the end of its list.
IsMdata(md) ==
    /\ "data_nserv" \in DOMAIN md
    /\ DOMAIN md.data_nserv = 0..(MaxReconstructions + 1)
    /\ md.data_nserv[MaxReconstructions + 1] = 0

\* The servers of the file are those it was created with, or the metadata say otherwise.
MdataOk ==
    /\ mdata # NoMdata =>
         /\ IsMdata(mdata)
         /\ ~HasChanged(mdata) => mdata.data_nserv = [Zeros EXCEPT ![0] = file.n]
    /\ (mdata = NoMdata \/ ~HasChanged(mdata)) /\ job.tool # "rebuilt" => DOMAIN host = 0..(file.n - 1)

ReaderPc(r) == proc[Reader(r)].pc
WriterPc(w) == proc[Writer(w)].pc

\* The ranks and their channels.
Rank(e) == {"pc", "pos", "tmp", "host"} \subseteq DOMAIN e
Channel(s) == s \in Seq(ToSet(s)) /\ \A m \in ToSet(s) : m = Stop \/ m.stop = FALSE

RanksOk ==
    /\ \A p \in DOMAIN proc : p = <<p[1], p[2]>> /\ p[1] \in {"reader", "writer"} /\ Rank(proc[p])
    /\ DOMAIN chan = Readers \X Writers
    /\ \A c \in Readers \X Writers : Channel(chan[c])

\* Until the readers have met nobody is told to stop; then everybody is, by the
\* reader that is the master.  A send that has not returned has a message under way.
Sending ==
    /\ \A r \in Readers : ReaderPc(r) \in {"run", "blocked", "barrier"}
    /\ \A w \in Writers : WriterPc(w) = "run"
    /\ \A c \in Readers \X Writers : \A m \in ToSet(chan[c]) : m.stop = FALSE
Stopping ==
    /\ \A r \in Readers : ReaderPc(r) \in {"unlink", "done"}
    /\ \A w \in Writers : WriterPc(w) \in {"run", "stopped", "done"}
    /\ \A w \in Writers : WriterPc(w) = "run" => Stop \in ToSet(chan[<<StopMaster, w>>])
PushOk ==
    /\ StopMaster \in Readers
    /\ Sending \/ Stopping
    /\ \A r \in Readers : ReaderPc(r) = "blocked" => \E w \in Writers : chan[<<r, w>>] # <<>>

\* The readers answer until no writer asks any more.
Answering ==
    /\ \A r \in Readers : ReaderPc(r) = "run"
    /\ \A w \in Writers : WriterPc(w) \in {"run", "asked", "barrier"} /\ proc[Writer(w)].pos \in Nat
Ending ==
    /\ \A r \in Readers : ReaderPc(r) \in {"unlink", "done"}
    /\ \A w \in Writers : WriterPc(w) \in {"stopped", "done"}
PullOk ==
    /\ job.old_size \in Nat \ {0} /\ job.new_size \in Nat
    /\ Readers = 0..(job.old_size - 1) /\ Writers = 0..(job.new_size - 1)
    /\ Answering \/ Ending

\* The ranks of xpn_rebuild wait for nobody.
RoundOk ==
    /\ \A r \in Readers : ReaderPc(r) \in {"run", "unlink", "done"}
    /\ \A w \in Writers : WriterPc(w) \in {"run", "stopped", "done"}

ToolOk ==
    /\ RanksOk
    /\ Pushing => PushOk
    /\ job.tool = "active_writer" => PullOk
    /\ job.tool = "rebuild" => RoundOk

JobOk ==
    /\ "tool" \in DOMAIN job
    /\ IF Running THEN ToolOk ELSE proc = NoProc /\ chan = NoProc
    /\ job.tool = "preload" => mdata = NoMdata
    /\ job.tool = "shrink" => IsMdata(job.md) /\ HasChanged(job.md)

MoveInv == file \in Files /\ (~beyond => MdataOk /\ JobOk)

-----------------------------------------------------------------------------
(* The list of configurations *)

LEMMA MinIs ==
    ASSUME NEW S \in SUBSET Nat, S # {}
    PROVE  Min(S) \in S /\ \A j \in S : Min(S) <= j
  <1> DEFINE Less == {ss \in Nat \X Nat : ss[1] < ss[2]}
  <1>1. IsWellFoundedOn(Less, Nat)
    BY NatLessThanWellFounded, Zenon DEF OpToRel
  <1>2. \E i \in S : \A j \in S : i <= j
    <2> HIDE DEF Less
    <2>1. PICK i \in S : \A j \in S : ~(<<j, i>> \in Less)
      BY <1>1, WFMin
    <2>2. ASSUME NEW j \in S PROVE i <= j
      <3>1. i \in Nat /\ j \in Nat /\ <<j, i>> \notin Less
        BY <2>1
      <3>2. <<j, i>> \in Less <=> j < i
        BY <3>1 DEF Less
      <3> QED
        BY <3>1, <3>2
    <2> QED
      BY <2>2
  <1> QED
    BY <1>2 DEF Min

\* The list always has an end, and the first free entry is there or before it.
LEMMA FreeEntryIs ==
    ASSUME NEW md, IsMdata(md)
    PROVE  /\ FreeEntry(md) \in 1..(MaxReconstructions + 1)
           /\ md.data_nserv[FreeEntry(md)] = 0
           /\ md.data_nserv[1] = 0 => FreeEntry(md) = 1
  <1> DEFINE S == {i \in 1..(MaxReconstructions + 1) : md.data_nserv[i] = 0}
  <1>1. S \in SUBSET Nat /\ MaxReconstructions + 1 \in S
    BY MaxReconstructionsAssumption DEF IsMdata
  <1>2. Min(S) \in S /\ \A j \in S : Min(S) <= j
    <2> HIDE DEF S
    <2> QED
      BY <1>1, MinIs
  <1>3. md.data_nserv[1] = 0 => 1 \in S
    BY MaxReconstructionsAssumption
  <1> QED
    BY <1>2, <1>3, MaxReconstructionsAssumption DEF FreeEntry

\* A file whose servers never changed has the ones it was created with.
LEMMA UnchangedServers ==
    ASSUME NEW md, NEW n \in Nat \ {0}, md.data_nserv = [Zeros EXCEPT ![0] = n]
    PROVE  CurrentServers(md) = n
  <1>1. Configurations(md) = {0}
    BY MaxReconstructionsAssumption DEF Configurations, Zeros
  <1>2. Max({0}) = 0
    BY DEF Max
  <1> QED
    BY <1>1, <1>2, MaxReconstructionsAssumption DEF CurrentServers, Zeros

\* The entries of a list after entry i, which is free, is written with value v.
LEMMA EntryWritten ==
    ASSUME NEW md, NEW new, IsMdata(md), NEW i \in 1..(MaxReconstructions - 1), md.data_nserv[i] = 0,
           "data_nserv" \in DOMAIN new, DOMAIN new.data_nserv = DOMAIN md.data_nserv,
           new.data_nserv[i] # 0, 
           \A k \in DOMAIN md.data_nserv : k \notin {i, i + 1} => new.data_nserv[k] = md.data_nserv[k],
           new.data_nserv[MaxReconstructions + 1] = md.data_nserv[MaxReconstructions + 1],
           i = 1 \/ HasChanged(md)
    PROVE  IsMdata(new) /\ HasChanged(new)
  <1>1. 1 \in DOMAIN md.data_nserv
    BY MaxReconstructionsAssumption DEF IsMdata
  <1>2. i # 1 => 1 \notin {i, i + 1}
    OBVIOUS
  <1> QED
    BY <1>1, <1>2, MaxReconstructionsAssumption DEF IsMdata, HasChanged

\* xpn_expand records the new servers.
LEMMA ExpandRecorded ==
    ASSUME NEW md, IsMdata(md), NEW size, HasChanged(md) \/ size \in Nat \ {0}
    PROVE  LET new == ExpandMetadata(md, size) IN IsMdata(new) /\ HasChanged(new)
  <1> DEFINE i == FreeEntry(md)
             new == ExpandMetadata(md, size)
  <1>1. /\ i \in 1..(MaxReconstructions + 1) /\ md.data_nserv[i] = 0
        /\ md.data_nserv[1] = 0 => i = 1
    BY FreeEntryIs
  <1>2. CASE i >= MaxReconstructions
    BY <1>1, <1>2, MaxReconstructionsAssumption DEF ExpandMetadata, HasChanged
  <1>3. CASE i < MaxReconstructions
    <2>1. new = [md EXCEPT !.data_nserv[i] = size,
                           !.offsets[i] = RoundLimit(md, md.data_nserv[i - 1])]
      BY <1>1, <1>3, MaxReconstructionsAssumption DEF ExpandMetadata
    <2>2. "data_nserv" \in DOMAIN new /\ new.data_nserv = [md.data_nserv EXCEPT ![i] = size]
      BY <2>1 DEF IsMdata
    <2>3. i \in DOMAIN md.data_nserv /\ i \in 1..(MaxReconstructions - 1)
      BY <1>1, <1>3, MaxReconstructionsAssumption DEF IsMdata
    <2> HIDE DEF i, new
    <2>4. new.data_nserv[MaxReconstructions + 1] = md.data_nserv[MaxReconstructions + 1]
      BY <2>2, <2>3, MaxReconstructionsAssumption DEF IsMdata
    <2>5. /\ DOMAIN new.data_nserv = DOMAIN md.data_nserv
          /\ \A k \in DOMAIN md.data_nserv : k \notin {i, i + 1} => new.data_nserv[k] = md.data_nserv[k]
      BY <2>2, <2>3
    <2>6. CASE HasChanged(md)
      <3>1. i # 1 /\ 1 \in DOMAIN md.data_nserv /\ 1 \notin {i, i + 1}
        <4>1. i # 1
          BY <1>1, <2>6 DEF HasChanged
        <4>2. DOMAIN md.data_nserv = 0..(MaxReconstructions + 1)
          BY DEF IsMdata
        <4> QED
          BY <2>3, <4>1, <4>2, MaxReconstructionsAssumption
      <3> QED
        BY <2>2, <2>4, <2>5, <2>6, <3>1 DEF HasChanged, IsMdata, new
    <2>7. CASE ~HasChanged(md)
      <3>1. new.data_nserv[i] # 0 /\ i = 1
        BY <1>1, <2>2, <2>3, <2>7 DEF HasChanged
      <3>2. IsMdata(new) /\ HasChanged(new)
        BY <1>1, <2>2, <2>3, <2>4, <2>5, <3>1, EntryWritten, Zenon
      <3> QED
        BY <3>2 DEF new
    <2> QED
      BY <2>6, <2>7
  <1> QED
    BY <1>1, <1>2, <1>3, MaxReconstructionsAssumption

\* So does a turn of the loop of xpn_shrink; the first turn finds room.
LEMMA RemovalRecorded ==
    ASSUME NEW size, NEW gone, NEW j, NEW sofar, IsMdata(sofar.md),
           \/ HasChanged(sofar.md)
           \/ TransRank(size, SubSeq(gone, 1, j - 1))[gone[j]] \in Nat
    PROVE  LET new == RemoveNext(size, gone, j, sofar)
           IN  IsMdata(new.md) /\ HasChanged(new.md)
  <1> DEFINE md == sofar.md
             i == FreeEntry(md)
             removed == TransRank(size, SubSeq(gone, 1, j - 1))[gone[j]]
             new == RemoveNext(size, gone, j, sofar).md
  <1>1. /\ i \in 1..(MaxReconstructions + 1) /\ md.data_nserv[i] = 0
        /\ md.data_nserv[1] = 0 => i = 1
    BY FreeEntryIs
  <1>2. CASE i + 1 >= MaxReconstructions
    BY <1>1, <1>2, MaxReconstructionsAssumption DEF RemoveNext, HasChanged
  <1>3. CASE i + 1 < MaxReconstructions
    <2>0. new = RemoveServer(md, sofar.last, removed).md
      BY <1>1, <1>3, MaxReconstructionsAssumption DEF RemoveNext
    <2> DEFINE before == md.data_nserv[i - 1]
               nserv == IF before < 0 THEN md.data_nserv[i - 2] ELSE before
               from == (IF sofar.last < before THEN before ELSE sofar.last) + 1
               k == md.replication_level + 1
               last == EndOfConfiguration(md, nserv, from * k) \div k
    <2>1. new = [md EXCEPT !.data_nserv = [@ EXCEPT ![i] = -(removed + 1), ![i + 1] = nserv - 1],
                           !.offsets = [@ EXCEPT ![i] = BlocksOfRemoved(md, nserv, removed, last * k + k - 1),
                                                 ![i + 1] = last]]
      BY <2>0, Zenon DEF RemoveServer, Removal
    <2> HIDE DEF last, k, from, nserv, before
    <2>2. /\ "data_nserv" \in DOMAIN new
          /\ new.data_nserv = [md.data_nserv EXCEPT ![i] = -(removed + 1), ![i + 1] = nserv - 1]
      BY <2>1 DEF IsMdata
    <2>3. {i, i + 1} \subseteq DOMAIN md.data_nserv /\ i \in 1..(MaxReconstructions - 1) /\ i # i + 1
      <3>1. DOMAIN md.data_nserv = 0..(MaxReconstructions + 1)
        BY DEF IsMdata
      <3> HIDE DEF i, md
      <3> QED
        BY <1>1, <1>3, <3>1, MaxReconstructionsAssumption
    <2>4. i = 1 \/ HasChanged(md)
      BY <1>1 DEF HasChanged
    <2> HIDE DEF i, new, removed, md
    <2>5. IsMdata(md)
      BY DEF md
    <2>6. new.data_nserv[MaxReconstructions + 1] = md.data_nserv[MaxReconstructions + 1]
      <3>1. /\ MaxReconstructions + 1 \in DOMAIN md.data_nserv
            /\ MaxReconstructions + 1 # i /\ MaxReconstructions + 1 # i + 1
        <4>1. DOMAIN md.data_nserv = 0..(MaxReconstructions + 1)
          BY <2>5 DEF IsMdata
        <4> QED
          BY <1>1, <1>3, <4>1, MaxReconstructionsAssumption
      <3> QED
        BY <2>2, <3>1
    <2>7. /\ DOMAIN new.data_nserv = DOMAIN md.data_nserv
          /\ \A e \in DOMAIN md.data_nserv : e \notin {i, i + 1} => new.data_nserv[e] = md.data_nserv[e]
      BY <2>2, <2>3
    <2>8. CASE HasChanged(md)
      <3>1. i # 1 /\ 1 \in DOMAIN md.data_nserv /\ 1 \notin {i, i + 1}
        <4>1. i # 1
          BY <1>1, <2>8 DEF HasChanged
        <4>2. DOMAIN md.data_nserv = 0..(MaxReconstructions + 1)
          BY <2>5 DEF IsMdata
        <4> QED
          BY <2>3, <4>1, <4>2, MaxReconstructionsAssumption
      <3> QED
        BY <2>2, <2>5, <2>6, <2>7, <2>8, <3>1 DEF HasChanged, IsMdata, new
    <2>9. CASE ~HasChanged(md)
      <3>1. removed \in Nat
        BY <2>9 DEF md, removed
      <3>2. new.data_nserv[i] # 0
        BY <2>2, <2>3, <3>1
      <3>3. IsMdata(new) /\ HasChanged(new)
        BY <1>1, <2>2, <2>3, <2>4, <2>6, <2>7, <2>5, <3>2, EntryWritten, Zenon
      <3> QED
        BY <3>3 DEF new
    <2> QED
      BY <2>8, <2>9
  <1> QED
    BY <1>1, <1>2, <1>3, MaxReconstructionsAssumption

\* The loop of xpn_shrink over the servers that leave.
Turns(step, md, size, gone, n) ==
    step = [j \in 0..n |-> IF j = 0 THEN [md |-> md, last |-> md.file_size \div md.block_size]
                           ELSE RemoveNext(size, gone, j, step[j - 1])]

LEMMA TurnsExist ==
    ASSUME NEW md, NEW size, NEW gone, NEW n \in Nat
    PROVE  \E step : Turns(step, md, size, gone, n)
  <1> DEFINE S == {m \in Nat : ~ \E step : Turns(step, md, size, gone, m)}
  <1> SUFFICES ASSUME S # {} PROVE FALSE
    OBVIOUS
  <1>1. PICK m \in S : \A k \in S : m <= k
    BY MinIs
  <1>2. CASE m = 0
    <2> DEFINE g == [j \in 0..0 |-> [md |-> md, last |-> md.file_size \div md.block_size]]
    <2>1. Turns(g, md, size, gone, 0)
      BY DEF Turns
    <2> QED
      BY <1>1, <1>2, <2>1
  <1>3. CASE m # 0
    <2>1. m - 1 \in Nat /\ m - 1 \notin S
      BY <1>1, <1>3
    <2>2. PICK f : Turns(f, md, size, gone, m - 1)
      BY <2>1
    <2> DEFINE g == [j \in 0..m |-> IF j = m THEN RemoveNext(size, gone, m, f[m - 1]) ELSE f[j]]
    <2>3. \A j \in 0..m : j # m => j \in 0..(m - 1)
      BY <1>1
    <2>4. ASSUME NEW j \in 0..m
          PROVE  g[j] = IF j = 0 THEN [md |-> md, last |-> md.file_size \div md.block_size]
                        ELSE RemoveNext(size, gone, j, g[j - 1])
      <3>1. j # 0 => j - 1 \in 0..m /\ j - 1 # m
        BY <1>1
      <3>2. j # 0 => g[j - 1] = f[j - 1]
        BY <3>1
      <3>3. CASE j = m
        BY <1>3, <3>2, <3>3
      <3>4. CASE j # m
        <4>1. g[j] = f[j] /\ j \in 0..(m - 1)
          BY <2>3, <3>4
        <4>2. f[j] = IF j = 0 THEN [md |-> md, last |-> md.file_size \div md.block_size]
                     ELSE RemoveNext(size, gone, j, f[j - 1])
          BY <2>2, <4>1 DEF Turns
        <4> QED
          BY <3>2, <4>1, <4>2
      <3> QED
        BY <3>3, <3>4
    <2>5. g = [j \in 0..m |-> IF j = 0 THEN [md |-> md, last |-> md.file_size \div md.block_size]
                              ELSE RemoveNext(size, gone, j, g[j - 1])]
      BY <2>4
    <2>6. Turns(g, md, size, gone, m)
      BY <2>5 DEF Turns
    <2> QED
      BY <1>1, <2>6
  <1> QED
    BY <1>2, <1>3

\* A server named first to xpn_shrink leaves under its own number.
LEMMA FirstKeepsNumber ==
    ASSUME NEW size \in Nat, NEW gone \in Seq(Nat), NEW r \in 0..(size - 1)
    PROVE  TransRank(size, SubSeq(gone, 1, 0))[r] = r
  <1> DEFINE none == SubSeq(gone, 1, 0)
  <1>1. DOMAIN none = {}
    OBVIOUS
  <1> HIDE DEF none
  <1>2. {i \in DOMAIN none : none[i] < r} = {} /\ ~ \E i \in DOMAIN none : none[i] = r
    BY <1>1
  <1>3. TransRank(size, none)[r] = r - Cardinality({i \in DOMAIN none : none[i] < r})
    BY <1>2 DEF TransRank
  <1> QED
    BY <1>2, <1>3, FS_EmptySet DEF none

\* After xpn_shrink the metadata say that the servers have changed.
LEMMA ShrinkRecorded ==
    ASSUME NEW md, IsMdata(md), NEW size \in Nat, NEW gone \in Seq(Nat), gone # <<>>,
           gone[1] \in 0..(size - 1)
    PROVE  LET new == ShrinkMetadata(md, size, gone) IN IsMdata(new) /\ HasChanged(new)
  <1> DEFINE n == Len(gone)
             step == CHOOSE step : Turns(step, md, size, gone, n)
  <1>1. n \in Nat \ {0}
    OBVIOUS
  <1>2. Turns(step, md, size, gone, n)
    BY <1>1, TurnsExist
  <1>3. ShrinkMetadata(md, size, gone) = step[n].md
    BY Zenon DEF ShrinkMetadata, Turns
  <1> HIDE DEF n, step
  <1>4. step[0].md = md
    BY <1>1, <1>2 DEF Turns
  <1>5. ASSUME NEW j \in 1..n PROVE step[j] = RemoveNext(size, gone, j, step[j - 1])
    BY <1>1, <1>2 DEF Turns
  <1> DEFINE Good(j) == IsMdata(step[j].md) /\ HasChanged(step[j].md)
             S == {j \in 1..n : ~Good(j)}
  <1>6. Good(1)
    <2>1. TransRank(size, SubSeq(gone, 1, 1 - 1))[gone[1]] \in Nat
      BY FirstKeepsNumber
    <2>2. step[1] = RemoveNext(size, gone, 1, step[0])
      BY <1>1, <1>5
    <2> QED
      BY <1>4, <2>1, <2>2, RemovalRecorded
  <1>7. S = {}
    <2> SUFFICES ASSUME S # {} PROVE FALSE
      OBVIOUS
    <2>1. S \in SUBSET Nat
      BY <1>1
    <2>2. PICK j \in S : \A k \in S : j <= k
      <3> HIDE DEF S
      <3> QED
        BY <2>1, MinIs
    <2>3. j \in 1..n /\ j # 1 /\ ~Good(j)
      BY <1>6, <2>2
    <2>4. j - 1 \in 1..n /\ j - 1 \notin S
      BY <1>1, <2>1, <2>2, <2>3
    <2>5. Good(j - 1)
      BY <2>4
    <2>6. Good(j)
      <3>1. step[j] = RemoveNext(size, gone, j, step[j - 1])
        BY <1>5, <2>3
      <3> QED
        BY <2>5, <3>1, RemovalRecorded
    <2> QED
      BY <2>3, <2>6
  <1> QED
    BY <1>1, <1>3, <1>7

\* The least server that leaves is the one whose number in trans_rank_array is -1:
\* there is one to stop the servers that stay.
LEMMA OneIsMaster ==
    ASSUME NEW size \in Nat, NEW gone \in Seq(Nat), gone # <<>>, Range(gone) \subseteq 0..(size - 1)
    PROVE  LET S == {r \in Range(gone) : TransRank(size, gone)[r] = -1} IN Min(S) \in S
  <1> DEFINE S == {r \in Range(gone) : TransRank(size, gone)[r] = -1}
  <1>1. Range(gone) \in SUBSET Nat /\ gone[1] \in Range(gone)
    BY DEF Range
  <1>2. PICK r \in Range(gone) : \A q \in Range(gone) : r <= q
    BY <1>1, MinIs
  <1>3. TransRank(size, gone)[r] = -1
    <2> DEFINE at == CHOOSE i \in DOMAIN gone : gone[i] = r
    <2>1. (\E i \in DOMAIN gone : gone[i] = r) /\ r \in 0..(size - 1)
      BY <1>2 DEF Range
    <2>2. TransRank(size, gone)[r] = -1 - Cardinality({i \in DOMAIN gone : at < i /\ gone[i] < r})
      BY <2>1, Zenon DEF TransRank
    <2>3. {i \in DOMAIN gone : at < i /\ gone[i] < r} = {}
      <3>1. \A i \in DOMAIN gone : gone[i] \in Range(gone) /\ gone[i] \in Nat
        BY DEF Range
      <3> QED
        BY <1>1, <1>2, <3>1
    <2> HIDE DEF at
    <2>4. Cardinality({i \in DOMAIN gone : at < i /\ gone[i] < r}) = 0
      BY <2>3, FS_EmptySet, Zenon
    <2> QED
      BY <2>2, <2>4
  <1> QED
    BY <1>1, <1>2, <1>3, MinIs

-----------------------------------------------------------------------------
(* Ranks and channels *)

\* A message is added to a channel.
LEMMA ChannelGrows ==
    ASSUME NEW s, NEW m, Channel(s), m = Stop \/ m.stop = FALSE
    PROVE  /\ Channel(Append(s, m)) /\ Append(s, m) # <<>>
           /\ ToSet(Append(s, m)) = ToSet(s) \cup {m}
  <1> DEFINE T == ToSet(s) \cup {m}
             new == Append(s, m)
  <1>1. s \in Seq(T) /\ m \in T
    BY DEF Channel
  <1>2. /\ new \in Seq(T) /\ Len(new) = Len(s) + 1 /\ new[Len(s) + 1] = m
        /\ \A i \in 1..Len(s) : new[i] = s[i]
    <2> HIDE DEF T
    <2> QED
      BY <1>1
  <1>3. DOMAIN new = DOMAIN s \cup {Len(s) + 1} /\ DOMAIN s = 1..Len(s) /\ Len(s) \in Nat
    <2> HIDE DEF T
    <2> QED
      BY <1>1, <1>2
  <1> HIDE DEF new
  <1>4. ToSet(new) = T
    <2>1. ASSUME NEW x \in ToSet(new) PROVE x \in T
      <3>1. PICK i \in DOMAIN new : x = new[i]
        BY <2>1 DEF ToSet
      <3> QED
        BY <1>2, <1>3, <3>1 DEF ToSet
    <2>2. ASSUME NEW x \in ToSet(s) PROVE x \in ToSet(new)
      <3>1. PICK i \in DOMAIN s : x = s[i]
        BY <2>2 DEF ToSet
      <3> QED
        BY <1>2, <1>3, <3>1 DEF ToSet
    <2>3. m \in ToSet(new)
      BY <1>2, <1>3 DEF ToSet
    <2> QED
      BY <2>1, <2>2, <2>3
  <1>5. new # <<>>
    BY <1>2, <1>3
  <1> QED
    BY <1>2, <1>4, <1>5 DEF Channel, new

\* A message is taken from a channel.
LEMMA ChannelShrinks ==
    ASSUME NEW s, Channel(s), s # <<>>
    PROVE  /\ Channel(Tail(s)) /\ Head(s) \in ToSet(s)
           /\ ToSet(Tail(s)) \subseteq ToSet(s)
           /\ ToSet(s) \subseteq ToSet(Tail(s)) \cup {Head(s)}
  <1> DEFINE T == ToSet(s)
             new == Tail(s)
  <1>1. s \in Seq(T)
    BY DEF Channel
  <1> HIDE DEF T
  <1>2. /\ DOMAIN s = 1..Len(s) /\ Len(s) \in Nat \ {0} /\ Head(s) = s[1]
        /\ new \in Seq(T) /\ DOMAIN new = 1..(Len(s) - 1)
        /\ \A i \in 1..(Len(s) - 1) : new[i] = s[i + 1]
    BY <1>1
  <1> HIDE DEF new
  <1>3. ASSUME NEW i \in DOMAIN new PROVE new[i] \in T /\ new[i] \in ToSet(new)
    BY <1>2 DEF ToSet, T
  <1>4. \A x \in ToSet(new) : x \in T
    BY <1>3 DEF ToSet
  <1>5. ASSUME NEW x \in T PROVE x = Head(s) \/ x \in ToSet(new)
    <2>1. PICK i \in DOMAIN s : x = s[i]
      BY <1>5 DEF ToSet, T
    <2>2. CASE i = 1
      BY <1>2, <2>1, <2>2
    <2>3. CASE i # 1
      <3>1. i - 1 \in DOMAIN new /\ new[i - 1] = s[i]
        BY <1>2, <2>1, <2>3
      <3> QED
        BY <1>3, <2>1, <3>1
    <2> QED
      BY <2>2, <2>3
  <1>6. Head(s) \in T
    <2>1. 1 \in DOMAIN s
      BY <1>2
    <2>2. s[1] \in T
      BY <2>1, Zenon DEF T, ToSet
    <2> QED
      BY <1>2, <2>2
  <1>7. new \in Seq(ToSet(new))
    BY <1>2, <1>3
  <1> QED
    BY <1>4, <1>5, <1>6, <1>7 DEF T, new, Channel

\* Readers and writers are the ranks named so.
LEMMA RanksAre ==
    ASSUME RanksOk
    PROVE  /\ \A r : r \in Readers <=> Reader(r) \in DOMAIN proc
           /\ \A w : w \in Writers <=> Writer(w) \in DOMAIN proc
           /\ \A r, w : Reader(r) # Writer(w)
           /\ \A p \in DOMAIN proc : \/ p[1] = "reader" /\ p[2] \in Readers /\ p = Reader(p[2])
                                     \/ p[1] = "writer" /\ p[2] \in Writers /\ p = Writer(p[2])
  <1>1. \A p \in DOMAIN proc : p = <<p[1], p[2]>> /\ p[1] \in {"reader", "writer"}
    BY DEF RanksOk
  <1>2. ASSUME NEW r PROVE r \in Readers <=> Reader(r) \in DOMAIN proc
    BY <1>1 DEF Readers, Reader
  <1>3. ASSUME NEW w PROVE w \in Writers <=> Writer(w) \in DOMAIN proc
    BY <1>1 DEF Writers, Writer
  <1>4. \A r, w : Reader(r) # Writer(w)
    BY DEF Reader, Writer
  <1>5. ASSUME NEW p \in DOMAIN proc
        PROVE  \/ p[1] = "reader" /\ p[2] \in Readers /\ p = Reader(p[2])
               \/ p[1] = "writer" /\ p[2] \in Writers /\ p = Writer(p[2])
    BY <1>1 DEF Readers, Writers, Reader, Writer
  <1> QED
    BY <1>2, <1>3, <1>4, <1>5

\* They stay the same while the utility runs.
LEMMA SameRanks ==
    ASSUME DOMAIN proc' = DOMAIN proc
    PROVE  Readers' = Readers /\ Writers' = Writers
  BY DEF Readers, Writers

-----------------------------------------------------------------------------
(* The ranks of a utility *)

\* One rank changes and the channels do not lose their form.
LEMMA OneRankKeeps ==
    ASSUME RanksOk, NEW p \in DOMAIN proc, NEW e, Rank(e), proc' = [proc EXCEPT ![p] = e],
           DOMAIN chan' = DOMAIN chan, \A c \in DOMAIN chan : Channel(chan'[c])
    PROVE  /\ RanksOk' /\ Readers' = Readers /\ Writers' = Writers
           /\ proc'[p] = e /\ \A q \in DOMAIN proc : q # p => proc'[q] = proc[q]
  <1>1. /\ DOMAIN proc' = DOMAIN proc /\ proc'[p] = e
        /\ \A q \in DOMAIN proc : q # p => proc'[q] = proc[q]
    OBVIOUS
  <1>2. Readers' = Readers /\ Writers' = Writers
    BY <1>1, SameRanks
  <1>3. \A q \in DOMAIN proc' : q = <<q[1], q[2]>> /\ q[1] \in {"reader", "writer"} /\ Rank(proc'[q])
    BY <1>1 DEF RanksOk
  <1>4. DOMAIN chan' = Readers' \X Writers' /\ \A c \in Readers' \X Writers' : Channel(chan'[c])
    BY <1>2 DEF RanksOk
  <1> QED
    BY <1>1, <1>2, <1>3, <1>4 DEF RanksOk, Rank, Channel

\* A step of a utility that keeps its ranks in order.
LEMMA ToolStepKeeps ==
    ASSUME MoveInv, UNCHANGED <<file, mdata, host, job, beyond>>,
           ~beyond => Running /\ ToolOk'
    PROVE  MoveInv'
  <1>1. CASE beyond
    BY <1>1 DEF MoveInv
  <1>2. CASE ~beyond
    <2>1. MdataOk' /\ Running'
      BY <1>2 DEF MoveInv, MdataOk, Running, HasChanged, IsMdata
    <2> QED
      BY <1>2, <2>1 DEF MoveInv, JobOk, IsMdata, HasChanged
  <1> QED
    BY <1>1, <1>2

\* A rank that has a pc runs for a utility.
LEMMA RanksRun ==
    ASSUME MoveInv, ~beyond, proc # NoProc
    PROVE  Running /\ ToolOk /\ RanksOk
  BY DEF MoveInv, JobOk, ToolOk

LEMMA MasterStays ==
    ASSUME Readers' = Readers, UNCHANGED job
    PROVE  StopMaster' = StopMaster
  BY DEF StopMaster

\* A reader sends a block, or finds that it has no more.
LEMMA ReaderPushesKeeps ==
    ASSUME MoveInv, NEW r \in Readers, ReaderPushes(r)
    PROVE  MoveInv'
  <1> SUFFICES ASSUME ~beyond PROVE ToolOk'
    BY ToolStepKeeps DEF ReaderPushes, Pushing, Running
  <1>1. Pushing /\ Running /\ ReaderPc(r) = "run" /\ UNCHANGED job
    BY DEF ReaderPushes, Pushing, Running, ReaderPc
  <1>2. ToolOk /\ RanksOk /\ PushOk
    BY <1>1 DEF MoveInv, JobOk, ToolOk
  <1>3. Reader(r) \in DOMAIN proc /\ Rank(proc[Reader(r)])
    BY <1>2, RanksAre DEF RanksOk
  <1>4. Sending
    BY <1>1, <1>2 DEF PushOk, Stopping
  <1>5. SUFFICES PushOk' /\ RanksOk'
    BY <1>1 DEF ToolOk, Pushing
  <1>6. PICK item, data : ReaderSends(r, item, data)
    BY DEF ReaderPushes
  <1>7. CASE data = <<>>
    <2> DEFINE e == [proc[Reader(r)] EXCEPT !.pc = "barrier"]
    <2>1. proc' = [proc EXCEPT ![Reader(r)] = e] /\ chan' = chan
      BY <1>6, <1>7 DEF ReaderSends
    <2>2. Rank(e) /\ e.pc = "barrier"
      BY <1>3 DEF Rank
    <2> HIDE DEF e
    <2>3. /\ RanksOk' /\ Readers' = Readers /\ Writers' = Writers
          /\ proc'[Reader(r)] = e /\ \A q \in DOMAIN proc : q # Reader(r) => proc'[q] = proc[q]
      BY <1>2, <1>3, <2>1, <2>2, OneRankKeeps DEF RanksOk
    <2>4. \A q \in Readers : ReaderPc(q)' = IF q = r THEN "barrier" ELSE ReaderPc(q)
      BY <1>2, <2>2, <2>3, RanksAre DEF ReaderPc, Reader
    <2>5. \A w \in Writers : WriterPc(w)' = WriterPc(w)
      BY <1>2, <2>3, RanksAre DEF WriterPc
    <2>6. Sending'
      BY <1>4, <2>1, <2>3, <2>4, <2>5 DEF Sending
    <2>7. StopMaster' \in Readers'
      BY <1>1, <1>2, <2>3, MasterStays DEF PushOk
    <2>8. \A q \in Readers' : ReaderPc(q)' = "blocked" => \E w \in Writers' : chan'[<<q, w>>] # <<>>
      BY <1>2, <2>1, <2>3, <2>4 DEF PushOk
    <2> QED
      BY <2>3, <2>6, <2>7, <2>8 DEF PushOk
  <1>8. CASE data # <<>>
    <2> DEFINE pc == IF Len(data) = BlockSize THEN "blocked" ELSE "run"
               e == [proc[Reader(r)] EXCEPT !.pos = item.pos, !.pc = pc]
               m == [stop |-> FALSE, offset |-> item.to.local_offset, data |-> data]
               c == <<r, item.to.serv>>
    <2>1. /\ proc' = [proc EXCEPT ![Reader(r)] = e]
          /\ chan' = [chan EXCEPT ![c] = Append(@, m)]
          /\ item.to.serv \in Writers
      BY <1>6, <1>8 DEF ReaderSends
    <2>2. Rank(e) /\ e.pc = pc /\ m.stop = FALSE
      BY <1>3 DEF Rank
    <2>3. c \in DOMAIN chan /\ c \in Readers \X Writers /\ Channel(chan[c])
      BY <1>2, <2>1 DEF RanksOk
    <2> HIDE DEF e, m, c
    <2>4. Channel(Append(chan[c], m)) /\ Append(chan[c], m) # <<>>
          /\ ToSet(Append(chan[c], m)) = ToSet(chan[c]) \cup {m}
      BY <2>2, <2>3, ChannelGrows
    <2>5. /\ DOMAIN chan' = DOMAIN chan /\ chan'[c] = Append(chan[c], m)
          /\ \A d \in DOMAIN chan : d # c => chan'[d] = chan[d]
      BY <2>1, <2>3
    <2>6. \A d \in DOMAIN chan : /\ Channel(chan'[d]) /\ (chan[d] # <<>> => chan'[d] # <<>>)
                                 /\ \A x \in ToSet(chan'[d]) : x \in ToSet(chan[d]) \/ x = m
      BY <1>2, <2>4, <2>5 DEF RanksOk
    <2>7. /\ RanksOk' /\ Readers' = Readers /\ Writers' = Writers
          /\ proc'[Reader(r)] = e /\ \A q \in DOMAIN proc : q # Reader(r) => proc'[q] = proc[q]
      BY <1>2, <1>3, <2>1, <2>2, <2>5, <2>6, OneRankKeeps
    <2>8. \A q \in Readers : ReaderPc(q)' = IF q = r THEN pc ELSE ReaderPc(q)
      BY <1>2, <2>2, <2>7, RanksAre DEF ReaderPc, Reader
    <2>9. \A w \in Writers : WriterPc(w)' = WriterPc(w)
      BY <1>2, <2>7, RanksAre DEF WriterPc
    <2>10. \A d \in Readers \X Writers : d \in DOMAIN chan
      BY <1>2 DEF RanksOk
    <2>11. Sending'
      <3>1. \A d \in Readers' \X Writers' : \A x \in ToSet(chan'[d]) : x.stop = FALSE
        BY <1>4, <2>2, <2>6, <2>7, <2>10 DEF Sending
      <3> QED
        BY <1>4, <2>7, <2>8, <2>9, <3>1 DEF Sending
    <2>12. StopMaster' \in Readers'
      BY <1>1, <1>2, <2>7, MasterStays DEF PushOk
    <2>13. ASSUME NEW q \in Readers, ReaderPc(q)' = "blocked" PROVE \E w \in Writers : chan'[<<q, w>>] # <<>>
      <3>1. CASE q = r
        BY <2>1, <2>4, <2>5, <3>1 DEF c
      <3>2. CASE q # r
        <4>1. PICK w \in Writers : chan[<<q, w>>] # <<>>
          BY <1>2, <2>8, <2>13, <3>2 DEF PushOk
        <4> QED
          BY <2>6, <2>10, <4>1
      <3> QED
        BY <3>1, <3>2
    <2> QED
      BY <2>7, <2>11, <2>12, <2>13 DEF PushOk
  <1> QED
    BY <1>7, <1>8

\* A writer takes a message: a stop ends it, a block lets its sender go on.
LEMMA WriterTakesKeeps ==
    ASSUME MoveInv, NEW w \in Writers, NEW r \in Readers, WriterTakes(w, r)
    PROVE  MoveInv'
  <1> SUFFICES ASSUME ~beyond PROVE ToolOk'
    BY ToolStepKeeps DEF WriterTakes, Pushing, Running
  <1> DEFINE c == <<r, w>>
             msg == Head(chan[c])
  <1>1. /\ Pushing /\ Running /\ WriterPc(w) = "run" /\ UNCHANGED job
        /\ chan[c] # <<>> /\ chan' = [chan EXCEPT ![c] = Tail(@)]
    BY DEF WriterTakes, Pushing, Running, WriterPc
  <1>2. ToolOk /\ RanksOk /\ PushOk
    BY <1>1 DEF MoveInv, JobOk, ToolOk
  <1>3. /\ Reader(r) \in DOMAIN proc /\ Rank(proc[Reader(r)])
        /\ Writer(w) \in DOMAIN proc /\ Rank(proc[Writer(w)])
        /\ Reader(r) # Writer(w)
    BY <1>2, RanksAre DEF RanksOk
  <1>4. c \in DOMAIN chan /\ c \in Readers \X Writers /\ Channel(chan[c])
    BY <1>2 DEF RanksOk
  <1>5. /\ Channel(Tail(chan[c])) /\ msg \in ToSet(chan[c])
        /\ ToSet(Tail(chan[c])) \subseteq ToSet(chan[c])
        /\ ToSet(chan[c]) \subseteq ToSet(Tail(chan[c])) \cup {msg}
    BY <1>1, <1>4, ChannelShrinks
  <1>6. msg = Stop \/ msg.stop = FALSE
    BY <1>4, <1>5 DEF Channel
  <1> HIDE DEF msg
  <1>7. /\ DOMAIN chan' = DOMAIN chan /\ chan'[c] = Tail(chan[c])
        /\ \A d \in DOMAIN chan : d # c => chan'[d] = chan[d]
    BY <1>1, <1>4
  <1>8. \A d \in DOMAIN chan : Channel(chan'[d]) /\ ToSet(chan'[d]) \subseteq ToSet(chan[d])
    BY <1>2, <1>5, <1>7 DEF RanksOk
  <1>9. \A d \in Readers \X Writers : d \in DOMAIN chan
    BY <1>2 DEF RanksOk
  <1>10. SUFFICES PushOk' /\ RanksOk'
    BY <1>1 DEF ToolOk, Pushing
  <1>11. CASE msg.stop
    <2>1. msg = Stop
      BY <1>6, <1>11
    <2>2. Stopping
      <3>1. ~Sending
        BY <1>4, <1>5, <2>1 DEF Sending, Stop
      <3> QED
        BY <1>2, <3>1 DEF PushOk
    <2> DEFINE e == [proc[Writer(w)] EXCEPT !.pc = "stopped"]
    <2>3. proc' = [proc EXCEPT ![Writer(w)] = e]
      BY <1>11 DEF WriterTakes, msg
    <2>4. Rank(e) /\ e.pc = "stopped"
      BY <1>3 DEF Rank
    <2> HIDE DEF e
    <2>5. /\ RanksOk' /\ Readers' = Readers /\ Writers' = Writers
          /\ proc'[Writer(w)] = e /\ \A q \in DOMAIN proc : q # Writer(w) => proc'[q] = proc[q]
      BY <1>2, <1>3, <1>7, <1>8, <2>3, <2>4, OneRankKeeps
    <2>6. \A q \in Readers : ReaderPc(q)' = ReaderPc(q)
      BY <1>2, <2>5, RanksAre DEF ReaderPc
    <2>7. \A v \in Writers : WriterPc(v)' = IF v = w THEN "stopped" ELSE WriterPc(v)
      BY <1>2, <2>4, <2>5, RanksAre DEF WriterPc, Writer
    <2>8. StopMaster' = StopMaster /\ StopMaster \in Readers
      BY <1>1, <1>2, <2>5, MasterStays DEF PushOk
    <2>9. ASSUME NEW v \in Writers, v # w PROVE chan'[<<StopMaster, v>>] = chan[<<StopMaster, v>>]
      BY <1>7, <1>9, <2>8, <2>9
    <2>10. Stopping'
      BY <2>2, <2>5, <2>6, <2>7, <2>8, <2>9 DEF Stopping
    <2>11. \A q \in Readers' : ReaderPc(q)' # "blocked"
      BY <2>2, <2>5, <2>6 DEF Stopping
    <2> QED
      BY <2>5, <2>8, <2>10, <2>11 DEF PushOk
  <1>12. CASE ~msg.stop
    <2> DEFINE back == [proc[Reader(r)] EXCEPT !.pc = IF @ = "blocked" THEN "run" ELSE @]
               free == [proc EXCEPT ![Reader(r)] = back]
    <2>1. proc' = free \/ proc' = [free EXCEPT ![Writer(w)].tmp = WriteAt(@, msg.offset, msg.data)]
      BY <1>12 DEF WriterTakes, msg
    <2>2. free[Writer(w)] = proc[Writer(w)]
      BY <1>3
    <2>3. /\ Rank(back)
          /\ back.pc = IF ReaderPc(r) = "blocked" THEN "run" ELSE ReaderPc(r)
      BY <1>3 DEF Rank, ReaderPc
    <2>4. /\ DOMAIN proc' = DOMAIN proc /\ proc'[Reader(r)] = back
          /\ Rank(proc'[Writer(w)]) /\ proc'[Writer(w)].pc = WriterPc(w)
          /\ \A q \in DOMAIN proc : q # Reader(r) /\ q # Writer(w) => proc'[q] = proc[q]
      <3> HIDE DEF back
      <3>1. CASE proc' = free
        BY <1>3, <2>2, <3>1 DEF WriterPc
      <3>2. CASE proc' = [free EXCEPT ![Writer(w)].tmp = WriteAt(@, msg.offset, msg.data)]
        <4>1. DOMAIN free = DOMAIN proc /\ free[Reader(r)] = back
              /\ \A q \in DOMAIN proc : q # Reader(r) => free[q] = proc[q]
          BY <1>3
        <4> HIDE DEF free
        <4>2. proc'[Writer(w)] = [proc[Writer(w)] EXCEPT !.tmp = WriteAt(@, msg.offset, msg.data)]
          BY <1>3, <2>2, <3>2, <4>1
        <4>3. Rank(proc'[Writer(w)]) /\ proc'[Writer(w)].pc = proc[Writer(w)].pc
          BY <1>3, <4>2 DEF Rank
        <4> QED
          BY <1>3, <3>2, <4>1, <4>3 DEF WriterPc
      <3> QED
        BY <2>1, <3>1, <3>2
    <2> HIDE DEF back, free
    <2>5. Readers' = Readers /\ Writers' = Writers
      BY <2>4, SameRanks
    <2>6. RanksOk'
      <3>1. \A q \in DOMAIN proc' : q = <<q[1], q[2]>> /\ q[1] \in {"reader", "writer"} /\ Rank(proc'[q])
        BY <1>2, <2>3, <2>4 DEF RanksOk
      <3> QED
        BY <1>2, <1>7, <1>8, <2>5, <3>1 DEF RanksOk, Rank, Channel
    <2>7. \A q \in Readers : ReaderPc(q)' = IF q = r /\ ReaderPc(r) = "blocked" THEN "run" ELSE ReaderPc(q)
      BY <1>2, <2>3, <2>4, RanksAre DEF ReaderPc, Reader
    <2>8. \A v \in Writers : WriterPc(v)' = WriterPc(v)
      BY <1>2, <2>4, RanksAre DEF WriterPc
    <2>9. StopMaster' = StopMaster /\ StopMaster \in Readers
      BY <1>1, <1>2, <2>5, MasterStays DEF PushOk
    <2>10. Sending => Sending'
      BY <1>8, <1>9, <2>5, <2>7, <2>8 DEF Sending
    <2>11. Stopping => Stopping'
      <3>1. msg # Stop
        BY <1>12 DEF Stop
      <3>2. ASSUME NEW v \in Writers, Stop \in ToSet(chan[<<StopMaster, v>>])
            PROVE  Stop \in ToSet(chan'[<<StopMaster, v>>])
        BY <1>5, <1>7, <1>9, <2>9, <3>1, <3>2
      <3> QED
        BY <2>5, <2>7, <2>8, <2>9, <3>2 DEF Stopping
    <2>12. ASSUME NEW q \in Readers, ReaderPc(q)' = "blocked"
           PROVE  \E v \in Writers : chan'[<<q, v>>] # <<>>
      <3>1. q # r /\ ReaderPc(q) = "blocked"
        BY <2>7, <2>12
      <3>2. PICK v \in Writers : chan[<<q, v>>] # <<>>
        BY <1>2, <3>1 DEF PushOk
      <3> QED
        BY <1>7, <1>9, <3>1, <3>2
    <2> QED
      BY <1>2, <2>5, <2>6, <2>9, <2>10, <2>11, <2>12 DEF PushOk
  <1> QED
    BY <1>11, <1>12

\* The readers have met, and their master stops every writer.
LEMMA ReadersStopKeeps ==
    ASSUME MoveInv, ReadersStop
    PROVE  MoveInv'
  <1> SUFFICES ASSUME ~beyond PROVE ToolOk'
    BY ToolStepKeeps DEF ReadersStop, Pushing, Running
  <1>1. Pushing /\ Running /\ UNCHANGED job
    BY DEF ReadersStop, Pushing, Running
  <1>2. ToolOk /\ RanksOk /\ PushOk
    BY <1>1 DEF MoveInv, JobOk, ToolOk
  <1>3. SUFFICES PushOk' /\ RanksOk'
    BY <1>1 DEF ToolOk, Pushing
  <1>4. Sending
    BY <1>2 DEF PushOk, Stopping, ReadersStop, ReadersMeet, ReaderPc
  <1>5. /\ DOMAIN proc' = DOMAIN proc
        /\ \A p \in DOMAIN proc : proc'[p] = IF p[1] = "reader" THEN [proc[p] EXCEPT !.pc = "unlink"] ELSE proc[p]
    BY DEF ReadersStop
  <1>6. Readers' = Readers /\ Writers' = Writers
    BY <1>5, SameRanks
  <1>7. StopMaster' = StopMaster /\ StopMaster \in Readers
    BY <1>1, <1>2, <1>6, MasterStays DEF PushOk
  <1>8. /\ DOMAIN chan' = DOMAIN chan
        /\ \A c \in DOMAIN chan : chan'[c] = IF c[1] = StopMaster THEN Append(chan[c], Stop) ELSE chan[c]
    BY DEF ReadersStop
  <1>9. ASSUME NEW c \in DOMAIN chan
        PROVE  Channel(chan'[c]) /\ (c[1] = StopMaster => Stop \in ToSet(chan'[c]))
    <2>1. Channel(chan[c])
      BY <1>2 DEF RanksOk
    <2>2. Channel(Append(chan[c], Stop)) /\ Stop \in ToSet(Append(chan[c], Stop))
      BY <2>1, ChannelGrows
    <2> QED
      BY <1>8, <2>1, <2>2
  <1>10. ASSUME NEW p \in DOMAIN proc PROVE Rank(proc'[p])
    <2>1. Rank(proc[p])
      BY <1>2 DEF RanksOk
    <2> QED
      BY <1>5, <2>1 DEF Rank
  <1>11. RanksOk'
    <2>1. \A q \in DOMAIN proc' : q = <<q[1], q[2]>> /\ q[1] \in {"reader", "writer"} /\ Rank(proc'[q])
      BY <1>2, <1>5, <1>10 DEF RanksOk
    <2> QED
      BY <1>2, <1>6, <1>8, <1>9, <2>1 DEF RanksOk, Rank, Channel
  <1>12. \A r \in Readers : ReaderPc(r)' = "unlink"
    <2>1. ASSUME NEW r \in Readers PROVE ReaderPc(r)' = "unlink"
      <3>1. Reader(r) \in DOMAIN proc /\ Reader(r)[1] = "reader" /\ Rank(proc[Reader(r)])
        BY <1>2, RanksAre DEF RanksOk, Reader
      <3> QED
        BY <1>5, <3>1 DEF Rank, ReaderPc
    <2> QED
      BY <2>1
  <1>13. \A w \in Writers : WriterPc(w)' = WriterPc(w)
    <2>1. \A w \in Writers : Writer(w) \in DOMAIN proc /\ Writer(w)[1] # "reader"
      BY <1>2, RanksAre DEF Writer
    <2> QED
      BY <1>5, <2>1 DEF WriterPc
  <1>14. \A w \in Writers : Stop \in ToSet(chan'[<<StopMaster, w>>])
    BY <1>2, <1>7, <1>9 DEF RanksOk
  <1> QED
    BY <1>4, <1>6, <1>7, <1>11, <1>12, <1>13, <1>14 DEF PushOk, Sending, Stopping

\* A rank removes or renames its file, or writes the header, and has done its part.
LEMMA RankEndsKeeps ==
    ASSUME MoveInv, NEW p, NEW e, proc' = [proc EXCEPT ![p] = e],
           UNCHANGED <<file, mdata, host, job, chan, beyond>>,
           Rank(proc[p]) => Rank(e) /\ e.pc = "done",
           \/ \E r \in Readers : p = Reader(r) /\ ReaderPc(r) = "unlink"
           \/ \E w \in Writers : p = Writer(w) /\ WriterPc(w) = "stopped"
    PROVE  MoveInv'
  <1>1. ~beyond => Running /\ ToolOk /\ RanksOk
    <2>1. Readers # {} \/ Writers # {}
      OBVIOUS
    <2>2. proc # NoProc
      BY <2>1 DEF NoProc, Readers, Writers
    <2> QED
      BY <2>2, RanksRun
  <1> SUFFICES ASSUME ~beyond PROVE ToolOk'
    BY <1>1, ToolStepKeeps
  <1>2. p \in DOMAIN proc /\ Rank(e) /\ e.pc = "done"
    <2>1. CASE \E r \in Readers : p = Reader(r)
      BY <1>1, <2>1, RanksAre DEF RanksOk
    <2>2. CASE \E w \in Writers : p = Writer(w)
      BY <1>1, <2>2, RanksAre DEF RanksOk
    <2> QED
      BY <2>1, <2>2
  <1>3. /\ RanksOk' /\ Readers' = Readers /\ Writers' = Writers
        /\ proc'[p] = e /\ \A q \in DOMAIN proc : q # p => proc'[q] = proc[q]
    BY <1>1, <1>2, OneRankKeeps DEF RanksOk
  <1>4. ASSUME NEW r \in Readers
        PROVE  \/ ReaderPc(r)' = ReaderPc(r)
               \/ ReaderPc(r) = "unlink" /\ ReaderPc(r)' = "done"
    <2>1. Reader(r) \in DOMAIN proc /\ Reader(r)[1] = "reader"
      BY <1>1, RanksAre DEF Reader
    <2>2. p = Reader(r) => ReaderPc(r) = "unlink"
      BY DEF Reader, Writer
    <2> QED
      BY <1>2, <1>3, <2>1, <2>2 DEF ReaderPc
  <1>5. ASSUME NEW w \in Writers
        PROVE  \/ WriterPc(w)' = WriterPc(w)
               \/ WriterPc(w) = "stopped" /\ WriterPc(w)' = "done"
    <2>1. Writer(w) \in DOMAIN proc /\ Writer(w)[1] = "writer"
      BY <1>1, RanksAre DEF Writer
    <2>2. p = Writer(w) => WriterPc(w) = "stopped"
      BY DEF Reader, Writer
    <2> QED
      BY <1>2, <1>3, <2>1, <2>2 DEF WriterPc
  <1>6. \/ \E r \in Readers : ReaderPc(r) = "unlink"
        \/ \E w \in Writers : WriterPc(w) = "stopped"
    BY <1>1, RanksAre DEF ReaderPc, WriterPc
  <1>7. ASSUME Pushing PROVE PushOk'
    <2>1. PushOk /\ Stopping
      BY <1>1, <1>6, <1>7 DEF ToolOk, PushOk, Sending
    <2>2. StopMaster' = StopMaster
      BY <1>3, MasterStays
    <2> QED
      BY <1>3, <1>4, <1>5, <2>1, <2>2 DEF PushOk, Stopping
  <1>8. ASSUME job.tool = "active_writer" PROVE PullOk'
    <2>1. PullOk /\ Ending
      BY <1>1, <1>6, <1>8 DEF ToolOk, PullOk, Answering
    <2> QED
      BY <1>3, <1>4, <1>5, <2>1 DEF PullOk, Ending
  <1>9. job.tool = "rebuild" => RoundOk'
    BY <1>1, <1>3, <1>4, <1>5 DEF ToolOk, RoundOk
  <1> QED
    BY <1>3, <1>7, <1>8, <1>9 DEF ToolOk, Pushing

\* A writer asks, or gets its answer.
LEMMA PullStepKeeps ==
    ASSUME MoveInv, NEW w \in Writers, NEW e, proc' = [proc EXCEPT ![Writer(w)] = e],
           UNCHANGED <<file, mdata, host, job, chan, beyond>>, job.tool = "active_writer",
           WriterPc(w) \in {"run", "asked"},
           Rank(proc[Writer(w)]) /\ proc[Writer(w)].pos \in Nat =>
               Rank(e) /\ e.pos \in Nat /\ e.pc \in {"run", "asked", "barrier"}
    PROVE  MoveInv'
  <1>1. ~beyond => Running /\ ToolOk /\ RanksOk /\ PullOk
    BY DEF MoveInv, JobOk, ToolOk, Running
  <1> SUFFICES ASSUME ~beyond PROVE ToolOk'
    BY <1>1, ToolStepKeeps
  <1>2. Writer(w) \in DOMAIN proc /\ Rank(proc[Writer(w)])
    BY <1>1, RanksAre DEF RanksOk
  <1>3. Answering
    BY <1>1 DEF PullOk, Ending
  <1>4. Rank(e) /\ e.pos \in Nat /\ e.pc \in {"run", "asked", "barrier"}
    BY <1>2, <1>3 DEF Answering
  <1>5. /\ RanksOk' /\ Readers' = Readers /\ Writers' = Writers
        /\ proc'[Writer(w)] = e /\ \A q \in DOMAIN proc : q # Writer(w) => proc'[q] = proc[q]
    BY <1>1, <1>2, <1>4, OneRankKeeps DEF RanksOk
  <1>6. \A r \in Readers : ReaderPc(r)' = ReaderPc(r)
    BY <1>1, <1>5, RanksAre DEF ReaderPc
  <1>7. \A v \in Writers : proc'[Writer(v)] = IF v = w THEN e ELSE proc[Writer(v)]
    BY <1>1, <1>5, RanksAre DEF Writer
  <1>8. Answering'
    BY <1>3, <1>4, <1>5, <1>6, <1>7 DEF Answering, WriterPc
  <1> QED
    BY <1>1, <1>5, <1>8 DEF ToolOk, Pushing, PullOk

LEMMA WriterAsksKeeps ==
    ASSUME MoveInv, NEW w \in Writers, WriterAsks(w)
    PROVE  MoveInv'
  <1> DEFINE e == [proc[Writer(w)] EXCEPT !.pc = "asked"]
  <1>1. proc' = [proc EXCEPT ![Writer(w)] = e]
    BY DEF WriterAsks
  <1>2. Rank(proc[Writer(w)]) /\ proc[Writer(w)].pos \in Nat =>
           Rank(e) /\ e.pos \in Nat /\ e.pc \in {"run", "asked", "barrier"}
    BY DEF Rank
  <1> HIDE DEF e
  <1> QED
    BY <1>1, <1>2, PullStepKeeps DEF WriterAsks, WriterPc

LEMMA ReaderAnswersKeeps ==
    ASSUME MoveInv, NEW r \in Readers, NEW w \in Writers, ReaderAnswers(r, w)
    PROVE  MoveInv'
  <1> DEFINE me == proc[Writer(w)]
             data == ReadAt(disk[proc[Reader(r)].host], AskedItem(w, me.pos).local_offset, BlockSize)
             e == IF data = <<>> THEN [me EXCEPT !.pc = "barrier"]
                  ELSE [me EXCEPT !.pc = "run", !.pos = @ + 1,
                                  !.tmp = WriteAt(@, me.pos * BlockSize, data)]
  <1>1. proc' = [proc EXCEPT ![Writer(w)] = e]
    BY Zenon DEF ReaderAnswers
  <1> HIDE DEF data
  <1>2. Rank(me) /\ me.pos \in Nat =>
           Rank(e) /\ e.pos \in Nat /\ e.pc \in {"run", "asked", "barrier"}
    <2>1. CASE data = <<>>
      BY <2>1 DEF Rank
    <2>2. CASE data # <<>>
      BY <2>2 DEF Rank
    <2> QED
      BY <2>1, <2>2
  <1> HIDE DEF e
  <1> QED
    BY <1>1, <1>2, PullStepKeeps DEF ReaderAnswers, WriterPc

\* All ranks go on together: the end of the pull, and the rounds of xpn_rebuild.
LEMMA AllRanksKeep ==
    ASSUME RanksOk, UNCHANGED chan, DOMAIN proc' = DOMAIN proc,
           \A p \in DOMAIN proc : Rank(proc[p]) => Rank(proc'[p])
    PROVE  RanksOk' /\ Readers' = Readers /\ Writers' = Writers
  <1>1. Readers' = Readers /\ Writers' = Writers
    BY SameRanks
  <1>2. \A q \in DOMAIN proc' : q = <<q[1], q[2]>> /\ q[1] \in {"reader", "writer"} /\ Rank(proc'[q])
    BY DEF RanksOk
  <1> QED
    BY <1>1, <1>2 DEF RanksOk, Rank, Channel

LEMMA WritersStopKeeps ==
    ASSUME MoveInv, WritersStop
    PROVE  MoveInv'
  <1>1. ~beyond => Running /\ ToolOk /\ RanksOk /\ PullOk
    BY DEF MoveInv, JobOk, ToolOk, Running, WritersStop
  <1> SUFFICES ASSUME ~beyond PROVE ToolOk'
    BY <1>1, ToolStepKeeps DEF WritersStop
  <1>2. /\ DOMAIN proc' = DOMAIN proc
        /\ \A p \in DOMAIN proc : proc'[p] = [proc[p] EXCEPT !.pc = IF p[1] = "reader" THEN "unlink" ELSE "stopped"]
    BY DEF WritersStop
  <1>3. \A p \in DOMAIN proc : Rank(proc[p]) => Rank(proc'[p])
    BY <1>2 DEF Rank
  <1>4. RanksOk' /\ Readers' = Readers /\ Writers' = Writers
    BY <1>1, <1>2, <1>3, AllRanksKeep DEF WritersStop
  <1>5. ASSUME NEW r \in Readers PROVE ReaderPc(r)' = "unlink"
    <2>1. Reader(r) \in DOMAIN proc /\ Reader(r)[1] = "reader" /\ Rank(proc[Reader(r)])
      BY <1>1, RanksAre DEF Reader, RanksOk
    <2> QED
      BY <1>2, <2>1 DEF ReaderPc, Rank
  <1>6. ASSUME NEW w \in Writers PROVE WriterPc(w)' = "stopped"
    <2>1. Writer(w) \in DOMAIN proc /\ Writer(w)[1] # "reader" /\ Rank(proc[Writer(w)])
      BY <1>1, RanksAre DEF Writer, RanksOk
    <2> QED
      BY <1>2, <2>1 DEF WriterPc, Rank
  <1>7. Ending'
    BY <1>4, <1>5, <1>6 DEF Ending
  <1> QED
    BY <1>1, <1>4, <1>7 DEF ToolOk, Pushing, PullOk, WritersStop

LEMMA RoundKeeps ==
    ASSUME MoveInv, Round
    PROVE  MoveInv'
  <1>1. ~beyond => Running /\ ToolOk /\ RanksOk /\ RoundOk
    BY DEF MoveInv, JobOk, ToolOk, Running, Round
  <1> SUFFICES ASSUME ~beyond PROVE ToolOk'
    BY <1>1, ToolStepKeeps DEF Round
  <1> DEFINE pos == proc[Reader(0)].pos
             Data(r) == ReadAt(disk[proc[Reader(r)].host], pos * BlockSize, BlockSize)
             Passed(w) == {r \in Readers : Data(r) # <<>> /\ RebuildItem(r, pos).to.serv = w}
             Put(t, r) == WriteAt(t, RebuildItem(r, pos).to.local_offset, Data(r))
             finish == \A r \in Readers : Data(r) = <<>>
             tmp(p) == FoldSet(LAMBDA r, t : Put(t, r), proc[p].tmp, Passed(p[2]))
  <1>2. proc' = [p \in DOMAIN proc |->
              IF p[1] = "reader"
              THEN [proc[p] EXCEPT !.pos = pos + 1, !.pc = IF finish THEN "unlink" ELSE "run"]
              ELSE [proc[p] EXCEPT !.tmp = tmp(p), !.pc = IF finish THEN "stopped" ELSE "run"]]
    BY Zenon DEF Round
  <1> HIDE DEF pos, Data, Passed, Put, finish, tmp
  <1>3. DOMAIN proc' = DOMAIN proc
    BY <1>2
  <1>4. ASSUME NEW p \in DOMAIN proc, Rank(proc[p])
        PROVE  Rank(proc'[p]) /\ proc'[p].pc \in (IF p[1] = "reader" THEN {"unlink", "run"} ELSE {"stopped", "run"})
    BY <1>2, <1>4 DEF Rank
  <1>5. RanksOk' /\ Readers' = Readers /\ Writers' = Writers
    BY <1>1, <1>3, <1>4, AllRanksKeep DEF Round
  <1>6. ASSUME NEW r \in Readers PROVE ReaderPc(r)' \in {"unlink", "run"}
    <2>1. Reader(r) \in DOMAIN proc /\ Reader(r)[1] = "reader" /\ Rank(proc[Reader(r)])
      BY <1>1, RanksAre DEF Reader, RanksOk
    <2> QED
      BY <1>4, <2>1 DEF ReaderPc
  <1>7. ASSUME NEW w \in Writers PROVE WriterPc(w)' \in {"stopped", "run"}
    <2>1. Writer(w) \in DOMAIN proc /\ Writer(w)[1] # "reader" /\ Rank(proc[Writer(w)])
      BY <1>1, RanksAre DEF Writer, RanksOk
    <2> QED
      BY <1>4, <2>1 DEF WriterPc
  <1> QED
    BY <1>5, <1>6, <1>7 DEF ToolOk, Pushing, RoundOk, Round

-----------------------------------------------------------------------------
(* A utility begins *)

LEMMA Started ==
    ASSUME NEW readers, NEW writers, Start(readers, writers)
    PROVE  /\ RanksOk' /\ Readers' = DOMAIN readers /\ Writers' = DOMAIN writers
           /\ \A r \in Readers' : ReaderPc(r)' = "run"
           /\ \A w \in Writers' : WriterPc(w)' = "run" /\ proc'[Writer(w)].pos = 0
           /\ \A c \in Readers' \X Writers' : chan'[c] = <<>>
  <1> DEFINE P == {Reader(r) : r \in DOMAIN readers} \cup {Writer(w) : w \in DOMAIN writers}
  <1>1. /\ DOMAIN proc' = P /\ chan' = [c \in (DOMAIN readers) \X (DOMAIN writers) |-> <<>>]
        /\ \A p \in P : Rank(proc'[p]) /\ proc'[p].pc = "run" /\ proc'[p].pos = 0
    BY DEF Start, Rank
  <1>2. \A p \in P : p = <<p[1], p[2]>> /\ p[1] \in {"reader", "writer"}
    BY DEF Reader, Writer
  <1>3. Readers' = DOMAIN readers
    <2>1. ASSUME NEW r \in DOMAIN readers PROVE r \in Readers'
      <3>1. Reader(r) \in DOMAIN proc' /\ Reader(r)[1] = "reader" /\ Reader(r)[2] = r
        BY <1>1 DEF Reader
      <3> QED
        BY <3>1 DEF Readers
    <2>2. ASSUME NEW r \in Readers' PROVE r \in DOMAIN readers
      <3>1. PICK p \in P : p[1] = "reader" /\ r = p[2]
        BY <1>1, <2>2 DEF Readers
      <3> QED
        BY <3>1 DEF Reader, Writer
    <2> QED
      BY <2>1, <2>2
  <1>4. Writers' = DOMAIN writers
    <2>1. ASSUME NEW w \in DOMAIN writers PROVE w \in Writers'
      <3>1. Writer(w) \in DOMAIN proc' /\ Writer(w)[1] = "writer" /\ Writer(w)[2] = w
        BY <1>1 DEF Writer
      <3> QED
        BY <3>1 DEF Writers
    <2>2. ASSUME NEW w \in Writers' PROVE w \in DOMAIN writers
      <3>1. PICK p \in P : p[1] = "writer" /\ w = p[2]
        BY <1>1, <2>2 DEF Writers
      <3> QED
        BY <3>1 DEF Reader, Writer
    <2> QED
      BY <2>1, <2>2
  <1>5. DOMAIN chan' = Readers' \X Writers' /\ \A c \in Readers' \X Writers' : chan'[c] = <<>>
    BY <1>1, <1>3, <1>4
  <1>6. Channel(<<>>)
    <2>1. ToSet(<<>>) = {}
      BY DEF ToSet
    <2> QED
      BY <2>1 DEF Channel
  <1>7. RanksOk'
    BY <1>1, <1>2, <1>5, <1>6 DEF RanksOk, Rank, Channel
  <1>8. \A r \in Readers' : ReaderPc(r)' = "run"
    BY <1>1, <1>3 DEF ReaderPc
  <1>9. \A w \in Writers' : WriterPc(w)' = "run" /\ proc'[Writer(w)].pos = 0
    BY <1>1, <1>4 DEF WriterPc
  <1> QED
    BY <1>3, <1>4, <1>5, <1>7, <1>8, <1>9

\* The servers a file whose servers never changed has.
LEMMA FirstServers ==
    ASSUME MoveInv, ~beyond, Stored, ~HasChanged(mdata)
    PROVE  /\ file.n \in Nat \ {0} /\ N = file.n
           /\ IsMdata(mdata) /\ DOMAIN host = 0..(file.n - 1)
  <1>1. file.n \in Nat \ {0}
    BY MovementAssumption DEF MoveInv
  <1>2. IsMdata(mdata) /\ mdata.data_nserv = [Zeros EXCEPT ![0] = file.n]
    BY DEF MoveInv, MdataOk, Stored
  <1>3. job.tool # "rebuilt"
    BY DEF Stored, Idle
  <1> QED
    BY <1>1, <1>2, <1>3, UnchangedServers DEF N, MoveInv, MdataOk

LEMMA ShrinkBeginsKeeps ==
    ASSUME MoveInv, NEW gone \in ShrinkLists, ShrinkBegins(gone)
    PROVE  MoveInv'
  <1> SUFFICES ASSUME ~beyond' PROVE MdataOk' /\ JobOk'
    BY DEF MoveInv, ShrinkBegins
  <1>1. ~beyond /\ ~HasChanged(mdata) /\ Stored
    BY DEF ShrinkBegins
  <1>2. /\ N \in Nat \ {0} /\ IsMdata(mdata) /\ DOMAIN host = 0..(N - 1)
        /\ gone \in Seq(Nat) /\ gone # <<>> /\ Range(gone) \subseteq 0..(N - 1)
    BY <1>1, FirstServers, MovementAssumption DEF ShrinkBegins
  <1>3. gone[1] \in 0..(N - 1)
    BY <1>2 DEF Range
  <1> DEFINE md == ShrinkMetadata(mdata, N, gone)
             trans == TransRank(N, gone)
  <1>4. IsMdata(md) /\ HasChanged(md)
    BY <1>2, <1>3, ShrinkRecorded
  <1>5. PICK writers : Start([s \in Range(gone) |-> host[s]], writers)
    BY DEF ShrinkBegins
  <1>6. job' = [tool |-> "shrink", md |-> md, trans |-> trans] /\ UNCHANGED <<file, mdata, host>>
    BY DEF ShrinkBegins
  <1>7. Min({r \in Range(gone) : trans[r] = -1}) \in Range(gone)
    BY <1>2, OneIsMaster
  <1> HIDE DEF md, trans
  <1>8. /\ "tool" \in DOMAIN job' /\ job'.tool = "shrink" /\ job'.md = md /\ job'.trans = trans
    BY <1>6
  <1>9. /\ RanksOk' /\ Readers' = Range(gone)
        /\ \A r \in Readers' : ReaderPc(r)' = "run"
        /\ \A w \in Writers' : WriterPc(w)' = "run"
        /\ \A c \in Readers' \X Writers' : chan'[c] = <<>>
    BY <1>5, Started
  <1>10. StopMaster' \in Readers'
    BY <1>7, <1>8, <1>9 DEF StopMaster
  <1>11. Sending'
    BY <1>9 DEF Sending, ToSet
  <1>12. PushOk'
    BY <1>9, <1>10, <1>11 DEF PushOk
  <1>13. ToolOk' /\ Running'
    BY <1>8, <1>9, <1>12 DEF ToolOk, Pushing, Running
  <1>14. MdataOk'
    BY <1>1, <1>6, <1>8 DEF MoveInv, MdataOk, IsMdata, HasChanged, Stored, Idle
  <1> QED
    BY <1>4, <1>8, <1>13, <1>14 DEF JobOk, IsMdata, HasChanged

LEMMA RebuildBeginsKeeps ==
    ASSUME MoveInv, NEW new \in RebuildLists,
           NEW tool \in {"rebuild", "active_reader", "active_writer"}, RebuildBegins(tool, new)
    PROVE  MoveInv'
  <1> SUFFICES ASSUME ~beyond' PROVE MdataOk' /\ JobOk'
    BY DEF MoveInv, RebuildBegins
  <1>1. ~beyond /\ ~HasChanged(mdata) /\ Stored
    BY DEF RebuildBegins
  <1>2. /\ N \in Nat \ {0} /\ DOMAIN host = 0..(N - 1)
        /\ Len(new) \in Nat
    BY <1>1, FirstServers, MovementAssumption
  <1> DEFINE n == N
  <1>3. job' = [tool |-> tool, old_size |-> n, new_size |-> Len(new)] /\ UNCHANGED <<file, mdata, host>>
    BY DEF RebuildBegins
  <1>4. Start(host, [w \in 0..(Len(new) - 1) |-> new[w + 1]])
    BY DEF RebuildBegins
  <1> HIDE DEF n
  <1>5. /\ "tool" \in DOMAIN job' /\ job'.tool = tool /\ job'.old_size = n /\ job'.new_size = Len(new)
    BY <1>3
  <1>6. n \in Nat \ {0} /\ DOMAIN host = 0..(n - 1)
    BY <1>2 DEF n
  <1>7. /\ RanksOk' /\ Readers' = 0..(n - 1) /\ Writers' = 0..(Len(new) - 1)
        /\ \A r \in Readers' : ReaderPc(r)' = "run"
        /\ \A w \in Writers' : WriterPc(w)' = "run" /\ proc'[Writer(w)].pos = 0
        /\ \A c \in Readers' \X Writers' : chan'[c] = <<>>
    BY <1>4, <1>6, Started
  <1>8. ASSUME tool = "active_reader" PROVE PushOk'
    <2>1. StopMaster' \in Readers'
      BY <1>5, <1>6, <1>7, <1>8 DEF StopMaster
    <2>2. Sending'
      BY <1>7 DEF Sending, ToSet
    <2> QED
      BY <1>7, <2>1, <2>2 DEF PushOk
  <1>9. PullOk'
    BY <1>2, <1>5, <1>6, <1>7 DEF PullOk, Answering
  <1>10. RoundOk'
    BY <1>7 DEF RoundOk
  <1>11. ToolOk' /\ Running'
    BY <1>5, <1>7, <1>8, <1>9, <1>10 DEF ToolOk, Pushing, Running
  <1>12. MdataOk'
    BY <1>1, <1>3, <1>5 DEF MoveInv, MdataOk, IsMdata, HasChanged, Stored, Idle
  <1> QED
    BY <1>5, <1>11, <1>12 DEF JobOk

-----------------------------------------------------------------------------
(* Between the utilities *)

\* A step with no ranks that leaves the servers as they are.
LEMMA NoRankStepKeeps ==
    ASSUME MoveInv, UNCHANGED <<file, mdata, host, proc, chan, beyond>>, ~Running,
           job.tool # "rebuilt", job'.tool \in {"none", "flush", "flushed"}, "tool" \in DOMAIN job'
    PROVE  MoveInv'
  <1> SUFFICES ASSUME ~beyond PROVE MdataOk' /\ JobOk'
    BY DEF MoveInv
  <1>1. MdataOk'
    BY DEF MoveInv, MdataOk, IsMdata, HasChanged
  <1>2. proc' = NoProc /\ chan' = NoProc /\ ~Running'
    BY DEF MoveInv, JobOk, Running
  <1> QED
    BY <1>1, <1>2 DEF JobOk

LEMMA PreloadKeeps ==
    ASSUME MoveInv, NEW r, Preload(r)
    PROVE  MoveInv'
  <1> SUFFICES ASSUME ~beyond PROVE MdataOk' /\ JobOk'
    BY DEF MoveInv, Preload
  <1>1. /\ job.tool = "preload" /\ mdata = NoMdata /\ UNCHANGED <<file, host, proc, chan>>
        /\ "tool" \in DOMAIN job /\ file.n \in Nat \ {0}
    BY MovementAssumption DEF Preload, MoveInv, JobOk
  <1>2. DOMAIN host = 0..(file.n - 1)
    BY <1>1 DEF MoveInv, MdataOk
  <1>3. proc' = NoProc /\ chan' = NoProc
    BY <1>1 DEF MoveInv, JobOk, Running
  <1>4. CASE job.todo = {r}
    <2>1. mdata' = PreloadMetadata /\ job' = Idle
      BY <1>4 DEF Preload
    <2>2. IsMdata(PreloadMetadata) /\ PreloadMetadata.data_nserv = [Zeros EXCEPT ![0] = file.n]
      BY MaxReconstructionsAssumption DEF PreloadMetadata, CreateMetadata, IsMdata, Zeros
    <2>3. MdataOk'
      BY <1>1, <1>2, <2>1, <2>2 DEF MdataOk, IsMdata, HasChanged, Zeros
    <2> QED
      BY <1>3, <2>1, <2>3 DEF JobOk, Running, Idle
  <1>5. CASE job.todo # {r}
    <2>1. mdata' = mdata /\ job' = [job EXCEPT !.todo = @ \ {r}]
      BY <1>5 DEF Preload
    <2>2. "tool" \in DOMAIN job' /\ job'.tool = "preload"
      BY <1>1, <2>1
    <2> QED
      BY <1>1, <1>2, <1>3, <2>1, <2>2 DEF JobOk, Running, MdataOk
  <1> QED
    BY <1>4, <1>5

LEMMA AppendKeeps ==
    ASSUME MoveInv, NEW size, Append_(size)
    PROVE  MoveInv'
  <1> SUFFICES ASSUME ~beyond PROVE MdataOk' /\ JobOk'
    BY DEF MoveInv, Append_
  <1>1. /\ Stored /\ mdata' = [mdata EXCEPT !.file_size = size]
        /\ UNCHANGED <<file, host, job, proc, chan>>
    BY DEF Append_
  <1>2. IsMdata(mdata) /\ mdata # NoMdata /\ job.tool = "none"
    BY <1>1 DEF MoveInv, MdataOk, Stored, Idle
  <1>3. mdata'.data_nserv = mdata.data_nserv /\ "data_nserv" \in DOMAIN mdata'
    BY <1>1, <1>2 DEF IsMdata
  <1>4. mdata' # NoMdata /\ IsMdata(mdata') /\ HasChanged(mdata') = HasChanged(mdata)
    BY <1>2, <1>3 DEF IsMdata, HasChanged, NoMdata
  <1>5. MdataOk'
    BY <1>1, <1>2, <1>3, <1>4 DEF MoveInv, MdataOk, IsMdata, HasChanged
  <1> QED
    BY <1>1, <1>2, <1>5 DEF MoveInv, JobOk, Running

LEMMA ExpandKeeps ==
    ASSUME MoveInv, NEW hosts \in ExpandLists, Expand(hosts)
    PROVE  MoveInv'
  <1> SUFFICES ASSUME ~beyond' PROVE MdataOk' /\ JobOk'
    BY DEF MoveInv, Expand
  <1> DEFINE md == ExpandMetadata(mdata, N + Len(hosts))
  <1>1. Stored /\ ~beyond /\ mdata' = md /\ UNCHANGED <<file, job, proc, chan>>
    BY DEF Expand
  <1>2. IsMdata(mdata) /\ job.tool = "none"
    BY <1>1 DEF MoveInv, MdataOk, Stored, Idle
  <1>3. IsMdata(md) /\ HasChanged(md)
    <2>1. CASE HasChanged(mdata)
      BY <1>2, <2>1, ExpandRecorded
    <2>2. CASE ~HasChanged(mdata)
      <3>1. N \in Nat \ {0} /\ Len(hosts) \in Nat
        BY <1>1, <2>2, FirstServers, MovementAssumption
      <3>2. N + Len(hosts) \in Nat \ {0}
        BY <3>1
      <3> QED
        BY <1>2, <3>2, ExpandRecorded
    <2> QED
      BY <2>1, <2>2
  <1> HIDE DEF md
  <1>4. md # NoMdata
    BY <1>3 DEF IsMdata, NoMdata
  <1>5. MdataOk'
    BY <1>1, <1>3, <1>4 DEF MdataOk, IsMdata, HasChanged
  <1> QED
    BY <1>1, <1>2, <1>5 DEF MoveInv, JobOk, Running

LEMMA JobEndsKeeps ==
    ASSUME MoveInv, JobEnds
    PROVE  MoveInv'
  <1>1. ~beyond => Running /\ ToolOk
    BY RanksRun DEF JobEnds, NoProc
  <1> SUFFICES ASSUME ~beyond PROVE MdataOk' /\ JobOk'
    BY DEF MoveInv, JobEnds
  <1>2. proc' = NoProc /\ chan' = NoProc /\ file' = file
    BY DEF JobEnds
  <1>3. CASE job.tool = "shrink"
    <2>1. mdata' = job.md /\ job' = Idle
      BY <1>3 DEF JobEnds
    <2>2. IsMdata(job.md) /\ HasChanged(job.md)
      BY <1>3 DEF MoveInv, JobOk
    <2>3. MdataOk'
      BY <2>1, <2>2 DEF MdataOk, IsMdata, HasChanged, NoMdata
    <2> QED
      BY <1>2, <2>1, <2>3 DEF JobOk, Idle, Running
  <1>4. CASE job.tool # "shrink"
    <2>1. mdata' = mdata /\ job' = [tool |-> "rebuilt"]
      BY <1>4 DEF JobEnds
    <2>2. job'.tool = "rebuilt" /\ "tool" \in DOMAIN job'
      BY <2>1
    <2>3. MdataOk'
      BY <1>2, <2>1, <2>2 DEF MoveInv, MdataOk, IsMdata, HasChanged
    <2> QED
      BY <1>2, <2>2, <2>3 DEF JobOk, Running
  <1> QED
    BY <1>3, <1>4

-----------------------------------------------------------------------------
(* The theorem *)

LEMMA MoveInvInit ==
    ASSUME Init PROVE MoveInv
  <1>1. file.n \in Nat \ {0} /\ DOMAIN host = 0..(file.n - 1)
    BY MovementAssumption DEF Init
  <1>2. MdataOk
    BY <1>1 DEF Init, MdataOk
  <1>3. JobOk
    BY DEF Init, JobOk, Running
  <1> QED
    BY <1>2, <1>3 DEF Init, MoveInv

LEMMA MoveInvStutters ==
    ASSUME MoveInv, UNCHANGED vars PROVE MoveInv'
  BY ZenonT(60) DEF vars, MoveInv, MdataOk, JobOk, ToolOk, RanksOk, PushOk, PullOk, RoundOk, Sending, Stopping,
         Answering, Ending, Running, Pushing, Readers, Writers, ReaderPc, WriterPc, StopMaster,
         IsMdata, HasChanged, Rank, Channel

\* A block of a new server is looked for on one of the old ones.
LEMMA AskedIsReader ==
    ASSUME file \in Files, job.old_size \in Nat \ {0}, job.new_size \in Nat,
           NEW w \in 0..(job.new_size - 1), NEW pos \in Nat
    PROVE  AskedItem(w, pos).serv \in 0..(job.old_size - 1)
  <1> DEFINE bs == BlockSize
             rl == file.rl
             n == job.old_size
             m == job.new_size
             local == pos * BlockSize
             of == CalculateBlockInvert(bs, rl, m, w, local, 0)
             p == BlockReplication(rl, of.offset \div bs, of.replication)
  <1>1. /\ bs \in Nat \ {0} /\ rl \in Nat /\ n \in Nat \ {0} /\ m \in Nat \ {0}
        /\ local \in Nat /\ 0 \in 0..(m - 1) /\ 0 \in 0..(n - 1) /\ w \in 0..(m - 1)
    BY MovementAssumption
  <1>2. AskedItem(w, pos).serv = ServerOf(n, 0, p)
    BY DEF AskedItem, CalculateBlock
  <1> HIDE DEF bs, rl, n, m, local, p
  <1>3. of.offset \in Nat /\ of.replication \in 0..rl
    BY <1>1, CalculateOfInvert
  <1> HIDE DEF of
  <1>4. of.offset \div bs \in Nat
    BY <1>1, <1>3, DivideParts
  <1>5. p \in Nat
    <2> DEFINE b == of.offset \div bs
    <2> HIDE DEF b
    <2>1. b \in Nat /\ p = b * (rl + 1) + of.replication
      BY <1>4 DEF p, BlockReplication, b
    <2> QED
      BY <1>1, <1>3, <2>1
  <1>6. ServerOf(n, 0, p) \in 0..(n - 1)
    BY <1>1, <1>5, ServerOfPosition
  <1> QED
    BY <1>2, <1>6 DEF n

LEMMA MoveInvNext ==
    ASSUME MoveInv, Next PROVE MoveInv'
  <1>1. ASSUME NEW r \in DOMAIN host, Preload(r) PROVE MoveInv'
    BY <1>1, PreloadKeeps
  <1>2. ASSUME NEW r \in DOMAIN host, FlushRank(r) PROVE MoveInv'
    <2>1. ~beyond => "tool" \in DOMAIN job
      BY DEF MoveInv, JobOk
    <2>2. ~beyond => job'.tool \in {"flush", "flushed"} /\ "tool" \in DOMAIN job'
      BY <1>2, <2>1 DEF FlushRank
    <2>3. job.tool = "flush" /\ UNCHANGED <<file, mdata, host, proc, chan, beyond>>
      BY <1>2 DEF FlushRank
    <2>4. beyond => MoveInv'
      BY <2>3 DEF MoveInv
    <2> QED
      BY <2>2, <2>3, <2>4, NoRankStepKeeps DEF Running
  <1>3. ASSUME NEW r \in Readers, ReaderPushes(r) PROVE MoveInv'
    BY <1>3, ReaderPushesKeeps
  <1>4. ASSUME NEW r \in Readers, ReaderUnlinks(r) PROVE MoveInv'
    <2> DEFINE e == [proc[Reader(r)] EXCEPT !.pc = "done"]
    <2>1. /\ proc' = [proc EXCEPT ![Reader(r)] = e] /\ ReaderPc(r) = "unlink"
          /\ UNCHANGED <<file, mdata, host, job, chan, beyond>>
      BY <1>4 DEF ReaderUnlinks, ReaderPc
    <2>2. Rank(proc[Reader(r)]) => Rank(e) /\ e.pc = "done"
      BY DEF Rank
    <2> HIDE DEF e
    <2> QED
      BY <2>1, <2>2, RankEndsKeeps
  <1>5. ASSUME NEW w \in Writers, WriterRenames(w) PROVE MoveInv'
    <2> DEFINE e == [proc[Writer(w)] EXCEPT !.pc = "done", !.tmp = <<>>]
    <2>1. /\ proc' = [proc EXCEPT ![Writer(w)] = e] /\ WriterPc(w) = "stopped"
          /\ UNCHANGED <<file, mdata, host, job, chan, beyond>>
      BY <1>5 DEF WriterRenames, WriterPc
    <2>2. Rank(proc[Writer(w)]) => Rank(e) /\ e.pc = "done"
      BY DEF Rank
    <2> HIDE DEF e
    <2> QED
      BY <2>1, <2>2, RankEndsKeeps
  <1>6. ASSUME NEW w \in Writers, WriterPutsMdata(w) PROVE MoveInv'
    <2> DEFINE e == [proc[Writer(w)] EXCEPT !.pc = "done"]
    <2>1. /\ proc' = [proc EXCEPT ![Writer(w)] = e] /\ WriterPc(w) = "stopped"
          /\ UNCHANGED <<file, mdata, host, job, chan, beyond>>
      BY <1>6 DEF WriterPutsMdata, WriterPc
    <2>2. Rank(proc[Writer(w)]) => Rank(e) /\ e.pc = "done"
      BY DEF Rank
    <2> HIDE DEF e
    <2> QED
      BY <2>1, <2>2, RankEndsKeeps
  <1>7. ASSUME NEW r \in Readers, NEW w \in Writers,
               WriterTakes(w, r) \/ ReaderAnswers(r, w) \/ WriterAsks(w)
        PROVE  MoveInv'
    BY <1>7, WriterTakesKeeps, ReaderAnswersKeeps, WriterAsksKeeps
  <1>8. ASSUME NEW w \in Writers, WriterAsks(w) PROVE MoveInv'
    BY <1>8, WriterAsksKeeps
  <1>9. ASSUME Steps PROVE MoveInv'
    BY <1>1, <1>2, <1>3, <1>4, <1>5, <1>6, <1>7, <1>8, <1>9,
       ReadersStopKeeps, WritersStopKeeps, RoundKeeps, JobEndsKeeps DEF Steps
  <1>10. ASSUME FlushBegins \/ FlushGivesUp PROVE MoveInv'
    <2>1. /\ job = Idle /\ UNCHANGED <<file, mdata, host, proc, chan, beyond>>
          /\ job' = job \/ \E todo, md : job' = [tool |-> "flush", todo |-> todo, md |-> md]
      BY <1>10, Zenon DEF FlushBegins, FlushGivesUp, Stored
    <2>2. job.tool = "none" /\ "tool" \in DOMAIN job' /\ job'.tool \in {"none", "flush"}
      BY <2>1 DEF Idle
    <2> QED
      BY <2>1, <2>2, NoRankStepKeeps DEF Running
  <1>11. ASSUME Finished PROVE MoveInv'
    <2>1. UNCHANGED vars
      BY <1>11 DEF Finished
    <2> QED
      BY <2>1, MoveInvStutters
  <1> QED
    BY <1>9, <1>10, <1>11, AppendKeeps, ExpandKeeps, ShrinkBeginsKeeps, RebuildBeginsKeeps DEF Next

\* The ranks of the utilities are always in order.
THEOREM AlwaysMoveInv == Spec => []MoveInv
  <1>1. MoveInv /\ [Next]_vars => MoveInv'
    BY MoveInvNext, MoveInvStutters
  <1> QED
    BY <1>1, MoveInvInit, PTL DEF Spec

\* No rank waits for what never comes (NobodyLeftWaiting): for any number of servers
\* before and after, of replicas and of blocks, and however the readers and writers of
\* xpn_shrink and of the variants of xpn_rebuild interleave, a send that has not
\* returned has its message before a writer that takes messages, a writer that takes
\* messages will be stopped, and a writer that asks has asked a reader that answers.
THEOREM MovementNobodyLeftWaiting == Spec => []NobodyLeftWaiting
  <1>1. ASSUME MoveInv PROVE NobodyLeftWaiting
    <2> SUFFICES ASSUME ~beyond
                 PROVE  /\ \A r \in Readers : ReaderPc(r) = "blocked" =>
                             \E w \in Writers : chan[<<r, w>>] # <<>> /\ WriterPc(w) = "run"
                        /\ \A w \in Writers : (Pushing /\ WriterPc(w) = "run") =>
                             \E r \in Readers : \/ ReaderPc(r) \in {"run", "blocked", "barrier"}
                                                \/ Stop \in ToSet(chan[<<r, w>>])
                        /\ \A w \in Writers : WriterPc(w) = "asked" =>
                             ReaderPc(AskedItem(w, proc[Writer(w)].pos).serv) = "run"
      BY DEF NobodyLeftWaiting, ReaderPc, WriterPc
    <2>1. CASE ~Running
      <3>1. Readers = {} /\ Writers = {}
        BY <1>1, <2>1 DEF MoveInv, JobOk, NoProc, Readers, Writers
      <3> QED
        BY <3>1
    <2>2. CASE Pushing
      <3>1. PushOk
        BY <1>1, <2>2 DEF MoveInv, JobOk, ToolOk, Running, Pushing
      <3> QED
        BY <3>1 DEF PushOk, Sending, Stopping
    <2>3. CASE job.tool = "active_writer"
      <3>1. PullOk
        BY <1>1, <2>3 DEF MoveInv, JobOk, ToolOk, Running
      <3>2. ASSUME NEW w \in Writers, Answering
            PROVE  AskedItem(w, proc[Writer(w)].pos).serv \in Readers
        BY <1>1, <3>1, <3>2, AskedIsReader DEF MoveInv, PullOk, Answering
      <3> QED
        BY <2>3, <3>1, <3>2 DEF PullOk, Answering, Ending, Pushing
    <2>4. CASE job.tool = "rebuild"
      <3>1. RoundOk
        BY <1>1, <2>4 DEF MoveInv, JobOk, ToolOk, Running
      <3> QED
        BY <2>4, <3>1 DEF RoundOk, Pushing
    <2> QED
      BY <2>1, <2>2, <2>3, <2>4 DEF Running, Pushing
  <1> QED
    BY <1>1, AlwaysMoveInv, PTL

-----------------------------------------------------------------------------
(* The walk over the tree.  The ranks of a utility are in step although each *)
(* goes its own way between two collectives: there is one sequence of        *)
(* collectives for all, and a function T from the number of collectives left *)
(* behind to the place in the walk (Track), such that the calls of list() a  *)
(* rank is in and the operations it still has to do are those of the place   *)
(* T[passed[r]] (RankOk).  The first rank that leaves a collective settles   *)
(* what comes after it; the others find the same there.                      *)

Things == util.dirs \cup util.files

\* The sets that the records are in.
WalkRoots == {MasterOf(p) : p \in Things} \cup {-1, 0}
WalkOps == [kind : Collectives \cup {"creat", "open", "copy", "spin", "list", "exit"},
            root : WalkRoots, value : Things \cup {End}]
Frames == [dir : util.dirs, at : {"open", "read", "close"}, left : SUBSET Things]
Meetings == [kind : Collectives, root : WalkRoots, value : Things \cup {End}, in : SUBSET Ranks]
Places == [todo : Seq(WalkOps), dirs : Seq(util.dirs), over : BOOLEAN,
           sent : SUBSET Things, got : SUBSET Things, done : SUBSET util.dirs]

WalkType ==
    /\ stack \in [Ranks -> Seq(Frames)] /\ ops \in [Ranks -> Seq(WalkOps)]
    /\ passed \in [Ranks -> Nat] /\ inside \in [Ranks -> BOOLEAN] /\ net \in Seq(Meetings)
    /\ has \in [ToSet(util.hosts) -> SUBSET Things] /\ outside \subseteq Things
    /\ copied \in [Ranks -> SUBSET Things] /\ skipped \subseteq Things

-----------------------------------------------------------------------------
(* The walk of the utility as a whole: where any rank is that has left the   *)
(* first k collectives.                                                      *)

WalkStart == [todo |-> <<>>, dirs |-> IF util.tool = "preload" THEN <<>> ELSE <<Root>>, over |-> FALSE,
              sent |-> {}, got |-> {}, done |-> {}]

\* The collectives that all ranks do for an entry.
Colls(path) ==
    CASE util.tool = "flush" -> IF IsDir(path) THEN <<Barrier>> ELSE <<Ready(path), Barrier, Header(path)>>
      [] util.tool = "rebuild" -> IF IsDir(path) THEN <<Barrier, Header(path), Barrier>>
                                  ELSE <<Barrier, Header(path), Exchange, Barrier>>
      [] util.tool \in {"active_reader", "active_writer"} ->
           IF IsDir(path) THEN <<Barrier, Exchange, Header(path), Barrier>>
           ELSE <<Barrier, Exchange, Header(path), Barrier, Barrier>>
      [] util.tool = "expand" -> IF IsDir(path) THEN <<>> ELSE <<Header(path)>>
      [] util.tool = "shrink" -> IF IsDir(path) THEN <<>> ELSE <<Header(path), Exchange>>
      [] OTHER -> <<>>

\* The next collective, after which the walk goes on according to the value it brought.
NextOp(w) ==
    IF w.todo # <<>> THEN Head(w.todo)
    ELSE IF w.dirs # <<>> THEN Entry(Head(w.dirs), Root)
    ELSE IF w.over THEN Local("exit", Root) ELSE Barrier

\* xpn_expand and xpn_shrink make no directories, and Ready decides for a file of xpn_flush.
HasCopy(path) == ~(util.tool \in {"expand", "shrink"} /\ IsDir(path))
Decides(path) == util.tool = "flush" /\ ~IsDir(path)

InTodo(w, v) ==
    IF Head(w.todo).kind = "ready"
    THEN IF v = End THEN [w EXCEPT !.todo = <<>>]
         ELSE [w EXCEPT !.todo = Tail(@), !.got = @ \cup {Head(w.todo).value}]
    ELSE [w EXCEPT !.todo = Tail(@)]
InDir(w, v) ==
    IF v = End THEN [w EXCEPT !.dirs = Tail(@), !.done = @ \cup {Head(w.dirs)}]
    ELSE [w EXCEPT !.todo = Colls(v), !.dirs = IF IsDir(v) THEN <<v>> \o @ ELSE @,
                   !.sent = @ \cup {v}, !.got = IF HasCopy(v) /\ ~Decides(v) THEN @ \cup {v} ELSE @]
Onward(w, v) ==
    IF w.todo # <<>> THEN InTodo(w, v)
    ELSE IF w.dirs # <<>> THEN InDir(w, v)
    ELSE [w EXCEPT !.over = TRUE]

\* The directories in the way are made, and nothing was left out.
FlushPlace(w) ==
    util.tool = "flush" =>
        /\ \A i \in 1..Len(w.dirs) :
             w.dirs[i] \in outside \/ (i = 1 /\ Len(w.todo) = 1 /\ w.todo[1].kind = "barrier")
        /\ Len(w.todo) = 1 /\ w.todo[1].kind = "header" => w.todo[1].value \in outside
SentPlace(w) ==
    util.tool # "preload" =>
        /\ \A p \in w.sent : HasCopy(p) =>
             p \in w.got \/ p \in skipped \/ (w.todo # <<>> /\ w.todo[1].kind = "ready" /\ w.todo[1].value = p)
        /\ \A d \in w.done : Entries(d) \subseteq w.sent \cup skipped
        /\ \A d \in (w.sent \cap util.dirs) \cup {Root} :
             d \in w.done \/ \E i \in 1..Len(w.dirs) : w.dirs[i] = d
PlaceOk(w) ==
    /\ w.over => w.todo = <<>> /\ w.dirs = <<>>
    /\ util.tool = "preload" => w.todo = <<>> /\ w.dirs = <<>>
    /\ \A i \in 1..Len(w.todo) : w.todo[i].kind \in Collectives \ {"entry"} /\ (w.todo[i].kind = "ready" => i = 1)
    /\ FlushPlace(w) /\ SentPlace(w)

-----------------------------------------------------------------------------
(* Where a rank is that has come to w.                                       *)

\* The operations of o are those of t with local ones between them.
Spread(o, t) ==
    \E g \in [1..Len(t) -> 1..Len(o)] :
        /\ \A i, k \in 1..Len(t) : i < k => g[i] < g[k]
        /\ \A i \in 1..Len(t) : o[g[i]] = t[i]
        /\ \A i \in 1..Len(o) : o[i].kind \in Collectives => \E k \in 1..Len(t) : g[k] = i

\* o is s without its first j elements.
After(o, s, j) == Len(o) = Len(s) - j /\ \A i \in 1..Len(o) : o[i] = s[i + j]

\* ds are the directories of the calls st, with n more (or one less) in front.
Lined(ds, st, n) ==
    Len(ds) = Len(st) + n /\ \A i \in 1..Len(ds) : \A k \in 1..Len(st) : i = k + n => ds[i] = st[k].dir

Copying(r) == \E i \in 1..Len(ops[r]) : ops[r][i].kind \in {"copy", "spin"}
Deciding(r) == \E i \in 1..Len(ops[r]) : ops[r][i].kind = "ready"
InLoopAt(r, dir) == IF ReadsDir(r, dir) THEN "read" ELSE "open"

\* At an entry, of whose operations j are over.
MadeBy(r, path, j) ==
    /\ util.tool = "flush" /\ j >= 1 /\ r = (IF IsDir(path) THEN 0 ELSE MasterOf(path)) => path \in outside
    /\ util.tool # "expand" /\ IsDir(path) /\ Creates(r) /\ ~Copying(r) => path \in has[HostOf(r)]
GotBy(r, w, path) == w.got = copied[r] \cup (IF Copying(r) /\ ~Deciding(r) THEN {path} ELSE {})
DealsWith(r, w, path, j) ==
    /\ stack[r] # <<>> /\ path \in Entries(Top(r).dir) /\ Top(r).at = InLoopAt(r, Top(r).dir)
    /\ j < Len(EntryOps(r, path)) /\ After(ops[r], EntryOps(r, path), j) /\ MadeBy(r, path, j)
    /\ util.tool # "preload" =>
         /\ Spread(ops[r], w.todo) /\ GotBy(r, w, path)
         /\ Lined(w.dirs, stack[r], IF IsDir(path) THEN 1 ELSE 0) /\ (IsDir(path) => w.dirs[1] = path)
Deals(r, w) == \E path \in Things : \E j \in Nat : DealsWith(r, w, path, j)

\* In the loop of list(), before and while it sends or awaits an entry, and after the last one.
Here(r, w, n) == util.tool # "preload" => w.todo = <<>> /\ Lined(w.dirs, stack[r], n) /\ w.got = copied[r]
InLoop(r, w) ==
    /\ stack[r] # <<>> /\ ops[r] = <<>> /\ Here(r, w, 0)
    /\ Top(r).at = "open" \/ (Top(r).at = "read" /\ ReadsDir(r, Top(r).dir))
SendsEntry(r, w) ==
    /\ stack[r] # <<>> /\ Top(r).at = "read" /\ ReadsDir(r, Top(r).dir) /\ Here(r, w, 0)
    /\ util.tool # "preload"
    /\ \E path \in Entries(Top(r).dir) : ops[r] = <<Entry(Top(r).dir, path)>> \o EntryOps(r, path)
Awaits(r, w) ==
    /\ stack[r] # <<>> /\ Top(r).at = "open" /\ ~ReadsDir(r, Top(r).dir) /\ Here(r, w, 0)
    /\ ops[r] = <<Entry(Top(r).dir, Root)>>
SendsEnd(r, w) ==
    /\ stack[r] # <<>> /\ Top(r).at = "close" /\ ReadsDir(r, Top(r).dir) /\ Here(r, w, 0)
    /\ util.tool # "preload" /\ ops[r] = <<Entry(Top(r).dir, End)>>
Closes(r, w) ==
    stack[r] # <<>> /\ Top(r).at = "close" /\ ReadsDir(r, Top(r).dir) /\ ops[r] = <<>> /\ Here(r, w, -1)

\* At the end of main().
Out(r, w) == stack[r] = <<>> /\ Here(r, w, 0) /\ (ops[r] = <<>> \/ ops[r] = <<Barrier, Local("exit", Root)>>)
Gone(r, w) == stack[r] = <<>> /\ Here(r, w, 0) /\ Ended(r)

Phases(r, w) ==
    \/ (~w.over /\ (\/ Deals(r, w) \/ InLoop(r, w) \/ SendsEntry(r, w) \/ Awaits(r, w) \/ SendsEnd(r, w)
                    \/ Closes(r, w) \/ Out(r, w)))
    \/ (w.over /\ Gone(r, w))

\* The calls of list() that rank r is in, and what it has read of their directories.
OnItsWay(r) ==
    IF ops[r] # <<>> /\ Head(ops[r]).kind = (IF util.tool = "preload" THEN "copy" ELSE "entry")
    THEN {Head(ops[r]).value} \ {Root, End} ELSE {}
Before(r, w) == (IF util.tool = "preload" THEN copied[r] ELSE w.sent) \cup skipped
FrameOk(r, w, i) ==
    LET f == stack[r][i]
    IN  /\ f.left \subseteq Entries(f.dir)
        /\ i > 1 => f.at = InLoopAt(r, f.dir)
        /\ f.at \in {"read", "close"} => Entries(f.dir) \subseteq f.left \cup Before(r, w) \cup OnItsWay(r)
        /\ f.at = "close" => f.left = {}
        /\ util.tool # "expand" /\ Creates(r) => f.dir \in has[HostOf(r)]
LeftBehind(r) ==
    util.tool = "preload" =>
        \A d \in (copied[r] \cap util.dirs) \cup {Root} :
            \/ \E i \in 1..Len(stack[r]) : stack[r][i].dir = d
            \/ ops[r] = <<Local("list", d)>>
            \/ Entries(d) \subseteq copied[r] \cup skipped

RankOk(r, w) == Phases(r, w) /\ (\A i \in 1..Len(stack[r]) : FrameOk(r, w, i)) /\ LeftBehind(r)

-----------------------------------------------------------------------------
(* The collectives.                                                          *)

Came(k) == \E r \in Ranks : passed[r] >= k
NetOk(T, k) ==
    /\ net[k].in = {r \in Ranks : passed[r] >= k \/ (passed[r] = k - 1 /\ inside[r])} /\ net[k].in # {}
    /\ Agree(NextOp(T[k - 1]), net[k])
    /\ net[k].kind = "entry" /\ net[k].root \in net[k].in =>
         net[k].value \in Entries(Head(T[k - 1].dirs)) \cup {End}
    /\ Came(k) => /\ \A v : v = net[k].value => T[k] = Onward(T[k - 1], v)
                  /\ net[k].kind \in Bcasts => net[k].root \in net[k].in
RankNet(r) ==
    /\ passed[r] <= Len(net)
    /\ inside[r] =>
         /\ passed[r] < Len(net) /\ ops[r] # <<>> /\ Head(ops[r]).kind \in Collectives
         /\ Head(ops[r]).kind = "entry" /\ r = Head(ops[r]).root => net[passed[r] + 1].value = Head(ops[r]).value

Track(T) ==
    /\ T \in [0..Len(net) -> Places] /\ T[0] = WalkStart
    /\ \A k \in 1..Len(net) : NetOk(T, k)
    /\ \A k \in 0..Len(net) : k = 0 \/ Came(k) => PlaceOk(T[k])
    /\ \A r \in Ranks : RankNet(r) /\ \A k \in 0..Len(net) : k = passed[r] => RankOk(r, T[k])

WalkInv ==
    /\ util \in Jobs /\ torn \in BOOLEAN /\ aborted \in BOOLEAN
    /\ torn => util.tool \notin Rebuilds \cup {"preload"}
    /\ Walkable /\ ~torn =>
         /\ DirMadeFirst
         /\ aborted => WalksMeet
         /\ ~aborted => WalkType /\ \E T : Track(T)

-----------------------------------------------------------------------------
(* Sequences.                                                                *)

LEMMA TailOf ==
    ASSUME NEW S, NEW t \in Seq(S), t # <<>>
    PROVE  /\ Tail(t) \in Seq(S) /\ Len(t) \in Nat \ {0} /\ Len(Tail(t)) = Len(t) - 1
           /\ Head(t) = t[1] /\ Head(t) \in S
           /\ \A i \in 1..Len(Tail(t)) : Tail(t)[i] = t[i + 1]
  OBVIOUS

LEMMA PushOn ==
    ASSUME NEW S, NEW t \in Seq(S), NEW e \in S, NEW u, u = <<e>> \o t
    PROVE  /\ u \in Seq(S) /\ u # <<>> /\ Len(u) = Len(t) + 1 /\ u[1] = e /\ Head(u) = e
           /\ \A i \in 1..Len(t) : u[i + 1] = t[i]
           /\ \A i \in 2..Len(u) : u[i] = t[i - 1]
           /\ Tail(u) = t
  <1>1. <<e>> \in Seq(S) /\ Len(<<e>>) = 1 /\ <<e>>[1] = e
    OBVIOUS
  <1>2. /\ u \in Seq(S) /\ Len(u) = Len(t) + 1
        /\ \A i \in 1..Len(u) : u[i] = IF i <= 1 THEN <<e>>[i] ELSE t[i - 1]
    BY <1>1, ConcatProperties
  <1>3. Len(t) \in Nat
    OBVIOUS
  <1>4. u # <<>> /\ u[1] = e /\ \A i \in 2..Len(u) : u[i] = t[i - 1]
    BY <1>1, <1>2, <1>3
  <1>5. \A i \in 1..Len(t) : u[i + 1] = t[i]
    BY <1>2, <1>3, <1>4
  <1>6. Head(u) = e
    BY <1>4, <1>2
  <1>7. Tail(u) = t
    <2>1. Tail(u) \in Seq(S) /\ Len(Tail(u)) = Len(t) /\ \A i \in 1..Len(t) : Tail(u)[i] = u[i + 1]
      BY <1>2, <1>3, <1>4, TailOf
    <2> QED
      BY <2>1, <1>5, SeqEqual
  <1> QED
    BY <1>2, <1>4, <1>5, <1>6, <1>7

LEMMA SetFirst ==
    ASSUME NEW S, NEW t \in Seq(S), t # <<>>, NEW e \in S, NEW u, u = [t EXCEPT ![1] = e]
    PROVE  /\ u \in Seq(S) /\ u # <<>> /\ Len(u) = Len(t) /\ u[1] = e /\ Head(u) = e
           /\ \A i \in 2..Len(t) : u[i] = t[i]
  <1>1. Len(t) \in Nat \ {0} /\ 1 \in 1..Len(t) /\ t \in [1..Len(t) -> S]
    OBVIOUS
  <1>2. u \in [1..Len(t) -> S] /\ u[1] = e /\ \A i \in 2..Len(t) : u[i] = t[i]
    BY <1>1
  <1>3. u \in Seq(S) /\ Len(u) = Len(t)
    BY <1>1, <1>2, IsASeq, LenProperties
  <1> QED
    BY <1>1, <1>2, <1>3

LEMMA SingletonSeq ==
    ASSUME NEW S, NEW e \in S
    PROVE  /\ <<e>> \in Seq(S) /\ Len(<<e>>) = 1 /\ <<e>>[1] = e /\ Head(<<e>>) = e /\ <<e>> # <<>>
           /\ Tail(<<e>>) = <<>> /\ Tail(<<e>>) \in Seq(S)
  OBVIOUS

-----------------------------------------------------------------------------
(* A sequence of operations with local ones among them.                      *)

LEMMA SpreadNone ==
    ASSUME NEW o, NEW S, NEW t \in Seq(S), Spread(o, t), Len(o) = 0
    PROVE  t = <<>>
  <1>1. PICK g \in [1..Len(t) -> 1..Len(o)] : TRUE
    BY DEF Spread
  <1>2. Len(t) \in Nat
    OBVIOUS
  <1>3. CASE Len(t) > 0
    <2>1. 1 \in 1..Len(t)
      BY <1>2, <1>3
    <2>2. g[1] \in 1..Len(o)
      BY <1>1, <2>1
    <2> QED
      BY <2>2
  <1>4. CASE Len(t) = 0
    BY <1>4
  <1> QED
    BY <1>2, <1>3, <1>4

LEMMA SpreadTail ==
    ASSUME NEW S, NEW o \in Seq(S), o # <<>>, NEW t \in Seq(S), Spread(o, t)
    PROVE  /\ Head(o).kind \in Collectives =>
                t # <<>> /\ Head(t) = Head(o) /\ Spread(Tail(o), Tail(t))
           /\ Head(o).kind \notin Collectives /\ (\A i \in 1..Len(t) : t[i].kind \in Collectives) =>
                Spread(Tail(o), t)
  <1> DEFINE p == Tail(o)
             u == Tail(t)
  <1>1. /\ Len(o) \in Nat \ {0} /\ Len(p) = Len(o) - 1 /\ Head(o) = o[1] /\ Len(t) \in Nat
        /\ \A i \in 1..Len(p) : p[i] = o[i + 1]
    BY TailOf
  <1>2. PICK g \in [1..Len(t) -> 1..Len(o)] :
              /\ \A i, k \in 1..Len(t) : i < k => g[i] < g[k]
              /\ \A i \in 1..Len(t) : o[g[i]] = t[i]
              /\ \A i \in 1..Len(o) : o[i].kind \in Collectives => \E k \in 1..Len(t) : g[k] = i
    BY DEF Spread
  <1> HIDE DEF p, u
  <1>3. ASSUME Head(o).kind \in Collectives
        PROVE  t # <<>> /\ Head(t) = Head(o) /\ Spread(p, u)
    <2>1. PICK k0 \in 1..Len(t) : g[k0] = 1
      BY <1>1, <1>2, <1>3
    <2>2. \A i \in 1..Len(t) : g[i] \in 1..Len(o)
      BY <1>2
    <2>3. 1 \in 1..Len(t)
      BY <1>1, <2>1
    <2>4. k0 = 1
      BY <1>1, <1>2, <2>1, <2>2, <2>3
    <2>5. t # <<>> /\ Head(t) = t[1] /\ t[1] = o[1]
      BY <1>1, <1>2, <2>1, <2>3, <2>4, TailOf
    <2>6. Len(u) = Len(t) - 1 /\ \A i \in 1..Len(u) : u[i] = t[i + 1]
      BY <2>5, TailOf DEF u
    <2> DEFINE h == [i \in 1..Len(u) |-> g[i + 1] - 1]
    <2>7. \A i \in 1..Len(u) : i + 1 \in 1..Len(t) /\ g[i + 1] > 1 /\ g[i + 1] \in 1..Len(o)
      BY <1>1, <1>2, <2>1, <2>2, <2>3, <2>4, <2>6
    <2>8. \A i \in 1..Len(u) : h[i] = g[i + 1] - 1 /\ h[i] \in 1..Len(p)
      BY <1>1, <2>7
    <2>9. h \in [1..Len(u) -> 1..Len(p)]
      BY <2>8
    <2>10. \A i, k \in 1..Len(u) : i < k => h[i] < h[k]
      <3> SUFFICES ASSUME NEW i \in 1..Len(u), NEW k \in 1..Len(u), i < k PROVE h[i] < h[k]
        OBVIOUS
      <3>1. i + 1 \in 1..Len(t) /\ k + 1 \in 1..Len(t) /\ i + 1 < k + 1
        BY <2>7
      <3>2. g[i + 1] < g[k + 1] /\ g[i + 1] \in Int /\ g[k + 1] \in Int
        BY <3>1, <1>2, <1>1, <2>2
      <3> QED
        BY <3>2, <2>8
    <2>11. \A i \in 1..Len(u) : p[h[i]] = u[i]
      <3> SUFFICES ASSUME NEW i \in 1..Len(u) PROVE p[h[i]] = u[i]
        OBVIOUS
      <3>1. h[i] + 1 = g[i + 1] /\ h[i] \in 1..Len(p) /\ i + 1 \in 1..Len(t)
        BY <2>7, <2>8, <1>1
      <3>2. p[h[i]] = o[g[i + 1]]
        BY <3>1, <1>1
      <3> QED
        BY <3>1, <3>2, <1>2, <2>6
    <2>12. \A i \in 1..Len(p) : p[i].kind \in Collectives => \E k \in 1..Len(u) : h[k] = i
      <3> SUFFICES ASSUME NEW i \in 1..Len(p), p[i].kind \in Collectives PROVE \E k \in 1..Len(u) : h[k] = i
        OBVIOUS
      <3>1. i + 1 \in 1..Len(o) /\ o[i + 1].kind \in Collectives
        BY <1>1
      <3>2. PICK k \in 1..Len(t) : g[k] = i + 1
        BY <3>1, <1>2
      <3>3. k # 1 /\ k - 1 \in 1..Len(u)
        BY <3>2, <2>1, <2>4, <2>6, <1>1
      <3>4. h[k - 1] = i
        <4>1. h[k - 1] = g[(k - 1) + 1] - 1
          BY <3>3, <2>8
        <4>2. (k - 1) + 1 = k
          BY <1>1
        <4> QED
          BY <4>1, <4>2, <3>2
      <3> QED
        BY <3>3, <3>4
    <2> HIDE DEF h
    <2> QED
      BY <1>1, <2>5, <2>9, <2>10, <2>11, <2>12 DEF Spread
  <1>4. ASSUME Head(o).kind \notin Collectives, \A i \in 1..Len(t) : t[i].kind \in Collectives
        PROVE  Spread(p, t)
    <2>1. \A i \in 1..Len(t) : g[i] \in 1..Len(o) /\ g[i] # 1
      BY <1>1, <1>2, <1>4
    <2> DEFINE h == [i \in 1..Len(t) |-> g[i] - 1]
    <2>2. \A i \in 1..Len(t) : h[i] = g[i] - 1 /\ h[i] \in 1..Len(p) /\ h[i] + 1 = g[i]
      BY <1>1, <2>1
    <2>3. h \in [1..Len(t) -> 1..Len(p)]
      BY <2>2
    <2>4. \A i, k \in 1..Len(t) : i < k => h[i] < h[k]
      BY <2>1, <2>2, <1>2
    <2>5. \A i \in 1..Len(t) : p[h[i]] = t[i]
      BY <2>2, <1>1, <1>2
    <2>6. \A i \in 1..Len(p) : p[i].kind \in Collectives => \E k \in 1..Len(t) : h[k] = i
      <3> SUFFICES ASSUME NEW i \in 1..Len(p), p[i].kind \in Collectives PROVE \E k \in 1..Len(t) : h[k] = i
        OBVIOUS
      <3>1. i + 1 \in 1..Len(o) /\ o[i + 1].kind \in Collectives
        BY <1>1
      <3>2. PICK k \in 1..Len(t) : g[k] = i + 1
        BY <3>1, <1>2
      <3> QED
        BY <3>2, <2>2
    <2> HIDE DEF h
    <2> QED
      BY <2>3, <2>4, <2>5, <2>6 DEF Spread
  <1> QED
    BY <1>3, <1>4 DEF p, u

-----------------------------------------------------------------------------
(* What the utility, its tree and its ranks decide stays while it runs.      *)

SameRoles ==
    /\ Ranks' = Ranks /\ Size' = Size
    /\ \A r : HostOf(r)' = HostOf(r) /\ old_rank(r)' = old_rank(r) /\ new_rank(r)' = new_rank(r)
    /\ rank_actual_to_old' = rank_actual_to_old /\ rank_actual_to_new' = rank_actual_to_new
    /\ master_old' = master_old
    /\ \A r : Creates(r)' <=> Creates(r)
    /\ \A p : MasterOf(p)' = MasterOf(p)
    /\ \A r, p : ReadsDir(r, p)' <=> ReadsDir(r, p)
    /\ \A r, p : InLoopAt(r, p)' = InLoopAt(r, p)

SameTree ==
    /\ Things' = Things
    /\ \A p : IsDir(p)' <=> IsDir(p)
    /\ \A p : Entries(p)' = Entries(p) /\ Colls(p)' = Colls(p)
    /\ \A p : (HasCopy(p)' <=> HasCopy(p)) /\ (Decides(p)' <=> Decides(p))
    /\ \A p, q : Entry(p, q)' = Entry(p, q)
    /\ \A r, p : EntryOps(r, p)' = EntryOps(r, p)

SameSets ==
    /\ WalkOps' = WalkOps /\ Frames' = Frames /\ Meetings' = Meetings /\ Places' = Places /\ WalkStart' = WalkStart
    /\ \A w : NextOp(w)' = NextOp(w)
    /\ \A w, v : Onward(w, v)' = Onward(w, v)

LEMMA RolesStay == ASSUME util' = util PROVE SameRoles
  <1>1. Ranks' = Ranks /\ Size' = Size
    BY DEF Ranks, Size
  <1>2. \A r : HostOf(r)' = HostOf(r)
    BY DEF HostOf
  <1>3. \A r : old_rank(r)' = old_rank(r)
    BY <1>2 DEF old_rank
  <1>4. \A r : new_rank(r)' = new_rank(r)
    BY <1>2 DEF new_rank
  <1>5. \A r : (Reads(r)' <=> Reads(r)) /\ (Writes(r)' <=> Writes(r))
    BY <1>1, <1>3, <1>4 DEF Reads, Writes
  <1>6. rank_actual_to_old' = rank_actual_to_old
    BY <1>1, <1>3, <1>5 DEF rank_actual_to_old
  <1>7. rank_actual_to_new' = rank_actual_to_new
    BY <1>1, <1>4, <1>5 DEF rank_actual_to_new
  <1>8. master_old' = master_old
    BY <1>1, <1>6 DEF master_old
  <1>9. \A r : Creates(r)' <=> Creates(r)
    BY <1>7 DEF Creates
  <1>10. \A p : MasterOf(p)' = MasterOf(p)
    BY <1>1, <1>8 DEF MasterOf
  <1>11. \A r, p : ReadsDir(r, p)' <=> ReadsDir(r, p)
    BY <1>10 DEF ReadsDir
  <1>12. \A r, p : InLoopAt(r, p)' = InLoopAt(r, p)
    BY <1>11 DEF InLoopAt
  <1> QED
    BY <1>1, <1>2, <1>3, <1>4, <1>6, <1>7, <1>8, <1>9, <1>10, <1>11, <1>12 DEF SameRoles

LEMMA TreeStays == ASSUME util' = util PROVE SameTree
  <1>0. SameRoles
    BY RolesStay
  <1>1. Things' = Things /\ \A p : IsDir(p)' <=> IsDir(p)
    BY DEF Things, IsDir
  <1>2. \A p : Entries(p)' = Entries(p)
    BY DEF Entries, Parent
  <1>3. \A p, q : Entry(p, q)' = Entry(p, q)
    BY <1>0 DEF Entry, SameRoles
  <1>4. \A p : Header(p)' = Header(p)
    BY <1>0 DEF Header, SameRoles
  <1>5. \A p : Colls(p)' = Colls(p)
    BY <1>1, <1>4 DEF Colls
  <1>6. \A p : (HasCopy(p)' <=> HasCopy(p)) /\ (Decides(p)' <=> Decides(p))
    BY <1>1 DEF HasCopy, Decides
  <1>7. \A p : FlushFile(p)' = FlushFile(p) /\ FlushCopy(p)' = FlushCopy(p)
    BY <1>1, <1>4 DEF FlushCopy, FlushFile
  <1>8. \A r, p : RebuildFile(r, p)' = RebuildFile(r, p)
    BY <1>0 DEF RebuildFile, SameRoles, LoopEnds
  <1>9. \A r, p : RebuildCopy(r, p)' = RebuildCopy(r, p)
    BY <1>1, <1>4, <1>8 DEF RebuildCopy
  <1>10. \A r, p : CopyOps(r, p)' = CopyOps(r, p)
    BY <1>1, <1>4, <1>7, <1>9 DEF CopyOps
  <1>11. \A r, p : EntryOps(r, p)' = EntryOps(r, p)
    BY <1>0, <1>1, <1>10 DEF EntryOps, Descends, SameRoles
  <1> QED
    BY <1>1, <1>2, <1>3, <1>5, <1>6, <1>11 DEF SameTree

LEMMA SetsStay == ASSUME util' = util PROVE SameSets
  <1>0. SameRoles /\ SameTree
    BY RolesStay, TreeStays
  <1>1. WalkRoots' = WalkRoots
    BY <1>0 DEF WalkRoots, SameRoles, SameTree
  <1>2. WalkOps' = WalkOps /\ Frames' = Frames /\ Meetings' = Meetings
    BY <1>0, <1>1 DEF WalkOps, Frames, Meetings, SameRoles, SameTree
  <1>3. Places' = Places
    BY <1>0, <1>2 DEF Places, SameTree
  <1>4. WalkStart' = WalkStart
    BY DEF WalkStart
  <1>5. \A w : NextOp(w)' = NextOp(w)
    BY <1>0 DEF NextOp, SameTree
  <1>6. \A w, v : InDir(w, v)' = InDir(w, v)
    BY <1>0 DEF InDir, SameTree
  <1>7. \A w, v : Onward(w, v)' = Onward(w, v)
    BY <1>6 DEF Onward, InTodo
  <1> QED
    BY <1>2, <1>3, <1>4, <1>5, <1>7 DEF SameSets

-----------------------------------------------------------------------------
(* What a rank does with an entry.                                           *)

LEMMA Joined ==
    ASSUME NEW S, NEW s \in Seq(S), NEW t \in Seq(S), NEW u, u = s \o t
    PROVE  /\ u \in Seq(S) /\ Len(u) = Len(s) + Len(t)
           /\ \A i \in 1..Len(s) : u[i] = s[i]
           /\ \A i \in 1..Len(t) : u[Len(s) + i] = t[i]
  <1>1. /\ u \in Seq(S) /\ Len(u) = Len(s) + Len(t)
        /\ \A i \in 1..Len(u) : u[i] = IF i <= Len(s) THEN s[i] ELSE t[i - Len(s)]
    BY ConcatProperties
  <1>2. Len(s) \in Nat /\ Len(t) \in Nat
    OBVIOUS
  <1>3. ASSUME NEW i \in 1..Len(t)
        PROVE  u[Len(s) + i] = t[i]
    <2>1. Len(s) + i \in 1..Len(u) /\ ~(Len(s) + i <= Len(s)) /\ (Len(s) + i) - Len(s) = i
      BY <1>1, <1>2
    <2> QED
      BY <1>1, <2>1
  <1> QED
    BY <1>1, <1>2, <1>3

LEMMA OpFields ==
    /\ \A k, p : Local(k, p).kind = k /\ Local(k, p).value = p /\ Local(k, p).root = -1
    /\ \A p : /\ Ready(p).kind = "ready" /\ Ready(p).value = p /\ Ready(p).root = 0
              /\ Header(p).kind = "header" /\ Header(p).value = p /\ Header(p).root = MasterOf(p)
    /\ \A d, p : Entry(d, p).kind = "entry" /\ Entry(d, p).value = p /\ Entry(d, p).root = MasterOf(d)
    /\ Barrier.kind = "barrier" /\ Exchange.kind = "exchange" /\ Barrier.root = -1 /\ Exchange.root = -1
  BY DEF Local, Ready, Header, Entry, Barrier, Exchange

LEMMA OpTypes ==
    ASSUME NEW p \in Things
    PROVE  /\ \A k \in {"creat", "open", "copy", "spin", "list", "exit"} : Local(k, p) \in WalkOps
           /\ Ready(p) \in WalkOps /\ Header(p) \in WalkOps /\ Barrier \in WalkOps /\ Exchange \in WalkOps
           /\ \A v \in Things \cup {End} : Entry(p, v) \in WalkOps
  <1>1. MasterOf(p) \in WalkRoots /\ -1 \in WalkRoots /\ 0 \in WalkRoots
    BY DEF WalkRoots
  <1>2. "entry" \in Collectives /\ "ready" \in Collectives /\ "header" \in Collectives
        /\ "barrier" \in Collectives /\ "exchange" \in Collectives
    BY DEF Collectives, Bcasts
  <1> QED
    BY <1>1, <1>2 DEF WalkOps, Local, Ready, Header, Entry, Barrier, Exchange

Shape(r, p) ==
    LET E == EntryOps(r, p)
    IN  /\ E \in Seq(WalkOps)
        /\ util.tool = "preload" =>
             E[1] = Local("copy", p) /\ IF IsDir(p) THEN Len(E) = 2 /\ E[2] = Local("list", p) ELSE Len(E) = 1
        /\ util.tool = "flush" =>
             IF IsDir(p) THEN Len(E) = 3 /\ E[1] = Local("copy", p) /\ E[2] = Barrier /\ E[3] = Local("list", p)
             ELSE /\ Len(E) = 6 /\ E[1] = Local("creat", p) /\ E[2] = Ready(p) /\ E[3] = Barrier
                  /\ E[4] = Local("open", p) /\ E[5] = Header(p) /\ E[6] = Local("copy", p)
        /\ util.tool = "rebuild" =>
             /\ ~IsDir(p) /\ Len(E) = 5 /\ E[1] = Barrier /\ E[2] = Header(p) /\ E[3] = Local("copy", p)
             /\ E[4] = Exchange /\ E[5] = Barrier
        /\ util.tool \in {"active_reader", "active_writer"} =>
             /\ Len(E) = 6 /\ E[1] = Barrier /\ E[2] = Exchange /\ E[3] = Header(p) /\ E[5] = Barrier
             /\ IF IsDir(p) THEN E[4] = Local("copy", p) /\ E[6] = Local("list", p)
                ELSE (E[4] = Local("copy", p) \/ E[4] = Local("spin", p)) /\ E[6] = Barrier
        /\ util.tool = "expand" =>
             IF IsDir(p) THEN Len(E) = 1 /\ E[1] = Local("list", p)
             ELSE Len(E) = 2 /\ E[1] = Header(p) /\ E[2] = Local("copy", p)
        /\ util.tool = "shrink" =>
             IF IsDir(p) THEN Len(E) = 1 /\ E[1] = Local("list", p)
             ELSE Len(E) = 3 /\ E[1] = Header(p) /\ E[2] = Exchange /\ E[3] = Local("copy", p)

LEMMA EntryShape ==
    ASSUME util \in Jobs, Walkable, NEW r, NEW p \in Things, p # Root
    PROVE  Shape(r, p)
  <1> DEFINE E == EntryOps(r, p)
             C == CopyOps(r, p)
             L == IF Descends(r, p) THEN <<Local("list", p)>> ELSE <<>>
             copy == Local("copy", p)
             list == Local("list", p)
  <1>1. util.tool \in {"preload", "flush", "expand", "shrink", "rebuild", "active_reader", "active_writer"}
    BY TreeWalkAssumption
  <1>2. util.tool = "rebuild" => ~IsDir(p)
    BY DEF Walkable, IsDir
  <1>3. Descends(r, p) <=> IsDir(p)
    BY <1>2 DEF Descends
  <1>4. L \in Seq(WalkOps) /\ IF IsDir(p) THEN Len(L) = 1 /\ L[1] = list ELSE Len(L) = 0
    BY <1>3, OpTypes
  <1>5. ASSUME C \in Seq(WalkOps)
        PROVE  /\ E \in Seq(WalkOps) /\ \A i \in 1..Len(C) : E[i] = C[i]
               /\ IF IsDir(p) THEN Len(E) = Len(C) + 1 /\ E[Len(C) + 1] = list ELSE Len(E) = Len(C)
    <2>1. E = C \o L
      BY DEF EntryOps
    <2> HIDE DEF E, C, L
    <2>2. /\ E \in Seq(WalkOps) /\ Len(E) = Len(C) + Len(L)
          /\ \A i \in 1..Len(C) : E[i] = C[i]
          /\ \A i \in 1..Len(L) : E[Len(C) + i] = L[i]
      BY <1>4, <1>5, <2>1, Joined
    <2>3. Len(C) \in Nat
      BY <1>5
    <2> QED
      BY <2>2, <2>3, <1>4
  <1>6. /\ copy \in WalkOps /\ list \in WalkOps /\ Local("creat", p) \in WalkOps /\ Local("open", p) \in WalkOps
        /\ Local("spin", p) \in WalkOps /\ Ready(p) \in WalkOps /\ Header(p) \in WalkOps /\ Barrier \in WalkOps
        /\ Exchange \in WalkOps
    BY OpTypes
  <1> HIDE DEF E, C, L, copy, list
  <1>7. CASE util.tool = "preload"
    <2>1. C = <<copy>>
      BY <1>7 DEF C, CopyOps, Rebuilds, copy
    <2>2. C \in Seq(WalkOps) /\ Len(C) = 1 /\ C[1] = copy
      BY <2>1, <1>6
    <2> QED
      BY <1>5, <1>7, <2>2 DEF Shape, E, copy, list
  <1>8. CASE util.tool = "flush"
    <2>0. C = FlushCopy(p)
      BY <1>8 DEF C, CopyOps, Rebuilds
    <2>1. CASE IsDir(p)
      <3>1. C = <<copy, Barrier>>
        BY <2>0, <2>1 DEF FlushCopy, copy
      <3>2. C \in Seq(WalkOps) /\ Len(C) = 2 /\ C[1] = copy /\ C[2] = Barrier
        BY <3>1, <1>6
      <3> QED
        BY <1>5, <1>8, <2>1, <3>2 DEF Shape, E, copy, list
    <2>2. CASE ~IsDir(p)
      <3>1. C = <<Local("creat", p), Ready(p), Barrier, Local("open", p), Header(p), copy>>
        BY <2>0, <2>2 DEF FlushCopy, FlushFile, copy
      <3>2. /\ C \in Seq(WalkOps) /\ Len(C) = 6 /\ C[1] = Local("creat", p) /\ C[2] = Ready(p) /\ C[3] = Barrier
            /\ C[4] = Local("open", p) /\ C[5] = Header(p) /\ C[6] = copy
        BY <3>1, <1>6
      <3> QED
        BY <1>5, <1>8, <2>2, <3>2 DEF Shape, E, copy, list
    <2> QED
      BY <2>1, <2>2
  <1>9. CASE util.tool = "rebuild"
    <2>1. C = ((((<<Barrier>> \o <<>>) \o <<Header(p)>>) \o <<copy, Exchange>>) \o <<Barrier>>)
      BY <1>2, <1>9 DEF C, CopyOps, Rebuilds, RebuildCopy, RebuildFile, copy
    <2> DEFINE c1 == <<Barrier>> \o <<>>
               c2 == c1 \o <<Header(p)>>
               c3 == c2 \o <<copy, Exchange>>
    <2>2. /\ <<Barrier>> \in Seq(WalkOps) /\ Len(<<Barrier>>) = 1 /\ <<Barrier>>[1] = Barrier
          /\ <<Header(p)>> \in Seq(WalkOps) /\ Len(<<Header(p)>>) = 1 /\ <<Header(p)>>[1] = Header(p)
          /\ <<copy, Exchange>> \in Seq(WalkOps) /\ Len(<<copy, Exchange>>) = 2
          /\ <<copy, Exchange>>[1] = copy /\ <<copy, Exchange>>[2] = Exchange
      BY <1>6
    <2>3. c1 = <<Barrier>>
      OBVIOUS
    <2>4. c2 \in Seq(WalkOps) /\ Len(c2) = 2 /\ c2[1] = Barrier /\ c2[2] = Header(p)
      <3>1. c2 = <<Barrier>> \o <<Header(p)>>
        BY <2>3
      <3> HIDE DEF c1, c2
      <3>2. /\ c2 \in Seq(WalkOps) /\ Len(c2) = 1 + 1
            /\ \A i \in 1..1 : c2[i] = <<Barrier>>[i]
            /\ \A i \in 1..1 : c2[1 + i] = <<Header(p)>>[i]
        BY <2>2, <3>1, Joined
      <3> QED
        BY ONLY <2>2, <3>2
    <2>5. c3 \in Seq(WalkOps) /\ Len(c3) = 4 /\ c3[1] = Barrier /\ c3[2] = Header(p) /\ c3[3] = copy /\ c3[4] = Exchange
      <3>1. c3 = c2 \o <<copy, Exchange>>
        OBVIOUS
      <3> HIDE DEF c2, c3
      <3>0. c2 \in Seq(WalkOps) /\ <<copy, Exchange>> \in Seq(WalkOps)
        BY ONLY <2>2, <2>4
      <3>2. /\ c3 \in Seq(WalkOps) /\ Len(c3) = Len(c2) + Len(<<copy, Exchange>>)
            /\ \A i \in 1..Len(c2) : c3[i] = c2[i]
            /\ \A i \in 1..Len(<<copy, Exchange>>) : c3[Len(c2) + i] = <<copy, Exchange>>[i]
        BY ONLY <3>0, <3>1, Joined
      <3>3. c3[2 + 1] = <<copy, Exchange>>[1] /\ c3[2 + 2] = <<copy, Exchange>>[2] /\ c3[1] = c2[1] /\ c3[2] = c2[2]
        BY ONLY <2>2, <2>4, <3>2
      <3> QED
        BY ONLY <2>2, <2>4, <3>2, <3>3
    <2>6. /\ C \in Seq(WalkOps) /\ Len(C) = 5 /\ C[1] = Barrier /\ C[2] = Header(p) /\ C[3] = copy /\ C[4] = Exchange
          /\ C[5] = Barrier
      <3>1. C = c3 \o <<Barrier>>
        BY <2>1
      <3> HIDE DEF c3
      <3>0. c3 \in Seq(WalkOps) /\ <<Barrier>> \in Seq(WalkOps)
        BY ONLY <2>2, <2>5
      <3>2. /\ C \in Seq(WalkOps) /\ Len(C) = Len(c3) + Len(<<Barrier>>)
            /\ \A i \in 1..Len(c3) : C[i] = c3[i]
            /\ \A i \in 1..Len(<<Barrier>>) : C[Len(c3) + i] = <<Barrier>>[i]
        BY ONLY <3>0, <3>1, Joined
      <3>3. C[4 + 1] = <<Barrier>>[1]
        BY ONLY <2>2, <2>5, <3>2
      <3> QED
        BY ONLY <2>2, <2>5, <3>2, <3>3
    <2> HIDE DEF c1, c2, c3
    <2> QED
      BY <1>2, <1>5, <1>9, <2>6 DEF Shape, E, copy, list
  <1>10. CASE util.tool \in {"active_reader", "active_writer"}
    <2> DEFINE c1 == <<Barrier>> \o <<Exchange>>
               c2 == c1 \o <<Header(p)>>
               m == IF IsDir(p) THEN <<copy>> ELSE RebuildFile(r, p)
               c3 == c2 \o m
    <2>1. C = c3 \o <<Barrier>>
      BY <1>10 DEF C, CopyOps, Rebuilds, RebuildCopy, copy
    <2>2. /\ <<Barrier>> \in Seq(WalkOps) /\ Len(<<Barrier>>) = 1 /\ <<Barrier>>[1] = Barrier
          /\ <<Exchange>> \in Seq(WalkOps) /\ Len(<<Exchange>>) = 1 /\ <<Exchange>>[1] = Exchange
          /\ <<Header(p)>> \in Seq(WalkOps) /\ Len(<<Header(p)>>) = 1 /\ <<Header(p)>>[1] = Header(p)
      BY <1>6
    <2>3. /\ m \in Seq(WalkOps)
          /\ IF IsDir(p) THEN Len(m) = 1 /\ m[1] = copy
             ELSE Len(m) = 2 /\ (m[1] = copy \/ m[1] = Local("spin", p)) /\ m[2] = Barrier
      <3>1. CASE IsDir(p)
        BY <3>1, <1>6
      <3>2. CASE ~IsDir(p)
        <4>1. m = <<copy, Barrier>> \/ m = <<Local("spin", p), Barrier>>
          BY <1>10, <3>2 DEF RebuildFile, copy
        <4> HIDE DEF m
        <4> QED
          BY <3>2, <4>1, <1>6
      <3> QED
        BY <3>1, <3>2
    <2>4. c1 \in Seq(WalkOps) /\ Len(c1) = 2 /\ c1[1] = Barrier /\ c1[2] = Exchange
      BY <2>2, Joined
    <2>5. c2 \in Seq(WalkOps) /\ Len(c2) = 3 /\ c2[1] = Barrier /\ c2[2] = Exchange /\ c2[3] = Header(p)
      <3>1. c2 = c1 \o <<Header(p)>>
        OBVIOUS
      <3> HIDE DEF c1, c2
      <3>0. c1 \in Seq(WalkOps) /\ <<Header(p)>> \in Seq(WalkOps)
        BY ONLY <2>2, <2>4
      <3>2. /\ c2 \in Seq(WalkOps) /\ Len(c2) = Len(c1) + Len(<<Header(p)>>)
            /\ \A i \in 1..Len(c1) : c2[i] = c1[i]
            /\ \A i \in 1..Len(<<Header(p)>>) : c2[Len(c1) + i] = <<Header(p)>>[i]
        BY ONLY <3>0, <3>1, Joined
      <3>3. c2[2 + 1] = <<Header(p)>>[1]
        BY ONLY <2>2, <2>4, <3>2
      <3> QED
        BY ONLY <2>2, <2>4, <3>2, <3>3
    <2>6. /\ c3 \in Seq(WalkOps) /\ Len(c3) = 3 + Len(m) /\ c3[1] = Barrier /\ c3[2] = Exchange /\ c3[3] = Header(p)
          /\ \A i \in 1..Len(m) : c3[3 + i] = m[i]
      <3>1. c3 = c2 \o m
        OBVIOUS
      <3> HIDE DEF c2, c3, m
      <3>0. c2 \in Seq(WalkOps) /\ m \in Seq(WalkOps)
        BY ONLY <2>3, <2>5
      <3>2. /\ c3 \in Seq(WalkOps) /\ Len(c3) = Len(c2) + Len(m)
            /\ \A i \in 1..Len(c2) : c3[i] = c2[i]
            /\ \A i \in 1..Len(m) : c3[Len(c2) + i] = m[i]
        BY ONLY <3>0, <3>1, Joined
      <3> QED
        BY ONLY <2>5, <3>2
    <2>7. /\ C \in Seq(WalkOps) /\ Len(C) = 4 + Len(m) /\ C[1] = Barrier /\ C[2] = Exchange /\ C[3] = Header(p)
          /\ (\A i \in 1..Len(m) : C[3 + i] = m[i]) /\ C[4 + Len(m)] = Barrier
      <3> HIDE DEF c3, m
      <3>1. Len(m) \in Nat
        BY <2>3
      <3>2. /\ C \in Seq(WalkOps) /\ Len(C) = Len(c3) + 1 /\ \A i \in 1..Len(c3) : C[i] = c3[i]
            /\ C[Len(c3) + 1] = Barrier
        BY <2>1, <2>2, <2>6, Joined
      <3> QED
        BY <2>6, <3>1, <3>2
    <2> HIDE DEF c1, c2, c3, m
    <2>8. CASE IsDir(p)
      <3>1. /\ Len(C) = 5 /\ C[1] = Barrier /\ C[2] = Exchange /\ C[3] = Header(p) /\ C[4] = copy /\ C[5] = Barrier
        <4>0. Len(m) = 1 /\ m[1] = copy
          BY ONLY <2>3, <2>8
        <4>1. Len(m) = 1 /\ m[1] = copy /\ C[3 + 1] = m[1]
          BY ONLY <4>0, <2>7
        <4> QED
          BY ONLY <4>1, <2>7
      <3> QED
        <4>1. /\ E \in Seq(WalkOps) /\ \A i \in 1..Len(C) : E[i] = C[i]
              /\ IF IsDir(p) THEN Len(E) = Len(C) + 1 /\ E[Len(C) + 1] = list ELSE Len(E) = Len(C)
          BY <1>5, <2>7
        <4>2. util.tool # "preload" /\ util.tool # "flush" /\ util.tool # "rebuild" /\ util.tool # "expand" /\ util.tool # "shrink"
          BY ONLY <1>10
        <4> QED
          BY ONLY <4>1, <4>2, <1>10, <2>8, <3>1 DEF Shape, E, copy, list
    <2>9. CASE ~IsDir(p)
      <3>1. /\ Len(C) = 6 /\ C[1] = Barrier /\ C[2] = Exchange /\ C[3] = Header(p)
            /\ C[4] = copy \/ C[4] = Local("spin", p)
            /\ C[5] = Barrier /\ C[6] = Barrier
        <4>1. /\ Len(m) = 2 /\ (m[1] = copy \/ m[1] = Local("spin", p)) /\ m[2] = Barrier
              /\ C[3 + 1] = m[1] /\ C[3 + 2] = m[2]
          BY ONLY <2>3, <2>7, <2>9
        <4> QED
          BY ONLY <4>1, <2>7
      <3> QED
        <4>1. /\ E \in Seq(WalkOps) /\ \A i \in 1..Len(C) : E[i] = C[i]
              /\ IF IsDir(p) THEN Len(E) = Len(C) + 1 /\ E[Len(C) + 1] = list ELSE Len(E) = Len(C)
          BY <1>5, <2>7
        <4>2. util.tool # "preload" /\ util.tool # "flush" /\ util.tool # "rebuild" /\ util.tool # "expand" /\ util.tool # "shrink"
          BY ONLY <1>10
        <4> QED
          BY ONLY <4>1, <4>2, <1>10, <2>9, <3>1 DEF Shape, E, copy, list
    <2> QED
      BY <2>8, <2>9
  <1>11. CASE util.tool \in {"expand", "shrink"}
    <2>1. CASE IsDir(p)
      <3>1. C = <<>>
        BY <1>11, <2>1 DEF C, CopyOps, Rebuilds
      <3>2. C \in Seq(WalkOps) /\ Len(C) = 0
        BY <3>1
      <3> QED
        BY <1>5, <1>11, <2>1, <3>2 DEF Shape, E, copy, list
    <2>2. CASE ~IsDir(p)
      <3>1. C = IF util.tool = "expand" THEN <<Header(p), copy>> ELSE <<Header(p), Exchange, copy>>
        BY <1>11, <2>2 DEF C, CopyOps, Rebuilds, copy
      <3>2. CASE util.tool = "expand"
        <4>1. C \in Seq(WalkOps) /\ Len(C) = 2 /\ C[1] = Header(p) /\ C[2] = copy
          BY <3>1, <3>2, <1>6
        <4> QED
          BY <1>5, <2>2, <3>2, <4>1 DEF Shape, E, copy, list
      <3>3. CASE util.tool = "shrink"
        <4>1. C \in Seq(WalkOps) /\ Len(C) = 3 /\ C[1] = Header(p) /\ C[2] = Exchange /\ C[3] = copy
          BY <3>1, <3>3, <1>6
        <4> QED
          BY <1>5, <2>2, <3>3, <4>1 DEF Shape, E, copy, list
      <3> QED
        BY <1>11, <3>2, <3>3
    <2> QED
      BY <2>1, <2>2
  <1> QED
    BY <1>1, <1>7, <1>8, <1>9, <1>10, <1>11

\* What the steps of a rank rely on, whatever the utility.
EntryFacts(r, p) ==
    LET E == EntryOps(r, p)
    IN  /\ E \in Seq(WalkOps) /\ Len(E) \in 1..6
        /\ \A i \in 1..Len(E) :
             /\ E[i].kind \notin {"entry", "exit"}
             /\ E[i].kind = "list" => i = Len(E) /\ E[i].value = p /\ IsDir(p)
             /\ E[i].kind \in {"copy", "spin"} =>
                  E[i].value = p /\ HasCopy(p) /\ \A k \in 1..Len(E) : k > i => E[k].kind \notin {"copy", "spin", "ready"}
             /\ E[i].kind = "ready" => Decides(p) /\ E[i].value = p /\ \E k \in (i + 1)..Len(E) : E[k].kind = "copy"
             /\ E[i].kind = "creat" => Decides(p) /\ E[i].value = p /\ i = 1 /\ Len(E) = 6 /\ E[2] = Ready(p)
             /\ E[i].kind = "open" => Decides(p) /\ E[i].value = p /\ i = 4 /\ Len(E) = 6
             /\ E[i].kind \in Collectives => util.tool # "preload" /\ (util.tool = "flush" => i # 1)
        /\ IsDir(p) => E[Len(E)].kind = "list"
        /\ HasCopy(p) => \E i \in 1..Len(E) : E[i].kind \in {"copy", "spin"}
        /\ Decides(p) => E[1].kind = "creat" /\ \E i \in 1..Len(E) : E[i].kind = "ready"
        /\ util.tool = "preload" => E[1] = Local("copy", p) /\ IF IsDir(p) THEN Len(E) = 2 /\ E[2] = Local("list", p) ELSE Len(E) = 1

LEMMA EntryIs ==
    ASSUME util \in Jobs, Walkable, NEW r, NEW p \in Things, p # Root
    PROVE  EntryFacts(r, p)
  <1> DEFINE E == EntryOps(r, p)
  <1>1. util.tool \in {"preload", "flush", "expand", "shrink", "rebuild", "active_reader", "active_writer"}
    BY TreeWalkAssumption
  <1>2. Shape(r, p)
    BY EntryShape
  <1>3. E \in Seq(WalkOps)
    BY <1>2 DEF Shape
  <1>4. /\ "barrier" \in Collectives /\ "header" \in Collectives /\ "exchange" \in Collectives /\ "ready" \in Collectives
        /\ "copy" \notin Collectives /\ "spin" \notin Collectives /\ "list" \notin Collectives
        /\ "creat" \notin Collectives /\ "open" \notin Collectives
    BY DEF Collectives, Bcasts
  <1>5. CASE util.tool = "preload"
    <2>1. /\ E[1] = Local("copy", p) /\ E[1].kind = "copy" /\ E[1].value = p /\ HasCopy(p) /\ ~Decides(p)
          /\ IF IsDir(p) THEN Len(E) = 2 /\ E[2].kind = "list" /\ E[2].value = p /\ E[2] = Local("list", p) ELSE Len(E) = 1
      BY <1>2, <1>5, OpFields DEF Shape, HasCopy, Decides
    <2> HIDE DEF E
    <2>2. CASE IsDir(p)
      <3>1. Len(E) = 2 /\ E[2].kind = "list" /\ E[2].value = p /\ E[2] = Local("list", p)
        BY ONLY <2>1, <2>2
      <3>2. E[1].kind = "copy" /\ E[1].value = p /\ HasCopy(p) /\ ~Decides(p)
        BY ONLY <2>1
      <3>3. E[1] = Local("copy", p)
        BY ONLY <2>1
      <3> QED
        BY ONLY <1>3, <1>4, <1>5, <2>2, <3>1, <3>2, <3>3 DEF EntryFacts, E
    <2>3. CASE ~IsDir(p)
      <3>1. Len(E) = 1
        BY ONLY <2>1, <2>3
      <3>2. E[1].kind = "copy" /\ E[1].value = p /\ HasCopy(p) /\ ~Decides(p)
        BY ONLY <2>1
      <3>3. E[1] = Local("copy", p)
        BY ONLY <2>1
      <3> QED
        BY ONLY <1>3, <1>4, <1>5, <2>3, <3>1, <3>2, <3>3 DEF EntryFacts, E
    <2> QED
      BY <2>2, <2>3
  <1>6. CASE util.tool = "flush"
    <2>1. CASE IsDir(p)
      <3>1. /\ Len(E) = 3 /\ E[1].kind = "copy" /\ E[1].value = p /\ E[2].kind = "barrier" /\ E[3].kind = "list"
            /\ E[3].value = p /\ HasCopy(p) /\ ~Decides(p)
        BY <1>2, <1>6, <2>1, OpFields DEF Shape, HasCopy, Decides
      <3> HIDE DEF E
      <3> QED
        BY ONLY <1>3, <1>4, <1>6, <2>1, <3>1 DEF EntryFacts, E
    <2>2. CASE ~IsDir(p)
      <3>1. /\ Len(E) = 6 /\ E[1].kind = "creat" /\ E[1].value = p /\ E[2] = Ready(p) /\ E[2].kind = "ready" /\ E[2].value = p
            /\ E[3].kind = "barrier" /\ E[4].kind = "open" /\ E[4].value = p /\ E[5].kind = "header"
            /\ E[6].kind = "copy" /\ E[6].value = p /\ HasCopy(p) /\ Decides(p)
        BY <1>2, <1>6, <2>2, OpFields DEF Shape, HasCopy, Decides
      <3> HIDE DEF E
      <3> QED
        BY ONLY <1>3, <1>4, <1>6, <2>2, <3>1 DEF EntryFacts, E
    <2> QED
      BY <2>1, <2>2
  <1>7. CASE util.tool = "rebuild"
    <2>1. /\ ~IsDir(p) /\ Len(E) = 5 /\ E[1].kind = "barrier" /\ E[2].kind = "header" /\ E[3].kind = "copy" /\ E[3].value = p
          /\ E[4].kind = "exchange" /\ E[5].kind = "barrier" /\ HasCopy(p) /\ ~Decides(p)
      BY <1>2, <1>7, OpFields DEF Shape, HasCopy, Decides
    <2> HIDE DEF E
    <2> QED
      BY ONLY <1>3, <1>4, <1>7, <2>1 DEF EntryFacts, E
  <1>8. CASE util.tool \in {"active_reader", "active_writer"}
    <2>0. util.tool # "preload" /\ util.tool # "flush"
      BY <1>8
    <2>1. /\ Len(E) = 6 /\ E[1].kind = "barrier" /\ E[2].kind = "exchange" /\ E[3].kind = "header"
          /\ E[4].kind \in {"copy", "spin"} /\ E[4].value = p /\ E[5].kind = "barrier" /\ HasCopy(p) /\ ~Decides(p)
          /\ IF IsDir(p) THEN E[6].kind = "list" /\ E[6].value = p ELSE E[6].kind = "barrier"
      BY <1>2, <1>8, OpFields DEF Shape, HasCopy, Decides
    <2> HIDE DEF E
    <2>2. CASE IsDir(p)
      BY ONLY <1>3, <1>4, <2>0, <2>1, <2>2 DEF EntryFacts, E
    <2>3. CASE ~IsDir(p)
      BY ONLY <1>3, <1>4, <2>0, <2>1, <2>3 DEF EntryFacts, E
    <2> QED
      BY <2>2, <2>3
  <1>9. CASE util.tool \in {"expand", "shrink"}
    <2>0. util.tool # "preload" /\ util.tool # "flush"
      BY <1>9
    <2>1. CASE IsDir(p)
      <3>1. Len(E) = 1 /\ E[1].kind = "list" /\ E[1].value = p /\ ~HasCopy(p) /\ ~Decides(p)
        BY <1>2, <1>9, <2>1, OpFields DEF Shape, HasCopy, Decides
      <3> HIDE DEF E
      <3> QED
        BY ONLY <1>3, <1>4, <2>0, <2>1, <3>1 DEF EntryFacts, E
    <2>2. CASE ~IsDir(p)
      <3>1. /\ E[1].kind = "header" /\ HasCopy(p) /\ ~Decides(p)
            /\ \/ Len(E) = 2 /\ E[2].kind = "copy" /\ E[2].value = p
               \/ Len(E) = 3 /\ E[2].kind = "exchange" /\ E[3].kind = "copy" /\ E[3].value = p
        BY <1>2, <1>9, <2>2, OpFields DEF Shape, HasCopy, Decides
      <3> HIDE DEF E
      <3>2. CASE Len(E) = 2 /\ E[2].kind = "copy" /\ E[2].value = p
        BY ONLY <1>3, <1>4, <2>0, <2>2, <3>1, <3>2 DEF EntryFacts, E
      <3>3. CASE Len(E) = 3 /\ E[2].kind = "exchange" /\ E[3].kind = "copy" /\ E[3].value = p
        BY ONLY <1>3, <1>4, <2>0, <2>2, <3>1, <3>3 DEF EntryFacts, E
      <3> QED
        BY <3>1, <3>2, <3>3
    <2> QED
      BY <2>1, <2>2
  <1> QED
    BY <1>1, <1>5, <1>6, <1>7, <1>8, <1>9

CollsFacts(p) ==
    /\ Colls(p) \in Seq(WalkOps)
    /\ \A i \in 1..Len(Colls(p)) :
         Colls(p)[i].kind \in Collectives \ {"entry"} /\ (Colls(p)[i].kind = "ready" => i = 1 /\ Colls(p)[i].value = p)
    /\ Decides(p) <=> Colls(p) # <<>> /\ Colls(p)[1].kind = "ready"
    /\ util.tool = "flush" => IF IsDir(p) THEN Len(Colls(p)) = 1 /\ Colls(p)[1] = Barrier ELSE Len(Colls(p)) = 3

LEMMA CollsAre ==
    ASSUME util \in Jobs, Walkable, NEW p \in Things, p # Root, util.tool # "preload", NEW r
    PROVE  CollsFacts(p) /\ Spread(EntryOps(r, p), Colls(p))
  <1> DEFINE E == EntryOps(r, p)
             C == Colls(p)
  <1>1. util.tool \in {"preload", "flush", "expand", "shrink", "rebuild", "active_reader", "active_writer"}
    BY TreeWalkAssumption
  <1>2. Shape(r, p) /\ E \in Seq(WalkOps)
    BY EntryShape DEF Shape
  <1>3. util.tool = "rebuild" => ~IsDir(p)
    BY DEF Walkable, IsDir
  <1>4. Ready(p) \in WalkOps /\ Header(p) \in WalkOps /\ Barrier \in WalkOps /\ Exchange \in WalkOps
    BY OpTypes
  <1>5. /\ "barrier" \in Collectives \ {"entry"} /\ "header" \in Collectives \ {"entry"}
        /\ "exchange" \in Collectives \ {"entry"} /\ "ready" \in Collectives \ {"entry"}
        /\ "copy" \notin Collectives /\ "spin" \notin Collectives /\ "list" \notin Collectives
        /\ "creat" \notin Collectives /\ "open" \notin Collectives
    BY DEF Collectives, Bcasts
  <1>6. CASE util.tool = "flush" /\ IsDir(p)
    <2>1. C = <<Barrier>> /\ (Decides(p) <=> FALSE)
      BY <1>6 DEF Colls, Decides
    <2>2. C \in Seq(WalkOps) /\ Len(C) = 1 /\ C[1] = Barrier
      BY <2>1, <1>4
    <2>3. C # <<>> /\ C[1].kind = "barrier"
      BY <2>1, <2>2, OpFields
    <2>4. Len(E) = 3 /\ E[2] = C[1]
      BY <1>2, <1>6, <2>2 DEF Shape
    <2>5. TRUE /\ E[1].kind \notin Collectives /\ E[3].kind \notin Collectives
      BY <1>2, <1>5, <1>6, OpFields DEF Shape
    <2> HIDE DEF E, C
    <2>6. util.tool = "flush" /\ IsDir(p)
      BY <1>6
    <2>7. CollsFacts(p)
      BY ONLY <1>5, <2>1, <2>2, <2>3, <2>6 DEF CollsFacts, C
    <2> DEFINE g == <<2>>
    <2>8. g \in [1..1 -> 1..3] /\ g[1] = 2
      OBVIOUS
    <2> HIDE DEF g
    <2>9. \A i, k \in 1..1 : i < k => g[i] < g[k]
      BY ONLY <2>8
    <2>10. \A i \in 1..1 : E[g[i]] = C[i]
      BY ONLY <2>4, <2>8
    <2>11. \A i \in 1..3 : E[i].kind \in Collectives => \E k \in 1..1 : g[k] = i
      BY ONLY <2>5, <2>8
    <2>12. Spread(E, C)
      BY ONLY <2>2, <2>4, <2>8, <2>9, <2>10, <2>11 DEF Spread
    <2> QED
      BY <2>7, <2>12 DEF E, C
  <1>7. CASE util.tool = "flush" /\ ~IsDir(p)
    <2>1. C = <<Ready(p), Barrier, Header(p)>> /\ (Decides(p) <=> TRUE)
      BY <1>7 DEF Colls, Decides
    <2>2. C \in Seq(WalkOps) /\ Len(C) = 3 /\ C[1] = Ready(p) /\ C[2] = Barrier /\ C[3] = Header(p)
      BY <2>1, <1>4
    <2>3. C # <<>> /\ C[1].kind = "ready" /\ C[2].kind = "barrier" /\ C[3].kind = "header" /\ C[1].value = p
      BY <2>1, <2>2, OpFields
    <2>4. Len(E) = 6 /\ E[2] = C[1] /\ E[3] = C[2] /\ E[5] = C[3]
      BY <1>2, <1>7, <2>2 DEF Shape
    <2>5. TRUE /\ E[1].kind \notin Collectives /\ E[4].kind \notin Collectives /\ E[6].kind \notin Collectives
      BY <1>2, <1>5, <1>7, OpFields DEF Shape
    <2> HIDE DEF E, C
    <2>6. util.tool = "flush" /\ ~IsDir(p)
      BY <1>7
    <2>7. CollsFacts(p)
      BY ONLY <1>5, <2>1, <2>2, <2>3, <2>6 DEF CollsFacts, C
    <2> DEFINE g == <<2, 3, 5>>
    <2>8. g \in [1..3 -> 1..6] /\ g[1] = 2 /\ g[2] = 3 /\ g[3] = 5
      OBVIOUS
    <2> HIDE DEF g
    <2>9. \A i, k \in 1..3 : i < k => g[i] < g[k]
      BY ONLY <2>8
    <2>10. \A i \in 1..3 : E[g[i]] = C[i]
      BY ONLY <2>4, <2>8
    <2>11. \A i \in 1..6 : E[i].kind \in Collectives => \E k \in 1..3 : g[k] = i
      BY ONLY <2>5, <2>8
    <2>12. Spread(E, C)
      BY ONLY <2>2, <2>4, <2>8, <2>9, <2>10, <2>11 DEF Spread
    <2> QED
      BY <2>7, <2>12 DEF E, C
  <1>8. CASE util.tool = "rebuild"
    <2>1. C = <<Barrier, Header(p), Exchange, Barrier>> /\ (Decides(p) <=> FALSE)
      BY <1>8, <1>3 DEF Colls, Decides
    <2>2. C \in Seq(WalkOps) /\ Len(C) = 4 /\ C[1] = Barrier /\ C[2] = Header(p) /\ C[3] = Exchange /\ C[4] = Barrier
      BY <2>1, <1>4
    <2>3. C # <<>> /\ C[1].kind = "barrier" /\ C[2].kind = "header" /\ C[3].kind = "exchange" /\ C[4].kind = "barrier"
      BY <2>1, <2>2, OpFields
    <2>4. Len(E) = 5 /\ E[1] = C[1] /\ E[2] = C[2] /\ E[4] = C[3] /\ E[5] = C[4]
      BY <1>2, <1>8, <2>2 DEF Shape
    <2>5. TRUE /\ E[3].kind \notin Collectives
      BY <1>2, <1>5, <1>8, OpFields DEF Shape
    <2> HIDE DEF E, C
    <2>6. util.tool # "flush"
      BY <1>8
    <2>7. CollsFacts(p)
      BY ONLY <1>5, <2>1, <2>2, <2>3, <2>6 DEF CollsFacts, C
    <2> DEFINE g == <<1, 2, 4, 5>>
    <2>8. g \in [1..4 -> 1..5] /\ g[1] = 1 /\ g[2] = 2 /\ g[3] = 4 /\ g[4] = 5
      OBVIOUS
    <2> HIDE DEF g
    <2>9. \A i, k \in 1..4 : i < k => g[i] < g[k]
      BY ONLY <2>8
    <2>10. \A i \in 1..4 : E[g[i]] = C[i]
      BY ONLY <2>4, <2>8
    <2>11. \A i \in 1..5 : E[i].kind \in Collectives => \E k \in 1..4 : g[k] = i
      BY ONLY <2>5, <2>8
    <2>12. Spread(E, C)
      BY ONLY <2>2, <2>4, <2>8, <2>9, <2>10, <2>11 DEF Spread
    <2> QED
      BY <2>7, <2>12 DEF E, C
  <1>9. CASE util.tool \in {"active_reader", "active_writer"} /\ IsDir(p)
    <2>1. C = <<Barrier, Exchange, Header(p), Barrier>> /\ (Decides(p) <=> FALSE)
      BY <1>9 DEF Colls, Decides
    <2>2. C \in Seq(WalkOps) /\ Len(C) = 4 /\ C[1] = Barrier /\ C[2] = Exchange /\ C[3] = Header(p) /\ C[4] = Barrier
      BY <2>1, <1>4
    <2>3. C # <<>> /\ C[1].kind = "barrier" /\ C[2].kind = "exchange" /\ C[3].kind = "header" /\ C[4].kind = "barrier"
      BY <2>1, <2>2, OpFields
    <2>4. Len(E) = 6 /\ E[1] = C[1] /\ E[2] = C[2] /\ E[3] = C[3] /\ E[5] = C[4]
      BY <1>2, <1>9, <2>2 DEF Shape
    <2>5. TRUE /\ E[4].kind \notin Collectives /\ E[6].kind \notin Collectives
      BY <1>2, <1>5, <1>9, OpFields DEF Shape
    <2> HIDE DEF E, C
    <2>6. util.tool # "flush"
      BY <1>9
    <2>7. CollsFacts(p)
      BY ONLY <1>5, <2>1, <2>2, <2>3, <2>6 DEF CollsFacts, C
    <2> DEFINE g == <<1, 2, 3, 5>>
    <2>8. g \in [1..4 -> 1..6] /\ g[1] = 1 /\ g[2] = 2 /\ g[3] = 3 /\ g[4] = 5
      OBVIOUS
    <2> HIDE DEF g
    <2>9. \A i, k \in 1..4 : i < k => g[i] < g[k]
      BY ONLY <2>8
    <2>10. \A i \in 1..4 : E[g[i]] = C[i]
      BY ONLY <2>4, <2>8
    <2>11. \A i \in 1..6 : E[i].kind \in Collectives => \E k \in 1..4 : g[k] = i
      BY ONLY <2>5, <2>8
    <2>12. Spread(E, C)
      BY ONLY <2>2, <2>4, <2>8, <2>9, <2>10, <2>11 DEF Spread
    <2> QED
      BY <2>7, <2>12 DEF E, C
  <1>10. CASE util.tool \in {"active_reader", "active_writer"} /\ ~IsDir(p)
    <2>1. C = <<Barrier, Exchange, Header(p), Barrier, Barrier>> /\ (Decides(p) <=> FALSE)
      BY <1>10 DEF Colls, Decides
    <2>2. C \in Seq(WalkOps) /\ Len(C) = 5 /\ C[1] = Barrier /\ C[2] = Exchange /\ C[3] = Header(p) /\ C[4] = Barrier /\ C[5] = Barrier
      BY <2>1, <1>4
    <2>3. C # <<>> /\ C[1].kind = "barrier" /\ C[2].kind = "exchange" /\ C[3].kind = "header" /\ C[4].kind = "barrier" /\ C[5].kind = "barrier"
      BY <2>1, <2>2, OpFields
    <2>4. Len(E) = 6 /\ E[1] = C[1] /\ E[2] = C[2] /\ E[3] = C[3] /\ E[5] = C[4] /\ E[6] = C[5]
      BY <1>2, <1>10, <2>2 DEF Shape
    <2>5. TRUE /\ E[4].kind \notin Collectives
      BY <1>2, <1>5, <1>10, OpFields DEF Shape
    <2> HIDE DEF E, C
    <2>6. util.tool # "flush"
      BY <1>10
    <2>7. CollsFacts(p)
      BY ONLY <1>5, <2>1, <2>2, <2>3, <2>6 DEF CollsFacts, C
    <2> DEFINE g == <<1, 2, 3, 5, 6>>
    <2>8. g \in [1..5 -> 1..6] /\ g[1] = 1 /\ g[2] = 2 /\ g[3] = 3 /\ g[4] = 5 /\ g[5] = 6
      OBVIOUS
    <2> HIDE DEF g
    <2>9. \A i, k \in 1..5 : i < k => g[i] < g[k]
      BY ONLY <2>8
    <2>10. \A i \in 1..5 : E[g[i]] = C[i]
      BY ONLY <2>4, <2>8
    <2>11. \A i \in 1..6 : E[i].kind \in Collectives => \E k \in 1..5 : g[k] = i
      BY ONLY <2>5, <2>8
    <2>12. Spread(E, C)
      BY ONLY <2>2, <2>4, <2>8, <2>9, <2>10, <2>11 DEF Spread
    <2> QED
      BY <2>7, <2>12 DEF E, C
  <1>11. CASE util.tool \in {"expand", "shrink"} /\ IsDir(p)
    <2>1. C = <<>> /\ (Decides(p) <=> FALSE)
      BY <1>11 DEF Colls, Decides
    <2>2. C \in Seq(WalkOps) /\ Len(C) = 0
      BY <2>1
    <2>3. C = <<>>
      BY <2>1
    <2>4. Len(E) = 1
      BY <1>2, <1>11 DEF Shape
    <2>5. TRUE /\ E[1].kind \notin Collectives
      BY <1>2, <1>5, <1>11, OpFields DEF Shape
    <2> HIDE DEF E, C
    <2>6. util.tool # "flush"
      BY <1>11
    <2>7. CollsFacts(p)
      BY ONLY <1>5, <2>1, <2>2, <2>3, <2>6 DEF CollsFacts, C
    <2> DEFINE g == [i \in 1..0 |-> 1]
    <2>8. g \in [1..0 -> 1..1]
      OBVIOUS
    <2> HIDE DEF g
    <2>9. \A i, k \in 1..0 : i < k => g[i] < g[k]
      BY ONLY <2>8
    <2>10. \A i \in 1..0 : E[g[i]] = C[i]
      BY ONLY <2>4, <2>8
    <2>11. \A i \in 1..1 : E[i].kind \in Collectives => \E k \in 1..0 : g[k] = i
      BY ONLY <2>5, <2>8
    <2>12. Spread(E, C)
      <3>1. g \in [1..Len(C) -> 1..Len(E)]
        BY ONLY <2>2, <2>4, <2>8
      <3>2. \A i, k \in 1..Len(C) : i < k => g[i] < g[k]
        BY ONLY <2>2
      <3>3. \A i \in 1..Len(C) : E[g[i]] = C[i]
        BY ONLY <2>2
      <3>4. \A i \in 1..Len(E) : E[i].kind \in Collectives => \E k \in 1..Len(C) : g[k] = i
        BY ONLY <2>4, <2>5
      <3> QED
        BY ONLY <3>1, <3>2, <3>3, <3>4 DEF Spread
    <2> QED
      BY <2>7, <2>12 DEF E, C
  <1>12. CASE util.tool = "expand" /\ ~IsDir(p)
    <2>1. C = <<Header(p)>> /\ (Decides(p) <=> FALSE)
      BY <1>12 DEF Colls, Decides
    <2>2. C \in Seq(WalkOps) /\ Len(C) = 1 /\ C[1] = Header(p)
      BY <2>1, <1>4
    <2>3. C # <<>> /\ C[1].kind = "header"
      BY <2>1, <2>2, OpFields
    <2>4. Len(E) = 2 /\ E[1] = C[1]
      BY <1>2, <1>12, <2>2 DEF Shape
    <2>5. TRUE /\ E[2].kind \notin Collectives
      BY <1>2, <1>5, <1>12, OpFields DEF Shape
    <2> HIDE DEF E, C
    <2>6. util.tool # "flush"
      BY <1>12
    <2>7. CollsFacts(p)
      BY ONLY <1>5, <2>1, <2>2, <2>3, <2>6 DEF CollsFacts, C
    <2> DEFINE g == <<1>>
    <2>8. g \in [1..1 -> 1..2] /\ g[1] = 1
      OBVIOUS
    <2> HIDE DEF g
    <2>9. \A i, k \in 1..1 : i < k => g[i] < g[k]
      BY ONLY <2>8
    <2>10. \A i \in 1..1 : E[g[i]] = C[i]
      BY ONLY <2>4, <2>8
    <2>11. \A i \in 1..2 : E[i].kind \in Collectives => \E k \in 1..1 : g[k] = i
      BY ONLY <2>5, <2>8
    <2>12. Spread(E, C)
      BY ONLY <2>2, <2>4, <2>8, <2>9, <2>10, <2>11 DEF Spread
    <2> QED
      BY <2>7, <2>12 DEF E, C
  <1>13. CASE util.tool = "shrink" /\ ~IsDir(p)
    <2>1. C = <<Header(p), Exchange>> /\ (Decides(p) <=> FALSE)
      BY <1>13 DEF Colls, Decides
    <2>2. C \in Seq(WalkOps) /\ Len(C) = 2 /\ C[1] = Header(p) /\ C[2] = Exchange
      BY <2>1, <1>4
    <2>3. C # <<>> /\ C[1].kind = "header" /\ C[2].kind = "exchange"
      BY <2>1, <2>2, OpFields
    <2>4. Len(E) = 3 /\ E[1] = C[1] /\ E[2] = C[2]
      BY <1>2, <1>13, <2>2 DEF Shape
    <2>5. TRUE /\ E[3].kind \notin Collectives
      BY <1>2, <1>5, <1>13, OpFields DEF Shape
    <2> HIDE DEF E, C
    <2>6. util.tool # "flush"
      BY <1>13
    <2>7. CollsFacts(p)
      BY ONLY <1>5, <2>1, <2>2, <2>3, <2>6 DEF CollsFacts, C
    <2> DEFINE g == <<1, 2>>
    <2>8. g \in [1..2 -> 1..3] /\ g[1] = 1 /\ g[2] = 2
      OBVIOUS
    <2> HIDE DEF g
    <2>9. \A i, k \in 1..2 : i < k => g[i] < g[k]
      BY ONLY <2>8
    <2>10. \A i \in 1..2 : E[g[i]] = C[i]
      BY ONLY <2>4, <2>8
    <2>11. \A i \in 1..3 : E[i].kind \in Collectives => \E k \in 1..2 : g[k] = i
      BY ONLY <2>5, <2>8
    <2>12. Spread(E, C)
      BY ONLY <2>2, <2>4, <2>8, <2>9, <2>10, <2>11 DEF Spread
    <2> QED
      BY <2>7, <2>12 DEF E, C
  <1> QED
    BY <1>1, <1>6, <1>7, <1>8, <1>9, <1>10, <1>11, <1>12, <1>13

-----------------------------------------------------------------------------
(* What stays when a rank makes a step.                                      *)

\* Directories are made and entries skipped for good.
Grows ==
    /\ util' = util /\ outside \subseteq outside' /\ skipped \subseteq skipped'
    /\ \A r \in Ranks : has[HostOf(r)] \subseteq has'[HostOf(r)]

SameRank(r) == stack'[r] = stack[r] /\ ops'[r] = ops[r] /\ copied'[r] = copied[r]

LEMMA PhaseStays ==
    ASSUME Grows, NEW r \in Ranks, SameRank(r), NEW w, Phases(r, w)
    PROVE  Phases(r, w)'
  <1>0. SameRoles /\ SameTree
    BY RolesStay, TreeStays DEF Grows
  <1>1. /\ \A p, d : ReadsDir(p, d)' <=> ReadsDir(p, d)
        /\ \A p, d : InLoopAt(p, d)' = InLoopAt(p, d)
        /\ \A p : HostOf(p)' = HostOf(p)
        /\ \A p : Creates(p)' <=> Creates(p)
        /\ \A p : MasterOf(p)' = MasterOf(p)
    BY <1>0 DEF SameRoles
  <1>2. /\ Things' = Things
        /\ \A p : IsDir(p)' <=> IsDir(p)
        /\ \A p : Entries(p)' = Entries(p)
        /\ \A p, q : Entry(p, q)' = Entry(p, q)
        /\ \A q, p : EntryOps(q, p)' = EntryOps(q, p)
    BY <1>0 DEF SameTree
  <1>3. util' = util /\ stack'[r] = stack[r] /\ ops'[r] = ops[r] /\ copied'[r] = copied[r]
    BY DEF Grows, SameRank
  <1>4. \A n : Here(r, w, n)' <=> Here(r, w, n)
    BY ONLY <1>3 DEF Here
  <1>5. Top(r)' = Top(r) /\ (Copying(r)' <=> Copying(r)) /\ (Deciding(r)' <=> Deciding(r))
    BY ONLY <1>3 DEF Top, Copying, Deciding
  <1>6. ASSUME NEW path \in Things, NEW j \in Nat, DealsWith(r, w, path, j)
        PROVE  DealsWith(r, w, path, j)'
    <2>1. /\ stack[r] # <<>> /\ path \in Entries(Top(r).dir) /\ Top(r).at = InLoopAt(r, Top(r).dir)
          /\ j < Len(EntryOps(r, path)) /\ After(ops[r], EntryOps(r, path), j) /\ MadeBy(r, path, j)
      BY <1>6 DEF DealsWith
    <2>2. MadeBy(r, path, j)'
      <3>1. outside \subseteq outside' /\ has[HostOf(r)] \subseteq has'[HostOf(r)]
        BY DEF Grows
      <3> QED
        BY ONLY <1>1, <1>2, <1>3, <1>5, <2>1, <3>1 DEF MadeBy
    <2>3. /\ (path \in Entries(Top(r).dir))' /\ (Top(r).at = InLoopAt(r, Top(r).dir))'
      <3>1. \A t : t = Top(r) => Top(r)' = t
        BY ONLY <1>5
      <3>2. Entries(Top(r).dir)' = Entries(Top(r).dir) /\ InLoopAt(r, Top(r).dir)' = InLoopAt(r, Top(r).dir)
        BY ONLY <1>1, <1>2, <1>3, <1>5 DEF Top, Entries, Parent, InLoopAt, ReadsDir
      <3> QED
        BY ONLY <1>5, <2>1, <3>2
    <2>4. (util.tool # "preload" =>
             /\ Spread(ops[r], w.todo) /\ GotBy(r, w, path) /\ Lined(w.dirs, stack[r], IF IsDir(path) THEN 1 ELSE 0)
             /\ (IsDir(path) => w.dirs[1] = path))'
      <3>1. util.tool # "preload" =>
              /\ Spread(ops[r], w.todo) /\ GotBy(r, w, path) /\ Lined(w.dirs, stack[r], IF IsDir(path) THEN 1 ELSE 0)
              /\ (IsDir(path) => w.dirs[1] = path)
        BY <1>6 DEF DealsWith
      <3>2. GotBy(r, w, path)' <=> GotBy(r, w, path)
        BY ONLY <1>3, <1>5 DEF GotBy
      <3>3. Spread(ops[r], w.todo)' <=> Spread(ops[r], w.todo)
        BY ONLY <1>3 DEF Spread
      <3>4. Lined(w.dirs, stack[r], IF IsDir(path) THEN 1 ELSE 0)' <=> Lined(w.dirs, stack[r], IF IsDir(path) THEN 1 ELSE 0)
        BY ONLY <1>2, <1>3 DEF Lined
      <3> QED
        BY ONLY <1>2, <1>3, <3>1, <3>2, <3>3, <3>4
    <2>5. (j < Len(EntryOps(r, path)) /\ After(ops[r], EntryOps(r, path), j))'
      BY ONLY <1>2, <1>3, <2>1 DEF After
    <2> QED
      BY <1>3, <2>1, <2>2, <2>3, <2>4, <2>5 DEF DealsWith
  <1>7. Deals(r, w) => Deals(r, w)'
    BY <1>2, <1>6 DEF Deals
  <1>8. /\ (ReadsDir(r, Top(r).dir)' <=> ReadsDir(r, Top(r).dir))
        /\ Entries(Top(r).dir)' = Entries(Top(r).dir)
        /\ \A v : Entry(Top(r).dir, v)' = Entry(Top(r).dir, v)
    <2>1. ReadsDir(r, Top(r).dir)' <=> (util'.tool = "preload" \/ r = MasterOf(Top(r).dir)')
      BY ONLY DEF ReadsDir
    <2>2. MasterOf(Top(r).dir)' = MasterOf(Top(r).dir)
      <3>1. Size' = Size /\ master_old' = master_old
        BY <1>0 DEF SameRoles
      <3> QED
        BY ONLY <1>3, <1>5, <3>1 DEF MasterOf
    <2> QED
      BY ONLY <1>3, <1>5, <2>2 DEF ReadsDir, Entry, Entries, Parent
  <1>9. (InLoop(r, w) => InLoop(r, w)') /\ (Closes(r, w) => Closes(r, w)')
    BY ONLY <1>3, <1>4, <1>5, <1>8 DEF InLoop, Closes
  <1>10. (SendsEntry(r, w) => SendsEntry(r, w)')
    BY ONLY <1>2, <1>3, <1>4, <1>5, <1>8 DEF SendsEntry
  <1>11. (Awaits(r, w) => Awaits(r, w)') /\ (SendsEnd(r, w) => SendsEnd(r, w)')
    BY ONLY <1>3, <1>4, <1>5, <1>8 DEF Awaits, SendsEnd
  <1>12. (Out(r, w) => Out(r, w)') /\ (Gone(r, w) => Gone(r, w)')
    BY ONLY <1>3, <1>4 DEF Out, Gone, Ended
  <1> QED
    BY <1>7, <1>9, <1>10, <1>11, <1>12 DEF Phases

LEMMA RankStays ==
    ASSUME Grows, NEW r \in Ranks, SameRank(r), NEW w, RankOk(r, w)
    PROVE  RankOk(r, w)'
  <1>0. SameRoles /\ SameTree
    BY RolesStay, TreeStays DEF Grows
  <1>1. /\ \A p, d : InLoopAt(p, d)' = InLoopAt(p, d)
        /\ \A p : HostOf(p)' = HostOf(p)
        /\ \A p : Creates(p)' <=> Creates(p)
        /\ \A p : Entries(p)' = Entries(p)
    BY <1>0 DEF SameRoles, SameTree
  <1>2. /\ util' = util /\ stack'[r] = stack[r] /\ ops'[r] = ops[r] /\ copied'[r] = copied[r]
        /\ skipped \subseteq skipped' /\ has[HostOf(r)] \subseteq has'[HostOf(r)]
    BY DEF Grows, SameRank
  <1>3. Phases(r, w)'
    BY PhaseStays DEF RankOk
  <1>4. ASSUME NEW i \in 1..Len(stack[r]), FrameOk(r, w, i)
        PROVE  FrameOk(r, w, i)'
    <2> DEFINE f == stack[r][i]
    <2>1. f = stack'[r][i]
      BY <1>2
    <2>2. Before(r, w) \subseteq Before(r, w)' /\ OnItsWay(r)' = OnItsWay(r)
      BY ONLY <1>2 DEF Before, OnItsWay
    <2>3. /\ f.left \subseteq Entries(f.dir)
          /\ i > 1 => f.at = InLoopAt(r, f.dir)
          /\ f.at \in {"read", "close"} => Entries(f.dir) \subseteq f.left \cup Before(r, w) \cup OnItsWay(r)
          /\ f.at = "close" => f.left = {}
          /\ util.tool # "expand" /\ Creates(r) => f.dir \in has[HostOf(r)]
      BY <1>4 DEF FrameOk
    <2>4. Entries(stack[r][i].dir)' = Entries(f.dir)
      BY ONLY <1>2 DEF Entries, Parent
    <2>5. InLoopAt(r, stack[r][i].dir)' = InLoopAt(r, f.dir)
      <3>1. MasterOf(stack[r][i].dir)' = MasterOf(f.dir)
        <4>1. Size' = Size /\ master_old' = master_old
          BY <1>0 DEF SameRoles
        <4> QED
          BY ONLY <1>2, <4>1 DEF MasterOf
      <3> QED
        BY ONLY <1>2, <3>1 DEF InLoopAt, ReadsDir
    <2> QED
      BY ONLY <1>1, <1>2, <2>1, <2>2, <2>3, <2>4, <2>5 DEF FrameOk
  <1>5. LeftBehind(r)'
    <2>1. LeftBehind(r)
      BY DEF RankOk
    <2> QED
      BY ONLY <1>1, <1>2, <2>1 DEF LeftBehind
  <1> QED
    BY <1>2, <1>3, <1>4, <1>5 DEF RankOk

LEMMA PlaceStays ==
    ASSUME Grows, NEW w, PlaceOk(w)
    PROVE  PlaceOk(w)'
  <1>0. SameTree
    BY TreeStays DEF Grows
  <1>1. /\ \A p : Entries(p)' = Entries(p)
        /\ \A p : HasCopy(p)' <=> HasCopy(p)
    BY <1>0 DEF SameTree
  <1>2. util' = util /\ outside \subseteq outside' /\ skipped \subseteq skipped'
    BY DEF Grows
  <1>3. FlushPlace(w) => FlushPlace(w)'
    BY ONLY <1>2 DEF FlushPlace
  <1>4. SentPlace(w) => SentPlace(w)'
    BY ONLY <1>1, <1>2 DEF SentPlace
  <1> QED
    BY ONLY PlaceOk(w), <1>2, <1>3, <1>4 DEF PlaceOk

-----------------------------------------------------------------------------
(* A step of rank r outside the collectives.                                 *)

LEMMA AloneKeeps ==
    ASSUME Grows, UNCHANGED comm, NEW T, Track(T), NEW r \in Ranks, ~inside[r],
           \A s \in Ranks \ {r} : SameRank(s),
           NEW k \in 0..Len(net), k = passed[r], RankOk(r, T[k])'
    PROVE  Track(T)'
  <1>0. SameRoles /\ SameTree /\ SameSets
    BY RolesStay, TreeStays, SetsStay DEF Grows
  <1>1. /\ Ranks' = Ranks /\ Places' = Places /\ WalkStart' = WalkStart /\ \A p : Entries(p)' = Entries(p)
        /\ \A w : NextOp(w)' = NextOp(w)
        /\ \A w, v : Onward(w, v)' = Onward(w, v)
    BY <1>0 DEF SameRoles, SameTree, SameSets
  <1>2. passed' = passed /\ inside' = inside /\ net' = net
    BY DEF comm
  <1>3. T \in [0..Len(net) -> Places] /\ T[0] = WalkStart
    BY DEF Track
  <1>4. \A n : Came(n)' <=> Came(n)
    BY ONLY <1>1, <1>2 DEF Came
  <1>5. \A n \in 1..Len(net) : NetOk(T, n)'
    <2> SUFFICES ASSUME NEW n \in 1..Len(net) PROVE NetOk(T, n)'
      OBVIOUS
    <2>1. NetOk(T, n)
      BY DEF Track
    <2>2. {s \in Ranks : passed[s] >= n \/ (passed[s] = n - 1 /\ inside[s])}'
          = {s \in Ranks : passed[s] >= n \/ (passed[s] = n - 1 /\ inside[s])}
      BY ONLY <1>1, <1>2
    <2> QED
      BY ONLY <1>1, <1>2, <1>4, <2>1, <2>2 DEF NetOk, Agree
  <1>6. \A n \in 0..Len(net) : n = 0 \/ Came(n)' => PlaceOk(T[n])'
    <2>1. \A n \in 0..Len(net) : n = 0 \/ Came(n) => PlaceOk(T[n])
      BY DEF Track
    <2> QED
      BY <1>4, <2>1, PlaceStays
  <1>7. ASSUME NEW s \in Ranks
        PROVE  RankNet(s)' /\ \A n \in 0..Len(net) : n = passed[s] => RankOk(s, T[n])'
    <2>1. RankNet(s) /\ \A n \in 0..Len(net) : n = passed[s] => RankOk(s, T[n])
      BY DEF Track
    <2>2. CASE s = r
      <3>1. RankNet(s)'
        BY ONLY <1>2, <2>1, <2>2, ~inside[r] DEF RankNet
      <3> QED
        BY <2>2, <3>1
    <2>3. CASE s # r
      <3>1. SameRank(s)
        BY <2>3
      <3>2. RankNet(s)'
        BY ONLY <1>2, <2>1, <3>1 DEF RankNet, SameRank
      <3> QED
        BY <2>1, <3>1, <3>2, RankStays
    <2> QED
      BY <2>2, <2>3
  <1> QED
    BY <1>1, <1>2, <1>3, <1>5, <1>6, <1>7 DEF Track

LEMMA RankTyped ==
    ASSUME WalkType, NEW r \in Ranks
    PROVE  /\ stack[r] \in Seq(Frames) /\ ops[r] \in Seq(WalkOps) /\ copied[r] \subseteq Things
           /\ passed[r] \in Nat /\ inside[r] \in BOOLEAN
           /\ stack[r] # <<>> => /\ Top(r) \in Frames /\ Top(r) = stack[r][1] /\ Len(stack[r]) \in Nat \ {0}
                                 /\ Top(r).dir \in util.dirs /\ Top(r).left \subseteq Things
  <1>1. stack[r] \in Seq(Frames) /\ ops[r] \in Seq(WalkOps) /\ copied[r] \subseteq Things
        /\ passed[r] \in Nat /\ inside[r] \in BOOLEAN
    BY DEF WalkType
  <1>2. stack[r] # <<>> => Top(r) \in Frames /\ Top(r) = stack[r][1] /\ Len(stack[r]) \in Nat \ {0}
    BY <1>1, TailOf DEF Top
  <1>3. \A f \in Frames : f.dir \in util.dirs /\ f.left \subseteq Things
    BY DEF Frames
  <1> QED
    BY <1>1, <1>2, <1>3

LEMMA EntryInTree ==
    ASSUME util \in Jobs, NEW d, NEW p \in Entries(d)
    PROVE  p \in Things /\ p # Root /\ p # End /\ Front(p) = d /\ Parent(p) = d
  <1>1. p \in Things /\ p \in util.files \cup (util.dirs \ {Root}) /\ Parent(p) = d
    BY DEF Entries, Things
  <1>2. Root \in util.dirs /\ End \notin util.dirs \cup util.files /\ util.dirs \cap util.files = {}
    BY TreeWalkAssumption
  <1> QED
    BY <1>1, <1>2 DEF Things, Parent

\* A rank that does nothing is in the loop of list(), at its end, or out of it.
LEMMA IdleRank ==
    ASSUME NEW r \in Ranks, NEW w, WalkType, Phases(r, w), ops[r] = <<>>
    PROVE  ~w.over /\ (InLoop(r, w) \/ Closes(r, w) \/ Out(r, w))
  <1>1. ~Deals(r, w)
    <2> SUFFICES ASSUME NEW path \in Things, NEW j \in Nat, DealsWith(r, w, path, j) PROVE FALSE
      BY DEF Deals
    <2>1. Len(ops[r]) = Len(EntryOps(r, path)) - j /\ j < Len(EntryOps(r, path))
      BY DEF DealsWith, After
    <2>2. Len(ops[r]) = 0
      OBVIOUS
    <2> QED
      BY ONLY <2>1, <2>2
  <1>2. ~SendsEntry(r, w)
    <2> SUFFICES ASSUME NEW path, ops[r] = <<Entry(Top(r).dir, path)>> \o EntryOps(r, path),
                        path \in Entries(Top(r).dir) PROVE FALSE
      BY DEF SendsEntry
    <2>1. ops[r] \in Seq(WalkOps)
      BY DEF WalkType
    <2> QED
      BY <2>1, ConcatEmptySeq
  <1>3. ~Awaits(r, w) /\ ~SendsEnd(r, w) /\ ~Gone(r, w)
    BY DEF Awaits, SendsEnd, Gone, Ended
  <1> QED
    BY <1>1, <1>2, <1>3 DEF Phases

LEMMA FrameKept ==
    ASSUME Grows, NEW r \in Ranks, NEW w, NEW v, NEW i, NEW k, FrameOk(r, w, i), stack'[r][k] = stack[r][i],
           k > 1 => i > 1 \/ stack[r][i].at = InLoopAt(r, stack[r][i].dir),
           Before(r, w) \cup OnItsWay(r) \subseteq Before(r, v)' \cup OnItsWay(r)'
    PROVE  FrameOk(r, v, k)'
  <1>0. SameRoles
    BY RolesStay DEF Grows
  <1>1. /\ \A p : HostOf(p)' = HostOf(p)
        /\ \A p : Creates(p)' <=> Creates(p)
        /\ Size' = Size /\ master_old' = master_old
    BY <1>0 DEF SameRoles
  <1>2. util' = util /\ has[HostOf(r)] \subseteq has'[HostOf(r)]
    BY DEF Grows
  <1> DEFINE f == stack[r][i]
  <1>3. /\ f.left \subseteq Entries(f.dir)
        /\ i > 1 => f.at = InLoopAt(r, f.dir)
        /\ f.at \in {"read", "close"} => Entries(f.dir) \subseteq f.left \cup Before(r, w) \cup OnItsWay(r)
        /\ f.at = "close" => f.left = {}
        /\ util.tool # "expand" /\ Creates(r) => f.dir \in has[HostOf(r)]
    BY DEF FrameOk
  <1>4. Entries(stack[r][k].dir)' = Entries(f.dir)
    BY ONLY <1>2, stack'[r][k] = stack[r][i] DEF Entries, Parent
  <1>5. MasterOf(stack[r][k].dir)' = MasterOf(f.dir)
    BY ONLY <1>1, <1>2, stack'[r][k] = stack[r][i] DEF MasterOf
  <1>6. InLoopAt(r, stack[r][k].dir)' = InLoopAt(r, f.dir)
    BY ONLY <1>2, <1>5 DEF InLoopAt, ReadsDir
  <1>7. k > 1 => f.at = InLoopAt(r, f.dir)
    BY <1>3
  <1>8. f.at \in {"read", "close"} => Entries(f.dir) \subseteq f.left \cup Before(r, v)' \cup OnItsWay(r)'
    BY <1>3
  <1>9. f = stack'[r][k]
    OBVIOUS
  <1> HIDE DEF f
  <1> QED
    BY ONLY <1>1, <1>2, <1>3, <1>4, <1>6, <1>7, <1>8, <1>9 DEF FrameOk

\* The first call of a rank goes on in its directory.
TopKept(r, w) ==
    /\ stack' \in [Ranks -> Seq(Frames)] /\ stack'[r] # <<>>
    /\ \A n : Here(r, w, n) => Here(r, w, n)'
    /\ \A i \in 1..Len(stack'[r]) : FrameOk(r, w, i)'
    /\ LeftBehind(r)'

LEMMA TopChanges ==
    ASSUME WalkType, NEW r \in Ranks, Grows, NEW w, stack[r] # <<>>, ops[r] = <<>>, copied' = copied,
           NEW f \in Frames, stack' = [stack EXCEPT ![r] = [stack[r] EXCEPT ![1] = f]],
           f.dir = Top(r).dir, f.left \subseteq Entries(f.dir), f.at = "close" => f.left = {},
           f.at \in {"read", "close"} => Entries(f.dir) \subseteq f.left \cup Before(r, w)' \cup OnItsWay(r)',
           \A i \in 1..Len(stack[r]) : FrameOk(r, w, i), LeftBehind(r)
    PROVE  TopKept(r, w) /\ Top(r)' = f
  <1>1. stack[r] \in Seq(Frames) /\ Top(r) = stack[r][1] /\ Len(stack[r]) \in Nat \ {0}
    BY RankTyped
  <1>2. r \in DOMAIN stack /\ stack \in [Ranks -> Seq(Frames)]
    BY DEF WalkType
  <1>3. stack'[r] = [stack[r] EXCEPT ![1] = f]
    BY <1>2
  <1>4. /\ stack'[r] \in Seq(Frames) /\ stack'[r] # <<>> /\ Len(stack'[r]) = Len(stack[r]) /\ stack'[r][1] = f
        /\ Head(stack'[r]) = f
        /\ \A i \in 2..Len(stack[r]) : stack'[r][i] = stack[r][i]
    BY <1>1, <1>3, SetFirst
  <1>5. \A i \in 1..Len(stack[r]) : stack'[r][i].dir = stack[r][i].dir
    <2> SUFFICES ASSUME NEW i \in 1..Len(stack[r]) PROVE stack'[r][i].dir = stack[r][i].dir
      OBVIOUS
    <2>1. CASE i = 1
      BY <2>1, <1>1, <1>4
    <2>2. CASE i # 1
      BY <2>2, <1>1, <1>4
    <2> QED
      BY <2>1, <2>2
  <1>6. stack' \in [Ranks -> Seq(Frames)]
    BY <1>2, <1>3, <1>4
  <1>7. \A n : Here(r, w, n) => Here(r, w, n)'
    <2>1. \A ds, n : Lined(ds, stack[r], n) => Lined(ds, stack'[r], n)
      BY ONLY <1>4, <1>5 DEF Lined
    <2> QED
      BY ONLY <2>1, copied' = copied, Grows DEF Here, Grows
  <1>8. OnItsWay(r) = {} /\ Before(r, w) \subseteq Before(r, w)'
    BY ONLY ops[r] = <<>>, copied' = copied, Grows DEF OnItsWay, Before, Grows
  <1>9. ASSUME NEW i \in 1..Len(stack'[r])
        PROVE  FrameOk(r, w, i)'
    <2>1. i \in 1..Len(stack[r]) /\ FrameOk(r, w, i)
      BY <1>4
    <2>2. CASE i # 1
      <3>1. stack'[r][i] = stack[r][i]
        BY <1>1, <1>4, <2>1, <2>2
      <3>2. i > 1
        BY <1>1, <2>1, <2>2
      <3> QED
        BY <1>8, <2>1, <3>1, <3>2, FrameKept
    <2>3. CASE i = 1
      <3>1. util.tool # "expand" /\ Creates(r) => f.dir \in has[HostOf(r)]
        BY <1>1, <2>1, <2>3 DEF FrameOk
      <3>2. /\ HostOf(r)' = HostOf(r)
            /\ Creates(r)' <=> Creates(r)
            /\ util' = util /\ has[HostOf(r)] \subseteq has'[HostOf(r)]
        BY RolesStay DEF Grows, SameRoles
      <3>3. Entries(stack[r][i].dir)' = Entries(f.dir)
        BY ONLY <3>2, <2>3, <1>4 DEF Entries, Parent
      <3>4. stack'[r][i] = f
        BY <1>4, <2>3
      <3> QED
        BY ONLY <2>3, <3>1, <3>2, <3>3, <3>4, f.left \subseteq Entries(f.dir), f.at = "close" => f.left = {},
                f.at \in {"read", "close"} => Entries(f.dir) \subseteq f.left \cup Before(r, w)' \cup OnItsWay(r)'
           DEF FrameOk
    <2> QED
      BY <2>2, <2>3
  <1>10. LeftBehind(r)'
    <2>1. \A p : Entries(p)' = Entries(p)
      BY TreeStays DEF Grows, SameTree
    <2>2. util' = util /\ skipped \subseteq skipped'
      BY DEF Grows
    <2> QED
      BY ONLY <1>4, <1>5, <2>1, <2>2, LeftBehind(r), copied' = copied, ops[r] = <<>> DEF LeftBehind
  <1>11. Top(r)' = f
    BY <1>4 DEF Top
  <1> QED
    BY <1>4, <1>6, <1>7, <1>9, <1>10, <1>11 DEF TopKept

LEMMA TopDirKept ==
    ASSUME util' = util, NEW r, NEW d, Top(r)'.dir = d
    PROVE  /\ ReadsDir(r, Top(r).dir)' <=> ReadsDir(r, d)
           /\ Entries(Top(r).dir)' = Entries(d)
           /\ \A v : Entry(Top(r).dir, v)' = Entry(d, v)
           /\ InLoopAt(r, Top(r).dir)' = InLoopAt(r, d)
  <1>1. Size' = Size /\ master_old' = master_old
    BY RolesStay DEF SameRoles
  <1>2. MasterOf(Top(r).dir)' = MasterOf(d)
    BY ONLY <1>1, util' = util, Top(r)'.dir = d DEF MasterOf
  <1>3. ReadsDir(r, Top(r).dir)' <=> ReadsDir(r, d)
    BY ONLY <1>2, util' = util DEF ReadsDir
  <1>4. Entries(Top(r).dir)' = Entries(d)
    BY ONLY util' = util, Top(r)'.dir = d DEF Entries, Parent
  <1>5. \A v : Entry(Top(r).dir, v)' = Entry(d, v)
    BY ONLY <1>2 DEF Entry
  <1>6. InLoopAt(r, Top(r).dir)' = InLoopAt(r, d)
    BY ONLY <1>3 DEF InLoopAt
  <1> QED
    BY <1>3, <1>4, <1>5, <1>6

\* What a step of its own leaves of a rank that was where w says.
Goes(r, w) == WalkType' /\ Grows /\ (\A s \in Ranks \ {r} : SameRank(s)) /\ RankOk(r, w)'

LEMMA TypeStays ==
    ASSUME WalkType, util' = util, UNCHANGED comm, UNCHANGED disks, skipped \subseteq skipped', skipped' \subseteq Things,
           stack' \in [Ranks -> Seq(Frames)], ops' \in [Ranks -> Seq(WalkOps)]
    PROVE  WalkType'
  <1>1. /\ Ranks' = Ranks /\ Frames' = Frames /\ WalkOps' = WalkOps /\ Meetings' = Meetings /\ Things' = Things
    BY RolesStay, TreeStays, SetsStay DEF SameRoles, SameTree, SameSets
  <1> QED
    BY <1>1 DEF WalkType, comm, disks

LEMMA OpendirKeeps ==
    ASSUME util \in Jobs, Walkable, WalkType, NEW r \in Ranks, NEW w \in Places, RankOk(r, w), Opendir(r)
    PROVE  Goes(r, w)
  <1>1. /\ util' = util /\ ops' = ops /\ UNCHANGED comm /\ UNCHANGED disks /\ skipped' = skipped
        /\ has' = has /\ outside' = outside /\ copied' = copied
        /\ ops[r] = <<>> /\ stack[r] # <<>> /\ Top(r).at = "open" /\ ReadsDir(r, Top(r).dir)
    BY DEF Opendir, At, Listing, disks
  <1>2. /\ stack[r] \in Seq(Frames) /\ Top(r) \in Frames /\ Top(r) = stack[r][1] /\ Len(stack[r]) \in Nat \ {0}
        /\ Top(r).dir \in util.dirs
    BY <1>1, RankTyped
  <1>3. Grows
    BY <1>1 DEF Grows
  <1>4. ~w.over /\ InLoop(r, w)
    <2>1. Phases(r, w)
      BY DEF RankOk
    <2>2. ~w.over /\ (InLoop(r, w) \/ Closes(r, w) \/ Out(r, w))
      BY <1>1, <2>1, IdleRank
    <2> QED
      BY <1>1, <2>2 DEF Closes, Out
  <1> DEFINE d == Top(r).dir
             f == [Top(r) EXCEPT !.at = "read", !.left = Entries(d)]
  <1>5. f \in Frames /\ f.dir = d /\ f.at = "read" /\ f.left = Entries(d)
    <2>1. Entries(d) \subseteq Things
      BY DEF Entries, Things
    <2> QED
      BY <1>2, <2>1 DEF Frames
  <1>6. stack' = [stack EXCEPT ![r] = [stack[r] EXCEPT ![1] = f]]
    <2>1. stack' = [stack EXCEPT ![r] = [stack[r] EXCEPT ![1] = [stack[r][1] EXCEPT !.at = "read", !.left = Entries(Top(r).dir)]]]
      BY DEF Opendir, WalkType
    <2> QED
      BY <1>2, <2>1
  <1>7. Before(r, w)' = Before(r, w)
    BY <1>1 DEF Before
  <1> HIDE DEF f
  <1>8. TopKept(r, w) /\ Top(r)' = f
    BY <1>1, <1>2, <1>3, <1>5, <1>6, TopChanges DEF RankOk
  <1>9. InLoop(r, w)'
    <2>1. Here(r, w, 0)'
      BY <1>4, <1>8 DEF InLoop, TopKept
    <2>2. ReadsDir(r, Top(r).dir)'
      BY <1>1, <1>5, <1>8, TopDirKept
    <2> QED
      BY <1>1, <1>5, <1>8, <2>1, <2>2 DEF InLoop, TopKept
  <1>10. RankOk(r, w)'
    BY <1>4, <1>8, <1>9 DEF RankOk, Phases, TopKept
  <1>11. WalkType'
    BY <1>1, <1>8, TypeStays DEF WalkType, TopKept
  <1>12. \A s \in Ranks \ {r} : SameRank(s)
    BY <1>1, <1>6 DEF SameRank, WalkType
  <1> QED
    BY <1>3, <1>10, <1>11, <1>12 DEF Goes

LEMMA StatFailsKeeps ==
    ASSUME util \in Jobs, Walkable, WalkType, NEW r \in Ranks, NEW w \in Places, RankOk(r, w),
           NEW path, StatFails(r, path)
    PROVE  Goes(r, w)
  <1>1. /\ util' = util /\ ops' = ops /\ UNCHANGED comm /\ UNCHANGED disks /\ skipped' = skipped \cup {path}
        /\ has' = has /\ outside' = outside /\ copied' = copied /\ path \in Top(r).left
        /\ ops[r] = <<>> /\ stack[r] # <<>> /\ Top(r).at = "read"
    BY DEF StatFails, At, Listing, disks
  <1>2. /\ stack[r] \in Seq(Frames) /\ Top(r) \in Frames /\ Top(r) = stack[r][1] /\ Len(stack[r]) \in Nat \ {0}
        /\ Top(r).dir \in util.dirs /\ Top(r).left \subseteq Things
    BY <1>1, RankTyped
  <1>3. Grows
    BY <1>1 DEF Grows
  <1>4. ~w.over /\ InLoop(r, w)
    <2>1. Phases(r, w)
      BY DEF RankOk
    <2>2. ~w.over /\ (InLoop(r, w) \/ Closes(r, w) \/ Out(r, w))
      BY <1>1, <2>1, IdleRank
    <2> QED
      BY <1>1, <2>2 DEF Closes, Out
  <1> DEFINE d == Top(r).dir
             f == [Top(r) EXCEPT !.left = @ \ {path}]
  <1>5. f \in Frames /\ f.dir = d /\ f.at = "read" /\ f.left = Top(r).left \ {path}
    BY <1>1, <1>2 DEF Frames
  <1>6. stack' = [stack EXCEPT ![r] = [stack[r] EXCEPT ![1] = f]]
    <2>1. stack' = [stack EXCEPT ![r] = [stack[r] EXCEPT ![1] = [stack[r][1] EXCEPT !.left = @ \ {path}]]]
      BY DEF StatFails, WalkType
    <2> QED
      BY <1>2, <2>1
  <1>7. Before(r, w)' = Before(r, w) \cup {path}
    BY <1>1 DEF Before
  <1>8. Top(r).left \subseteq Entries(d) /\ Entries(d) \subseteq Top(r).left \cup Before(r, w)
    <2>1. FrameOk(r, w, 1)
      BY <1>2 DEF RankOk
    <2>2. OnItsWay(r) = {}
      BY <1>1 DEF OnItsWay
    <2> QED
      BY <1>1, <1>2, <2>1, <2>2 DEF FrameOk
  <1>9. Entries(d) \subseteq f.left \cup Before(r, w)'
    BY <1>5, <1>7, <1>8
  <1> HIDE DEF f
  <1>10. TopKept(r, w) /\ Top(r)' = f
    BY <1>1, <1>2, <1>3, <1>5, <1>6, <1>8, <1>9, TopChanges DEF RankOk
  <1>11. InLoop(r, w)'
    <2>1. Here(r, w, 0)'
      BY <1>4, <1>10 DEF InLoop, TopKept
    <2>2. ReadsDir(r, d)
      BY <1>1, <1>4 DEF InLoop
    <2>3. ReadsDir(r, Top(r).dir)'
      BY <1>1, <1>5, <1>10, <2>2, TopDirKept
    <2> QED
      BY <1>1, <1>5, <1>10, <2>1, <2>3 DEF InLoop, TopKept
  <1>12. RankOk(r, w)'
    BY <1>4, <1>10, <1>11 DEF RankOk, Phases, TopKept
  <1>13. skipped \subseteq skipped' /\ skipped' \subseteq Things
    BY <1>1, <1>2 DEF WalkType
  <1>14. WalkType'
    BY <1>1, <1>10, <1>13, TypeStays DEF WalkType, TopKept
  <1>15. \A s \in Ranks \ {r} : SameRank(s)
    BY <1>1, <1>6 DEF SameRank, WalkType
  <1> QED
    BY <1>3, <1>12, <1>14, <1>15 DEF Goes

LEMMA ReadEntryKeeps ==
    ASSUME util \in Jobs, Walkable, WalkType, NEW r \in Ranks, NEW w \in Places, RankOk(r, w),
           NEW path, ReadEntry(r, path)
    PROVE  Goes(r, w)
  <1>1. /\ util' = util /\ UNCHANGED comm /\ UNCHANGED disks /\ skipped' = skipped
        /\ has' = has /\ outside' = outside /\ copied' = copied /\ path \in Top(r).left
        /\ ops[r] = <<>> /\ stack[r] # <<>> /\ Top(r).at = "read"
        /\ ops' = [ops EXCEPT ![r] = Send(Top(r).dir, path) \o EntryOps(r, path)]
    BY DEF ReadEntry, At, Listing, disks
  <1>2. /\ stack[r] \in Seq(Frames) /\ Top(r) \in Frames /\ Top(r) = stack[r][1] /\ Len(stack[r]) \in Nat \ {0}
        /\ Top(r).dir \in util.dirs /\ Top(r).left \subseteq Things
    BY <1>1, RankTyped
  <1>3. Grows
    BY <1>1 DEF Grows
  <1>4. ~w.over /\ InLoop(r, w)
    <2>1. Phases(r, w)
      BY DEF RankOk
    <2>2. ~w.over /\ (InLoop(r, w) \/ Closes(r, w) \/ Out(r, w))
      BY <1>1, <2>1, IdleRank
    <2> QED
      BY <1>1, <2>2 DEF Closes, Out
  <1> DEFINE d == Top(r).dir
             f == [Top(r) EXCEPT !.left = @ \ {path}]
             E == EntryOps(r, path)
             o == Send(d, path) \o E
  <1>5. f \in Frames /\ f.dir = d /\ f.at = "read" /\ f.left = Top(r).left \ {path}
    BY <1>1, <1>2 DEF Frames
  <1>6. stack' = [stack EXCEPT ![r] = [stack[r] EXCEPT ![1] = f]]
    <2>1. stack' = [stack EXCEPT ![r] = [stack[r] EXCEPT ![1] = [stack[r][1] EXCEPT !.left = @ \ {path}]]]
      BY DEF ReadEntry, WalkType
    <2> QED
      BY <1>2, <2>1
  <1>7. Before(r, w)' = Before(r, w)
    BY <1>1 DEF Before
  <1>8. Top(r).left \subseteq Entries(d) /\ Entries(d) \subseteq Top(r).left \cup Before(r, w)
    <2>1. FrameOk(r, w, 1)
      BY <1>2 DEF RankOk
    <2>2. OnItsWay(r) = {}
      BY <1>1 DEF OnItsWay
    <2> QED
      BY <1>1, <1>2, <2>1, <2>2 DEF FrameOk
  <1>9. path \in Entries(d) /\ path \in Things /\ path # Root /\ d \in Things
    BY <1>1, <1>2, <1>8, EntryInTree DEF Things
  <1>10. EntryFacts(r, path) /\ E \in Seq(WalkOps) /\ Len(E) \in 1..6
    <2>1. EntryFacts(r, path)
      BY <1>9, EntryIs
    <2> QED
      BY ONLY <2>1 DEF EntryFacts
  <1>11. ReadsDir(r, d)
    BY <1>1, <1>4 DEF InLoop
  <1>12. ops'[r] = o
    BY <1>1 DEF WalkType
  <1> HIDE DEF f, E
  <1>13. /\ o \in Seq(WalkOps) /\ o # <<>> /\ Head(o).value = path
         /\ Head(o).kind = IF util.tool = "preload" THEN "copy" ELSE "entry"
         /\ util.tool = "preload" => o = E
         /\ util.tool # "preload" => o = <<Entry(d, path)>> \o E
    <2>1. CASE util.tool = "preload"
      <3>1. Send(d, path) = <<>>
        BY <2>1 DEF Send
      <3>2. o = E
        BY <3>1, <1>10
      <3>3. E # <<>> /\ Head(E) = E[1] /\ E[1] = Local("copy", path)
        BY <1>10, <2>1 DEF EntryFacts, E
      <3> QED
        BY <1>10, <2>1, <3>2, <3>3, OpFields
    <2>2. CASE util.tool # "preload"
      <3>1. o = <<Entry(d, path)>> \o E
        BY <2>2 DEF Send
      <3>2. Entry(d, path) \in WalkOps
        BY <1>9, OpTypes
      <3> HIDE DEF o
      <3>3. o \in Seq(WalkOps) /\ o # <<>> /\ Head(o) = Entry(d, path)
        BY <3>1, <3>2, <1>10, PushOn
      <3> QED
        BY <2>2, <3>1, <3>3, OpFields
    <2> QED
      BY <2>1, <2>2
  <1> HIDE DEF o
  <1>14. OnItsWay(r)' = {path}
    <2>1. path # Root /\ path # End
      BY <1>1, <1>9, EntryInTree
    <2> QED
      BY ONLY <1>1, <1>12, <1>13, <2>1 DEF OnItsWay, Root, End
  <1>15. Entries(d) \subseteq f.left \cup Before(r, w)' \cup OnItsWay(r)'
    BY ONLY <1>5, <1>7, <1>8, <1>14
  <1>16. TopKept(r, w) /\ Top(r)' = f
    BY <1>1, <1>2, <1>3, <1>5, <1>6, <1>8, <1>15, TopChanges DEF RankOk
  <1>17. /\ ReadsDir(r, Top(r).dir)'
         /\ Entries(Top(r).dir)' = Entries(d)
         /\ \A v : Entry(Top(r).dir, v)' = Entry(d, v)
         /\ InLoopAt(r, Top(r).dir)' = "read"
    <2>1. InLoopAt(r, d) = "read"
      BY <1>11 DEF InLoopAt
    <2> QED
      BY <1>1, <1>5, <1>11, <1>16, <2>1, TopDirKept
  <1>18. \A p : EntryOps(r, p)' = EntryOps(r, p)
    BY <1>1, TreeStays DEF SameTree
  <1>19. Here(r, w, 0)' /\ stack'[r] # <<>> /\ Top(r)'.at = "read"
    BY <1>4, <1>5, <1>16 DEF InLoop, TopKept
  <1>20. CASE util.tool # "preload"
    <2>1. SendsEntry(r, w)'
      BY ONLY <1>1, <1>9, <1>12, <1>13, <1>17, <1>18, <1>19, <1>20 DEF SendsEntry, E
    <2> QED
      BY <1>4, <1>16, <2>1, <1>3, <1>1, <1>6, <1>12, <1>13, TypeStays
         DEF RankOk, Phases, TopKept, Goes, SameRank, WalkType
  <1>21. CASE util.tool = "preload"
    <2>1. After(ops[r], EntryOps(r, path), 0)' /\ (0 < Len(EntryOps(r, path)))'
      <3>1. \A i \in 1..Len(E) : E[i] = E[i + 0]
        BY <1>10
      <3>2. Len(E) = Len(E) - 0 /\ 0 < Len(E)
        <4>1. ASSUME NEW n \in 1..6 PROVE n = n - 0 /\ 0 < n
          OBVIOUS
        <4>2. Len(E) \in 1..6
          BY <1>10
        <4> QED
          BY ONLY <4>1, <4>2
      <3>3. EntryOps(r, path)' = E /\ ops'[r] = E
        BY <1>12, <1>13, <1>18, <1>21 DEF E
      <3> QED
        BY ONLY <3>1, <3>2, <3>3 DEF After
    <2>2. MadeBy(r, path, 0)'
      <3>1. IsDir(path)' => Copying(r)'
        <4>1. 1 \in 1..Len(ops'[r]) /\ ops'[r][1].kind = "copy"
          <5>1. Head(o) = o[1] /\ Len(o) \in Nat \ {0}
            BY <1>13, TailOf
          <5> QED
            BY <5>1, <1>12, <1>13, <1>21
        <4> QED
          BY <4>1 DEF Copying
      <3> QED
        BY ONLY <1>1, <1>21, <3>1 DEF MadeBy
    <2>3. DealsWith(r, w, path, 0)'
      BY ONLY <1>1, <1>9, <1>17, <1>19, <1>21, <2>1, <2>2 DEF DealsWith
    <2>4. Deals(r, w)'
      <3>1. Things' = Things
        BY <1>1, TreeStays DEF SameTree
      <3> QED
        BY <1>9, <2>3, <3>1 DEF Deals
    <2> QED
      BY <1>4, <1>16, <2>4, <1>3, <1>1, <1>6, <1>12, <1>13, TypeStays
         DEF RankOk, Phases, TopKept, Goes, SameRank, WalkType
  <1> QED
    BY <1>20, <1>21

LEMMA EndOfDirKeeps ==
    ASSUME util \in Jobs, Walkable, WalkType, NEW r \in Ranks, NEW w \in Places, RankOk(r, w), EndOfDir(r)
    PROVE  Goes(r, w)
  <1>1. /\ util' = util /\ UNCHANGED comm /\ UNCHANGED disks /\ skipped' = skipped
        /\ has' = has /\ outside' = outside /\ copied' = copied /\ Top(r).left = {}
        /\ ops[r] = <<>> /\ stack[r] # <<>> /\ Top(r).at = "read"
        /\ ops' = [ops EXCEPT ![r] = Send(Top(r).dir, End)]
    BY DEF EndOfDir, At, Listing, disks
  <1>2. /\ stack[r] \in Seq(Frames) /\ Top(r) \in Frames /\ Top(r) = stack[r][1] /\ Len(stack[r]) \in Nat \ {0}
        /\ Top(r).dir \in util.dirs /\ Top(r).left \subseteq Things
    BY <1>1, RankTyped
  <1>3. Grows
    BY <1>1 DEF Grows
  <1>4. ~w.over /\ InLoop(r, w)
    <2>1. Phases(r, w)
      BY DEF RankOk
    <2>2. ~w.over /\ (InLoop(r, w) \/ Closes(r, w) \/ Out(r, w))
      BY <1>1, <2>1, IdleRank
    <2> QED
      BY <1>1, <2>2 DEF Closes, Out
  <1> DEFINE d == Top(r).dir
             f == [Top(r) EXCEPT !.at = "close"]
             o == Send(d, End)
  <1>5. f \in Frames /\ f.dir = d /\ f.at = "close" /\ f.left = {}
    BY <1>1, <1>2 DEF Frames
  <1>6. stack' = [stack EXCEPT ![r] = [stack[r] EXCEPT ![1] = f]]
    <2>1. stack' = [stack EXCEPT ![r] = [stack[r] EXCEPT ![1] = [stack[r][1] EXCEPT !.at = "close"]]]
      BY DEF EndOfDir, WalkType
    <2> QED
      BY <1>2, <2>1
  <1>7. Before(r, w)' = Before(r, w)
    BY <1>1 DEF Before
  <1>8. Entries(d) \subseteq Before(r, w)
    <2>1. FrameOk(r, w, 1)
      BY <1>2 DEF RankOk
    <2>2. OnItsWay(r) = {}
      BY <1>1 DEF OnItsWay
    <2> QED
      BY <1>1, <1>2, <2>1, <2>2 DEF FrameOk
  <1>9. ReadsDir(r, d)
    BY <1>1, <1>4 DEF InLoop
  <1>10. ops'[r] = o
    BY <1>1 DEF WalkType
  <1>11. /\ o \in Seq(WalkOps)
         /\ util.tool = "preload" => o = <<>>
         /\ util.tool # "preload" => o = <<Entry(d, End)>>
    <2>1. Entry(d, End) \in WalkOps
      BY <1>2, OpTypes DEF Things
    <2> QED
      BY <2>1 DEF Send
  <1> HIDE DEF f, o
  <1>12. TopKept(r, w) /\ Top(r)' = f
    BY <1>1, <1>2, <1>3, <1>5, <1>6, <1>7, <1>8, TopChanges DEF RankOk
  <1>13. /\ ReadsDir(r, Top(r).dir)'
         /\ \A v : Entry(Top(r).dir, v)' = Entry(d, v)
    BY <1>1, <1>5, <1>9, <1>12, TopDirKept
  <1>14. Here(r, w, 0)' /\ stack'[r] # <<>> /\ Top(r)'.at = "close"
    BY <1>4, <1>5, <1>12 DEF InLoop, TopKept
  <1>15. SendsEnd(r, w)' \/ Closes(r, w)'
    <2>1. CASE util.tool = "preload"
      <3>1. Here(r, w, -1)'
        BY <1>1, <2>1 DEF Here
      <3> QED
        <4>1. ops'[r] = <<>>
          BY ONLY <1>10, <1>11, <2>1
        <4> QED
          BY ONLY <4>1, <1>13, <1>14, <3>1 DEF Closes
    <2>2. CASE util.tool # "preload"
      BY ONLY <1>1, <1>10, <1>11, <1>13, <1>14, <2>2 DEF SendsEnd
    <2> QED
      BY <2>1, <2>2
  <1> QED
    BY <1>4, <1>12, <1>15, <1>3, <1>1, <1>6, <1>10, <1>11, TypeStays
       DEF RankOk, Phases, TopKept, Goes, SameRank, WalkType

\* A rank returns from a call of list().
Popped(r, v) ==
    /\ stack' \in [Ranks -> Seq(Frames)]
    /\ \A i \in 1..Len(stack'[r]) : FrameOk(r, v, i)'
    /\ stack'[r] # <<>> => Top(r)'.at = "open" \/ (Top(r)'.at = "read" /\ ReadsDir(r, Top(r).dir)')
    /\ LeftBehind(r)'

LEMMA ReturnKeeps ==
    ASSUME WalkType, NEW r \in Ranks, Grows, NEW w, NEW v, stack[r] # <<>>, stack' = Returned(r), copied' = copied,
           Before(r, w) \cup OnItsWay(r) \subseteq Before(r, v)',
           \A i \in 1..Len(stack[r]) : FrameOk(r, w, i), LeftBehind(r),
           util.tool = "preload" => ops[r] = <<>> /\ Entries(Top(r).dir) \subseteq copied[r] \cup skipped'
    PROVE  Popped(r, v) /\ stack'[r] = Tail(stack[r])
  <1>1. stack[r] \in Seq(Frames) /\ Top(r) = stack[r][1] /\ Len(stack[r]) \in Nat \ {0}
    BY RankTyped
  <1>2. r \in DOMAIN stack /\ stack \in [Ranks -> Seq(Frames)]
    BY DEF WalkType
  <1>3. stack'[r] = Tail(stack[r])
    BY <1>2 DEF Returned
  <1>4. /\ stack'[r] \in Seq(Frames) /\ Len(stack'[r]) = Len(stack[r]) - 1
        /\ \A i \in 1..Len(stack'[r]) : stack'[r][i] = stack[r][i + 1]
    BY <1>1, <1>3, TailOf
  <1>5. stack' \in [Ranks -> Seq(Frames)]
    BY <1>2, <1>3, <1>4 DEF Returned
  <1>6. ASSUME NEW i \in 1..Len(stack'[r])
        PROVE  FrameOk(r, v, i)' /\ stack'[r][i] = stack[r][i + 1] /\ FrameOk(r, w, i + 1) /\ i + 1 > 1
    <2>1. i + 1 \in 1..Len(stack[r]) /\ i + 1 > 1
      BY <1>1, <1>4
    <2>2. FrameOk(r, w, i + 1) /\ stack'[r][i] = stack[r][i + 1]
      BY <2>1, <1>4
    <2> QED
      BY <2>1, <2>2, FrameKept
  <1>7. ASSUME stack'[r] # <<>>
        PROVE  Top(r)'.at = "open" \/ (Top(r)'.at = "read" /\ ReadsDir(r, Top(r).dir)')
    <2>1. 1 \in 1..Len(stack'[r]) /\ Top(r)' = stack'[r][1]
      BY <1>4, <1>7, TailOf DEF Top
    <2>2. stack'[r][1] = stack[r][1 + 1] /\ FrameOk(r, w, 1 + 1) /\ 1 + 1 > 1
      BY <1>6, <2>1
    <2>3. stack[r][1 + 1].at = InLoopAt(r, stack[r][1 + 1].dir)
      BY <2>2 DEF FrameOk
    <2>4. ReadsDir(r, Top(r).dir)' <=> ReadsDir(r, stack[r][1 + 1].dir)
      BY <2>1, <2>2, TopDirKept DEF Grows
    <2> QED
      BY <2>1, <2>2, <2>3, <2>4 DEF InLoopAt
  <1>8. LeftBehind(r)'
    <2>1. \A p : Entries(p)' = Entries(p)
      BY TreeStays DEF Grows, SameTree
    <2>2. util' = util /\ skipped \subseteq skipped'
      BY DEF Grows
    <2> SUFFICES ASSUME util.tool = "preload", NEW d \in (copied[r] \cap util.dirs) \cup {Root}
                 PROVE  (\E i \in 1..Len(stack'[r]) : stack'[r][i].dir = d) \/ Entries(d) \subseteq copied[r] \cup skipped'
      BY <2>1, <2>2 DEF LeftBehind
    <2>3. ops[r] = <<>> /\ Entries(Top(r).dir) \subseteq copied[r] \cup skipped'
      OBVIOUS
    <2>4. (\E i \in 1..Len(stack[r]) : stack[r][i].dir = d) \/ Entries(d) \subseteq copied[r] \cup skipped
      BY ONLY <2>3, LeftBehind(r), util.tool = "preload", d \in (copied[r] \cap util.dirs) \cup {Root} DEF LeftBehind
    <2>5. CASE Entries(d) \subseteq copied[r] \cup skipped
      BY <2>2, <2>5
    <2>6. CASE \E i \in 1..Len(stack[r]) : stack[r][i].dir = d
      <3>1. PICK i \in 1..Len(stack[r]) : stack[r][i].dir = d
        BY <2>6
      <3>2. CASE i = 1
        BY <1>1, <2>3, <3>1, <3>2
      <3>3. CASE i # 1
        <4>1. i - 1 \in 1..Len(stack'[r]) /\ (i - 1) + 1 = i
          BY <1>1, <1>4, <3>3
        <4>2. stack'[r][i - 1] = stack[r][i]
          BY <1>4, <4>1
        <4> QED
          BY <3>1, <4>1, <4>2
      <3> QED
        BY <3>2, <3>3
    <2> QED
      BY <2>4, <2>5, <2>6
  <1> QED
    BY <1>3, <1>5, <1>6, <1>7, <1>8 DEF Popped

\* The directories of the calls that are left.
LEMMA LinedTail ==
    ASSUME NEW S, NEW st \in Seq(S), st # <<>>, NEW ds, NEW n \in Int, Lined(ds, st, n)
    PROVE  Lined(ds, Tail(st), n + 1)
  <1>1. /\ Len(st) \in Nat \ {0} /\ Len(Tail(st)) = Len(st) - 1
        /\ \A i \in 1..Len(Tail(st)) : Tail(st)[i] = st[i + 1]
    BY TailOf
  <1>2. Len(ds) = Len(st) + n /\ \A i \in 1..Len(ds) : \A k \in 1..Len(st) : i = k + n => ds[i] = st[k].dir
    BY DEF Lined
  <1>3. Len(ds) = Len(Tail(st)) + (n + 1)
    BY <1>1, <1>2
  <1>4. ASSUME NEW i \in 1..Len(ds), NEW k \in 1..Len(Tail(st)), i = k + (n + 1)
        PROVE  ds[i] = Tail(st)[k].dir
    <2>1. k + 1 \in 1..Len(st) /\ i = (k + 1) + n
      BY <1>1, <1>4
    <2> QED
      BY <1>1, <1>2, <2>1
  <1> QED
    BY <1>3, <1>4 DEF Lined

LEMMA ClosedirKeeps ==
    ASSUME util \in Jobs, Walkable, WalkType, NEW r \in Ranks, NEW w \in Places, RankOk(r, w), Closedir(r)
    PROVE  Goes(r, w)
  <1>1. /\ util' = util /\ ops' = ops /\ UNCHANGED comm /\ UNCHANGED disks /\ skipped' = skipped
        /\ has' = has /\ outside' = outside /\ copied' = copied
        /\ ops[r] = <<>> /\ stack[r] # <<>> /\ Top(r).at = "close" /\ stack' = Returned(r)
    BY DEF Closedir, At, Listing, disks
  <1>2. stack[r] \in Seq(Frames) /\ Top(r) \in Frames /\ Top(r) = stack[r][1] /\ Len(stack[r]) \in Nat \ {0}
    BY <1>1, RankTyped
  <1>3. Grows
    BY <1>1 DEF Grows
  <1>4. ~w.over /\ Closes(r, w)
    <2>1. Phases(r, w)
      BY DEF RankOk
    <2>2. ~w.over /\ (InLoop(r, w) \/ Closes(r, w) \/ Out(r, w))
      BY <1>1, <2>1, IdleRank
    <2> QED
      BY <1>1, <2>2 DEF InLoop, Out
  <1>5. OnItsWay(r) = {} /\ Before(r, w)' = Before(r, w)
    BY <1>1 DEF Before, OnItsWay
  <1>6. util.tool = "preload" => Entries(Top(r).dir) \subseteq copied[r] \cup skipped'
    <2>1. FrameOk(r, w, 1)
      BY <1>2 DEF RankOk
    <2> QED
      BY <1>1, <1>2, <1>5, <2>1 DEF FrameOk, Before
  <1>7. Popped(r, w) /\ stack'[r] = Tail(stack[r])
    BY <1>1, <1>3, <1>5, <1>6, ReturnKeeps DEF RankOk
  <1>8. Here(r, w, 0)'
    <2>1. Here(r, w, -1)
      BY <1>4 DEF Closes
    <2>2. util.tool # "preload" => Lined(w.dirs, stack'[r], 0)
      <3> SUFFICES ASSUME util.tool # "preload" PROVE Lined(w.dirs, stack'[r], 0)
        OBVIOUS
      <3>1. Lined(w.dirs, stack[r], -1)
        BY <2>1 DEF Here
      <3>2. Lined(w.dirs, Tail(stack[r]), (-1) + 1)
        BY <1>1, <1>2, <3>1, LinedTail
      <3> QED
        BY <1>7, <3>2
    <2> QED
      BY ONLY <1>1, <2>1, <2>2 DEF Here
  <1>9. InLoop(r, w)' \/ Out(r, w)'
    <2>1. CASE stack'[r] = <<>>
      BY <1>1, <1>8, <2>1 DEF Out
    <2>2. CASE stack'[r] # <<>>
      BY <1>1, <1>7, <1>8, <2>2 DEF InLoop, Popped
    <2> QED
      BY <2>1, <2>2
  <1> QED
    BY <1>4, <1>7, <1>9, <1>3, <1>1, TypeStays
       DEF RankOk, Phases, Popped, Goes, SameRank, WalkType, Returned

LEMMA OpendirFailsKeeps ==
    ASSUME util \in Jobs, Walkable, WalkType, NEW r \in Ranks, NEW w \in Places, RankOk(r, w), OpendirFails(r),
           util.tool = "preload"
    PROVE  Goes(r, w)
  <1>1. /\ util' = util /\ ops' = ops /\ UNCHANGED comm /\ UNCHANGED disks /\ skipped' = skipped \cup Entries(Top(r).dir)
        /\ has' = has /\ outside' = outside /\ copied' = copied
        /\ ops[r] = <<>> /\ stack[r] # <<>> /\ Top(r).at = "open" /\ stack' = Returned(r)
    BY DEF OpendirFails, At, Listing, disks
  <1>2. stack[r] \in Seq(Frames) /\ Top(r) \in Frames /\ Top(r) = stack[r][1] /\ Len(stack[r]) \in Nat \ {0}
    BY <1>1, RankTyped
  <1>3. Grows
    BY <1>1 DEF Grows
  <1>4. ~w.over
    BY <1>1, IdleRank DEF RankOk
  <1>5. OnItsWay(r) = {} /\ Before(r, w) \subseteq Before(r, w)'
    BY <1>1 DEF Before, OnItsWay
  <1>6. Popped(r, w)
    BY <1>1, <1>3, <1>5, ReturnKeeps DEF RankOk
  <1>7. InLoop(r, w)' \/ Out(r, w)'
    <2>1. Here(r, w, 0)'
      BY <1>1 DEF Here
    <2>2. CASE stack'[r] = <<>>
      BY <1>1, <2>1, <2>2 DEF Out
    <2>3. CASE stack'[r] # <<>>
      BY <1>1, <1>6, <2>1, <2>3 DEF InLoop, Popped
    <2> QED
      BY <2>2, <2>3
  <1>8. skipped \subseteq skipped' /\ skipped' \subseteq Things
    BY <1>1 DEF WalkType, Entries, Things
  <1> QED
    BY <1>4, <1>6, <1>7, <1>8, <1>3, <1>1, TypeStays
       DEF RankOk, Phases, Popped, Goes, SameRank, WalkType, Returned

LEMMA AwaitEntryKeeps ==
    ASSUME util \in Jobs, Walkable, WalkType, NEW r \in Ranks, NEW w \in Places, RankOk(r, w), AwaitEntry(r)
    PROVE  Goes(r, w)
  <1>1. /\ util' = util /\ stack' = stack /\ UNCHANGED comm /\ UNCHANGED disks /\ skipped' = skipped
        /\ has' = has /\ outside' = outside /\ copied' = copied
        /\ ops[r] = <<>> /\ stack[r] # <<>> /\ Top(r).at = "open" /\ ~ReadsDir(r, Top(r).dir)
        /\ ops' = [ops EXCEPT ![r] = <<Entry(Top(r).dir, Root)>>]
    BY DEF AwaitEntry, At, Listing, disks
  <1>2. Top(r).dir \in Things /\ Top(r) = stack[r][1] /\ Len(stack[r]) \in Nat \ {0} /\ Root \in Things
    BY <1>1, RankTyped, TreeWalkAssumption DEF Things
  <1>3. Grows
    BY <1>1 DEF Grows
  <1>4. ~w.over /\ InLoop(r, w)
    <2>1. Phases(r, w)
      BY DEF RankOk
    <2>2. ~w.over /\ (InLoop(r, w) \/ Closes(r, w) \/ Out(r, w))
      BY <1>1, <2>1, IdleRank
    <2> QED
      BY <1>1, <2>2 DEF Closes, Out
  <1>5. Entry(Top(r).dir, Root) \in WalkOps
    BY <1>2, OpTypes
  <1>6. ops' \in [Ranks -> Seq(WalkOps)] /\ ops'[r] = <<Entry(Top(r).dir, Root)>>
    BY <1>1, <1>5 DEF WalkType
  <1>7. Top(r)' = Top(r)
    BY <1>1 DEF Top
  <1>8. /\ ReadsDir(r, Top(r).dir)' <=> ReadsDir(r, Top(r).dir)
        /\ \A v : Entry(Top(r).dir, v)' = Entry(Top(r).dir, v)
    BY <1>1, <1>7, TopDirKept
  <1>9. Here(r, w, 0)'
    BY ONLY <1>1, <1>4 DEF Here, InLoop
  <1>10. Awaits(r, w)'
    BY ONLY <1>1, <1>6, <1>7, <1>8, <1>9 DEF Awaits
  <1>11. \A i \in 1..Len(stack'[r]) : FrameOk(r, w, i)'
    <2> SUFFICES ASSUME NEW i \in 1..Len(stack[r]) PROVE FrameOk(r, w, i)'
      BY <1>1
    <2>1. FrameOk(r, w, i) /\ stack'[r][i] = stack[r][i]
      BY <1>1 DEF RankOk
    <2>2. Before(r, w) \cup OnItsWay(r) \subseteq Before(r, w)' \cup OnItsWay(r)'
      BY ONLY <1>1 DEF Before, OnItsWay
    <2>3. i > 1 => i > 1
      OBVIOUS
    <2> QED
      BY <1>3, <2>1, <2>2, <2>3, FrameKept
  <1>12. LeftBehind(r)'
    <2>1. util.tool # "preload"
      BY <1>1 DEF ReadsDir
    <2> QED
      BY <1>1, <2>1 DEF LeftBehind
  <1>13. RankOk(r, w)'
    BY <1>4, <1>10, <1>11, <1>12 DEF RankOk, Phases
  <1> QED
    BY <1>1, <1>3, <1>6, <1>13, TypeStays DEF Goes, SameRank, WalkType

LEMMA LastBarrierKeeps ==
    ASSUME util \in Jobs, Walkable, WalkType, NEW r \in Ranks, NEW w \in Places, RankOk(r, w), LastBarrier(r)
    PROVE  Goes(r, w)
  <1>1. /\ util' = util /\ stack' = stack /\ UNCHANGED comm /\ UNCHANGED disks /\ skipped' = skipped
        /\ has' = has /\ outside' = outside /\ copied' = copied
        /\ ops[r] = <<>> /\ stack[r] = <<>>
        /\ ops' = [ops EXCEPT ![r] = <<Barrier, Local("exit", Root)>>]
    BY DEF LastBarrier, Listing, disks
  <1>2. Grows
    BY <1>1 DEF Grows
  <1>3. ~w.over /\ Out(r, w)
    <2>1. Phases(r, w)
      BY DEF RankOk
    <2>2. ~w.over /\ (InLoop(r, w) \/ Closes(r, w) \/ Out(r, w))
      BY <1>1, <2>1, IdleRank
    <2> QED
      BY <1>1, <2>2 DEF Closes, InLoop
  <1>4. Root \in Things
    BY TreeWalkAssumption DEF Things
  <1>5. ops' \in [Ranks -> Seq(WalkOps)] /\ ops'[r] = <<Barrier, Local("exit", Root)>>
    <2>1. Barrier \in WalkOps /\ Local("exit", Root) \in WalkOps
      BY <1>4, OpTypes
    <2> QED
      BY <1>1, <2>1 DEF WalkType
  <1>6. Out(r, w)'
    BY ONLY <1>1, <1>3, <1>5 DEF Out, Here, Barrier, Local
  <1>7. Len(stack'[r]) = 0
    BY <1>1
  <1>8. LeftBehind(r)'
    <2>1. \A p : Entries(p)' = Entries(p)
      BY <1>1, TreeStays DEF SameTree
    <2>2. LeftBehind(r)
      BY DEF RankOk
    <2> QED
      BY ONLY <1>1, <2>1, <2>2 DEF LeftBehind
  <1>9. RankOk(r, w)'
    BY <1>3, <1>6, <1>7, <1>8 DEF RankOk, Phases
  <1> QED
    BY <1>1, <1>2, <1>5, <1>9, TypeStays DEF Goes, SameRank, WalkType

-----------------------------------------------------------------------------
(* A step of rank r with an entry.                                           *)

\* The operation that comes next tells where the rank is.
LEMMA WhatNext ==
    ASSUME util \in Jobs, Walkable, WalkType, NEW r \in Ranks, NEW w, Phases(r, w), ops[r] # <<>>
    PROVE  \/ /\ ~w.over
              /\ \E path \in Things : \E j \in Nat :
                    DealsWith(r, w, path, j) /\ Head(ops[r]) = EntryOps(r, path)[j + 1] /\ Head(ops[r]).kind # "entry"
           \/ ~w.over /\ Head(ops[r]).kind = "entry" /\ (SendsEntry(r, w) \/ Awaits(r, w) \/ SendsEnd(r, w))
           \/ ~w.over /\ Head(ops[r]) = Barrier /\ Out(r, w)
           \/ Head(ops[r]).kind = "exit" /\ w.over
  <1>1. ops[r] \in Seq(WalkOps) /\ Len(ops[r]) \in Nat \ {0} /\ Head(ops[r]) = ops[r][1]
    BY RankTyped, TailOf
  <1>2. ASSUME Deals(r, w)
        PROVE  \E path \in Things : \E j \in Nat :
                  DealsWith(r, w, path, j) /\ Head(ops[r]) = EntryOps(r, path)[j + 1] /\ Head(ops[r]).kind # "entry"
    <2>1. PICK path \in Things, j \in Nat : DealsWith(r, w, path, j)
      BY <1>2 DEF Deals
    <2>2. path \in Entries(Top(r).dir) /\ j < Len(EntryOps(r, path)) /\ After(ops[r], EntryOps(r, path), j)
      BY <2>1 DEF DealsWith
    <2>3. path # Root
      BY <2>2, EntryInTree
    <2>4. EntryFacts(r, path)
      BY <2>3, EntryIs
    <2>5. ops[r][1] = EntryOps(r, path)[1 + j]
      BY ONLY <1>1, <2>2 DEF After
    <2>6. 1 + j = j + 1 /\ j + 1 \in 1..Len(EntryOps(r, path))
      <3>1. Len(EntryOps(r, path)) \in 1..6
        BY <2>4 DEF EntryFacts
      <3> QED
        BY ONLY <2>2, <3>1, j \in Nat
    <2>7. EntryOps(r, path)[j + 1].kind # "entry"
      BY <2>4, <2>6 DEF EntryFacts
    <2> QED
      BY <1>1, <2>1, <2>5, <2>6, <2>7
  <1>3. SendsEntry(r, w) => Head(ops[r]).kind = "entry"
    <2> SUFFICES ASSUME NEW path \in Entries(Top(r).dir), ops[r] = <<Entry(Top(r).dir, path)>> \o EntryOps(r, path),
                        stack[r] # <<>>
                 PROVE  Head(ops[r]).kind = "entry"
      BY DEF SendsEntry
    <2>1. path \in Things /\ path # Root /\ Top(r).dir \in Things
      BY EntryInTree, RankTyped DEF Things
    <2>2. Entry(Top(r).dir, path) \in WalkOps /\ EntryOps(r, path) \in Seq(WalkOps)
      BY <2>1, OpTypes, EntryIs DEF EntryFacts
    <2>3. Head(ops[r]) = Entry(Top(r).dir, path)
      BY <2>2, PushOn
    <2> QED
      BY <2>3, OpFields
  <1>4. Awaits(r, w) \/ SendsEnd(r, w) => Head(ops[r]).kind = "entry"
    BY OpFields DEF Awaits, SendsEnd
  <1>5. Out(r, w) => Head(ops[r]) = Barrier
    BY DEF Out
  <1>6. Gone(r, w) => Head(ops[r]).kind = "exit"
    BY OpFields DEF Gone, Ended
  <1>7. ~InLoop(r, w) /\ ~Closes(r, w)
    BY DEF InLoop, Closes
  <1> QED
    BY <1>2, <1>3, <1>4, <1>5, <1>6, <1>7 DEF Phases

\* What is known of a rank at an entry.
AtEntry(r, path, j) ==
    LET E == EntryOps(r, path)
    IN  /\ path \in Entries(Top(r).dir) /\ path # Root /\ Parent(path) = Top(r).dir /\ EntryFacts(r, path)
        /\ stack[r] # <<>> /\ ops[r] # <<>> /\ j + 1 \in 1..Len(E) /\ Head(ops[r]) = E[j + 1]
        /\ Tail(ops[r]) \in Seq(WalkOps) /\ After(Tail(ops[r]), E, j + 1)
        /\ Tail(ops[r]) = <<>> <=> j + 1 = Len(E)
        /\ Len(ops[r]) = Len(E) - j /\ \A i \in 1..Len(ops[r]) : ops[r][i] = E[i + j] /\ i + j \in 1..Len(E)

LEMMA EntryKnown ==
    ASSUME util \in Jobs, Walkable, WalkType, NEW r \in Ranks, NEW w, NEW path \in Things, NEW j \in Nat,
           DealsWith(r, w, path, j)
    PROVE  AtEntry(r, path, j)
  <1> DEFINE E == EntryOps(r, path)
  <1>1. /\ stack[r] # <<>> /\ path \in Entries(Top(r).dir) /\ j < Len(E) /\ Len(ops[r]) = Len(E) - j
        /\ \A i \in 1..Len(ops[r]) : ops[r][i] = E[i + j]
    BY DEF DealsWith, After
  <1>2. path # Root /\ Parent(path) = Top(r).dir
    BY <1>1, EntryInTree
  <1>3. EntryFacts(r, path) /\ E \in Seq(WalkOps) /\ Len(E) \in 1..6
    <2>1. EntryFacts(r, path)
      BY <1>2, EntryIs
    <2> QED
      BY ONLY <2>1 DEF EntryFacts
  <1>4. ops[r] \in Seq(WalkOps)
    BY RankTyped
  <1> HIDE DEF E
  <1>5. Len(E) \in Nat /\ Len(ops[r]) \in Nat \ {0} /\ ops[r] # <<>> /\ j + 1 \in 1..Len(E)
    BY <1>1, <1>3, <1>4
  <1>6. \A i \in 1..Len(ops[r]) : i + j \in 1..Len(E)
    BY ONLY <1>1, <1>5, j \in Nat
  <1>7. /\ Tail(ops[r]) \in Seq(WalkOps) /\ Len(Tail(ops[r])) = Len(ops[r]) - 1 /\ Head(ops[r]) = ops[r][1]
        /\ \A i \in 1..Len(Tail(ops[r])) : Tail(ops[r])[i] = ops[r][i + 1]
    BY <1>4, <1>5, TailOf
  <1>8. Head(ops[r]) = E[j + 1]
    <2>1. ops[r][1] = E[1 + j] /\ 1 + j = j + 1
      BY ONLY <1>1, <1>5, j \in Nat
    <2> QED
      BY ONLY <1>7, <2>1
  <1>9. After(Tail(ops[r]), E, j + 1)
    <2>1. Len(Tail(ops[r])) = Len(E) - (j + 1)
      BY ONLY <1>1, <1>5, <1>7, j \in Nat
    <2>2. ASSUME NEW i \in 1..Len(Tail(ops[r]))
          PROVE  Tail(ops[r])[i] = E[i + (j + 1)]
      <3>1. i + 1 \in 1..Len(ops[r]) /\ (i + 1) + j = i + (j + 1)
        BY ONLY <1>5, <1>7, j \in Nat, i \in 1..Len(Tail(ops[r]))
      <3> QED
        BY ONLY <1>1, <1>7, <3>1, i \in 1..Len(Tail(ops[r]))
    <2> QED
      BY <2>1, <2>2 DEF After
  <1>10. Tail(ops[r]) = <<>> <=> j + 1 = Len(E)
    <2>1. Len(Tail(ops[r])) = Len(E) - (j + 1)
      BY <1>9 DEF After
    <2>2. Tail(ops[r]) = <<>> <=> Len(Tail(ops[r])) = 0
      <3>1. ASSUME NEW t \in Seq(WalkOps) PROVE t = <<>> <=> Len(t) = 0
        OBVIOUS
      <3> QED
        BY ONLY <3>1, <1>7
    <2> QED
      <3>1. ASSUME NEW n, n = Len(E) - (j + 1) PROVE n = 0 <=> j + 1 = Len(E)
        BY ONLY <1>5, <3>1, j \in Nat
      <3> QED
        BY ONLY <2>1, <2>2, <3>1
  <1> QED
    BY <1>1, <1>2, <1>3, <1>5, <1>6, <1>7, <1>8, <1>9, <1>10 DEF AtEntry, E

\* What the rank is still to do after an operation that neither copies nor decides.
LEMMA TailKinds ==
    ASSUME WalkType, NEW r \in Ranks, ops[r] # <<>>, ops'[r] = Tail(ops[r])
    PROVE  /\ Copying(r)' => Copying(r)
           /\ Deciding(r)' => Deciding(r)
           /\ Head(ops[r]).kind \notin {"copy", "spin"} => (Copying(r)' <=> Copying(r))
           /\ Head(ops[r]).kind # "ready" => (Deciding(r)' <=> Deciding(r))
  <1>1. /\ Len(ops[r]) \in Nat \ {0} /\ Len(Tail(ops[r])) = Len(ops[r]) - 1 /\ Head(ops[r]) = ops[r][1]
        /\ \A i \in 1..Len(Tail(ops[r])) : Tail(ops[r])[i] = ops[r][i + 1]
    BY RankTyped, TailOf
  <1>2. \A i \in 1..Len(Tail(ops[r])) : i + 1 \in 1..Len(ops[r])
    BY <1>1
  <1>3. ASSUME NEW i \in 1..Len(ops[r]), i # 1
        PROVE  i - 1 \in 1..Len(Tail(ops[r])) /\ Tail(ops[r])[i - 1] = ops[r][i]
    <2>1. i - 1 \in 1..Len(Tail(ops[r])) /\ (i - 1) + 1 = i
      BY <1>1, <1>3
    <2> QED
      BY <1>1, <2>1
  <1>4. Copying(r)' => Copying(r)
    BY ONLY <1>1, <1>2, ops'[r] = Tail(ops[r]) DEF Copying
  <1>5. Deciding(r)' => Deciding(r)
    BY ONLY <1>1, <1>2, ops'[r] = Tail(ops[r]) DEF Deciding
  <1>6. Head(ops[r]).kind \notin {"copy", "spin"} => (Copying(r) => Copying(r)')
    BY ONLY <1>1, <1>3, ops'[r] = Tail(ops[r]) DEF Copying
  <1>7. Head(ops[r]).kind # "ready" => (Deciding(r) => Deciding(r)')
    BY ONLY <1>1, <1>3, ops'[r] = Tail(ops[r]) DEF Deciding
  <1> QED
    BY <1>4, <1>5, <1>6, <1>7

LEMMA OpDone ==
    ASSUME util \in Jobs, Walkable, WalkType, NEW r \in Ranks, NEW w, NEW v \in Places, NEW path \in Things, NEW j \in Nat,
           DealsWith(r, w, path, j), Grows, stack'[r] = stack[r], ops'[r] = Tail(ops[r]), Head(ops[r]).kind # "list",
           MadeBy(r, path, j + 1)',
           util.tool # "preload" => v.dirs = w.dirs /\ Spread(Tail(ops[r]), v.todo) /\ GotBy(r, v, path)'
    PROVE  Deals(r, v)' \/ InLoop(r, v)'
  <1> DEFINE E == EntryOps(r, path)
  <1>1. AtEntry(r, path, j)
    BY EntryKnown
  <1>2. /\ path \in Entries(Top(r).dir) /\ EntryFacts(r, path) /\ stack[r] # <<>> /\ j + 1 \in 1..Len(E)
        /\ Head(ops[r]) = E[j + 1] /\ After(Tail(ops[r]), E, j + 1)
        /\ Tail(ops[r]) = <<>> <=> j + 1 = Len(E)
    BY <1>1 DEF AtEntry
  <1>3. /\ Top(r).at = InLoopAt(r, Top(r).dir)
        /\ util.tool # "preload" => Lined(w.dirs, stack[r], IF IsDir(path) THEN 1 ELSE 0)
    BY DEF DealsWith
  <1>4. Top(r)' = Top(r) /\ util' = util
    BY DEF Top, Grows
  <1>5. /\ ReadsDir(r, Top(r).dir)' <=> ReadsDir(r, Top(r).dir)
        /\ Entries(Top(r).dir)' = Entries(Top(r).dir)
        /\ InLoopAt(r, Top(r).dir)' = InLoopAt(r, Top(r).dir)
    BY <1>4, TopDirKept
  <1>6. /\ EntryOps(r, path)' = E
        /\ IsDir(path)' <=> IsDir(path)
        /\ Things' = Things
    BY <1>4, TreeStays DEF SameTree
  <1> HIDE DEF E
  <1>7. CASE j + 1 # Len(E)
    <2>1. j + 1 < Len(E)
      <3>1. Len(E) \in 1..6
        BY <1>2 DEF EntryFacts, E
      <3> QED
        BY ONLY <1>2, <1>7, <3>1, j \in Nat
    <2>2. (util.tool # "preload" =>
             /\ Spread(ops[r], v.todo) /\ GotBy(r, v, path) /\ Lined(v.dirs, stack[r], IF IsDir(path) THEN 1 ELSE 0)
             /\ (IsDir(path) => v.dirs[1] = path))'
      <3> SUFFICES ASSUME util.tool # "preload"
                   PROVE  (/\ Spread(ops[r], v.todo) /\ GotBy(r, v, path) /\ Lined(v.dirs, stack[r], IF IsDir(path) THEN 1 ELSE 0)
                           /\ (IsDir(path) => v.dirs[1] = path))'
        BY <1>4
      <3>1. v.dirs = w.dirs /\ Spread(Tail(ops[r]), v.todo) /\ GotBy(r, v, path)'
        OBVIOUS
      <3>2. Spread(ops[r], v.todo)'
        <4>1. ASSUME NEW t, t = ops'[r], Spread(t, v.todo) PROVE Spread(ops[r], v.todo)'
          BY ONLY <4>1 DEF Spread
        <4> QED
          BY ONLY <3>1, <4>1, ops'[r] = Tail(ops[r])
      <3>3. Lined(v.dirs, stack[r], IF IsDir(path) THEN 1 ELSE 0)'
        BY ONLY <1>3, <1>6, <3>1, util.tool # "preload", stack'[r] = stack[r] DEF Lined
      <3>4. IsDir(path) => v.dirs[1] = path
        BY <3>1 DEF DealsWith
      <3> QED
        BY <1>6, <3>1, <3>2, <3>3, <3>4
    <2>3. After(ops[r], EntryOps(r, path), j + 1)' /\ (j + 1 < Len(EntryOps(r, path)))'
      BY ONLY <1>2, <1>6, <2>1, ops'[r] = Tail(ops[r]) DEF After
    <2>4. (stack[r] # <<>> /\ path \in Entries(Top(r).dir) /\ Top(r).at = InLoopAt(r, Top(r).dir))'
      BY ONLY <1>2, <1>3, <1>4, <1>5, stack'[r] = stack[r]
    <2>5. DealsWith(r, v, path, j + 1)'
      BY <2>2, <2>3, <2>4 DEF DealsWith
    <2> QED
      BY <1>6, <2>5 DEF Deals
  <1>8. CASE j + 1 = Len(E)
    <2>1. ops'[r] = <<>> /\ ~IsDir(path)
      BY <1>2, <1>8 DEF EntryFacts, E
    <2>2. Here(r, v, 0)'
      <3> SUFFICES ASSUME util.tool # "preload"
                   PROVE  v.todo = <<>> /\ Lined(v.dirs, stack'[r], 0) /\ v.got = copied'[r]
        BY <1>4 DEF Here
      <3>1. v.dirs = w.dirs /\ Spread(Tail(ops[r]), v.todo) /\ GotBy(r, v, path)'
        OBVIOUS
      <3>2. v.todo \in Seq(WalkOps)
        BY DEF Places
      <3>3. v.todo = <<>>
        <4>1. Len(Tail(ops[r])) = 0
          <5>1. ASSUME NEW t, t = <<>> PROVE Len(t) = 0
            BY ONLY <5>1
          <5> QED
            BY ONLY <2>1, <5>1, ops'[r] = Tail(ops[r])
        <4> QED
          BY <3>1, <3>2, <4>1, SpreadNone
      <3>4. ~Copying(r)'
        BY ONLY <2>1 DEF Copying
      <3>5. v.got = copied'[r]
        BY ONLY <3>1, <3>4 DEF GotBy
      <3> QED
        BY ONLY <1>3, <2>1, <3>1, <3>3, <3>5, util.tool # "preload", stack'[r] = stack[r]
    <2> QED
      BY ONLY <1>2, <1>3, <1>4, <1>5, <2>1, <2>2, stack'[r] = stack[r] DEF InLoop, InLoopAt
  <1> QED
    BY <1>7, <1>8

LEMMA SameFrames ==
    ASSUME Grows, NEW r \in Ranks, NEW w, NEW v, stack'[r] = stack[r], RankOk(r, w),
           Before(r, w) \cup OnItsWay(r) \subseteq Before(r, v)' \cup OnItsWay(r)'
    PROVE  \A i \in 1..Len(stack'[r]) : FrameOk(r, v, i)'
  <1> SUFFICES ASSUME NEW i \in 1..Len(stack[r]) PROVE FrameOk(r, v, i)'
    OBVIOUS
  <1>1. FrameOk(r, w, i) /\ stack'[r][i] = stack[r][i]
    BY DEF RankOk
  <1>2. i > 1 => i > 1
    OBVIOUS
  <1> QED
    BY <1>1, <1>2, FrameKept

LEMMA HostKnown ==
    ASSUME util \in Jobs, NEW r \in Ranks
    PROVE  HostOf(r) \in ToSet(util.hosts)
  <1>1. util.hosts \in Seq(STRING) /\ Len(util.hosts) \in Nat /\ r + 1 \in 1..Len(util.hosts)
    BY TreeWalkAssumption DEF Ranks
  <1>2. r + 1 \in DOMAIN util.hosts
    BY <1>1
  <1> QED
    BY <1>2 DEF HostOf, ToSet

LEMMA FlushCreatKeeps ==
    ASSUME util \in Jobs, Walkable, WalkType, NEW r \in Ranks, NEW w \in Places, RankOk(r, w), PlaceOk(w), FlushCreat(r)
    PROVE  Goes(r, w) /\ missed' = missed
  <1> DEFINE p == Head(ops[r]).value
             there == Parent(p) \in outside
  <1>1. /\ util' = util /\ stack' = stack /\ UNCHANGED comm /\ has' = has /\ copied' = copied /\ skipped' = skipped
        /\ ops' = Done(r) /\ ops[r] # <<>> /\ Head(ops[r]).kind = "creat"
        /\ outside' = (IF r = MasterOf(p) /\ there THEN outside \cup {p} ELSE outside)
        /\ missed' = (IF r = MasterOf(p) /\ ~there THEN missed \cup {p} ELSE missed)
    BY DEF FlushCreat, Doing
  <1>2. /\ ops[r] \in Seq(WalkOps) /\ Tail(ops[r]) \in Seq(WalkOps)
        /\ ops'[r] = Tail(ops[r]) /\ ops' \in [Ranks -> Seq(WalkOps)] /\ \A s \in Ranks \ {r} : ops'[s] = ops[s]
    <2>1. ops[r] \in Seq(WalkOps) /\ Tail(ops[r]) \in Seq(WalkOps)
      BY <1>1, RankTyped, TailOf
    <2> QED
      BY <1>1, <2>1 DEF Done, WalkType
  <1>3. ~w.over
    BY <1>1, WhatNext, OpFields DEF RankOk
  <1>4. PICK path \in Things, j \in Nat : DealsWith(r, w, path, j)
    BY <1>1, WhatNext, OpFields DEF RankOk
  <1> DEFINE E == EntryOps(r, path)
  <1>5. /\ AtEntry(r, path, j) /\ EntryFacts(r, path) /\ Head(ops[r]) = E[j + 1] /\ j + 1 \in 1..Len(E)
        /\ Parent(path) = Top(r).dir /\ stack[r] # <<>>
    <2>1. AtEntry(r, path, j)
      BY <1>4, EntryKnown
    <2> QED
      BY ONLY <2>1 DEF AtEntry
  <1>6. Decides(path) /\ p = path /\ j + 1 = 1 /\ Len(E) = 6 /\ E[2] = Ready(path)
    BY <1>1, <1>5 DEF EntryFacts
  <1>7. util.tool = "flush" /\ ~IsDir(path)
    BY <1>6 DEF Decides
  <1> HIDE DEF E, p
  <1>8. /\ Spread(ops[r], w.todo) /\ GotBy(r, w, path) /\ Lined(w.dirs, stack[r], 0)
    BY <1>4, <1>7 DEF DealsWith
  <1>9. w \in Places /\ w.todo \in Seq(WalkOps) /\ Len(w.todo) \in Nat /\ w.dirs \in Seq(util.dirs)
    BY DEF Places
  <1>10. \A i \in 1..Len(w.todo) : w.todo[i].kind \in Collectives /\ (w.todo[i].kind = "ready" => i = 1)
    BY DEF PlaceOk
  <1>11. there
    <2>1. 2 \in 1..Len(ops[r]) /\ ops[r][2] = E[2 + j] /\ j = 0
      <3>1. j = 0
        BY ONLY <1>6, j \in Nat
      <3>2. Len(ops[r]) = Len(E) - j /\ \A i \in 1..Len(ops[r]) : ops[r][i] = E[i + j]
        BY <1>5 DEF AtEntry, E
      <3> QED
        BY ONLY <1>6, <3>1, <3>2
    <2>2. ops[r][2].kind = "ready" /\ "ready" \in Collectives
      BY <1>6, <2>1, OpFields DEF Collectives, Bcasts
    <2>3. PICK k \in 1..Len(w.todo) : w.todo[k].kind = "ready"
      <3>1. PICK g \in [1..Len(w.todo) -> 1..Len(ops[r])] :
                  /\ \A i \in 1..Len(w.todo) : ops[r][g[i]] = w.todo[i]
                  /\ \A i \in 1..Len(ops[r]) : ops[r][i].kind \in Collectives => \E k \in 1..Len(w.todo) : g[k] = i
        BY <1>8 DEF Spread
      <3>2. PICK k \in 1..Len(w.todo) : g[k] = 2
        BY <2>1, <2>2, <3>1
      <3> QED
        BY <2>2, <3>1, <3>2
    <2>4. w.todo[1].kind = "ready"
      BY <1>10, <2>3
    <2>5. Len(stack[r]) \in Nat \ {0} /\ Top(r) = stack[r][1]
      BY <1>5, RankTyped
    <2>6. 1 \in 1..Len(w.dirs) /\ w.dirs[1] = Top(r).dir
      BY <1>8, <2>5 DEF Lined
    <2>7. w.dirs[1] \in outside
      BY <1>7, <2>4, <2>6 DEF PlaceOk, FlushPlace
    <2> QED
      BY <1>5, <1>6, <2>6, <2>7 DEF p
  <1>12. missed' = missed /\ outside' = (IF r = MasterOf(path) THEN outside \cup {path} ELSE outside)
    BY <1>1, <1>6, <1>11
  <1>13. Grows
    BY <1>1, <1>12 DEF Grows
  <1>14. MadeBy(r, path, j + 1)'
    <2>1. MasterOf(path)' = MasterOf(path)
      BY <1>1, RolesStay DEF SameRoles
    <2>2. ~IsDir(path)'
      BY <1>1, <1>7 DEF IsDir
    <2> QED
      BY ONLY <1>12, <2>1, <2>2 DEF MadeBy
  <1>15. GotBy(r, w, path)'
    <2>1. (Copying(r)' <=> Copying(r)) /\ (Deciding(r)' <=> Deciding(r))
      BY <1>1, <1>2, TailKinds
    <2> QED
      BY ONLY <1>1, <1>8, <2>1 DEF GotBy
  <1>16. Spread(Tail(ops[r]), w.todo)
    <2>1. Head(ops[r]).kind \notin Collectives
      BY <1>1 DEF Collectives, Bcasts
    <2>2. ops[r] \in Seq(WalkOps) /\ ops[r] # <<>> /\ w.todo \in Seq(WalkOps) /\ Spread(ops[r], w.todo)
      BY ONLY <1>1, <1>2, <1>8, <1>9
    <2>3. \A i \in 1..Len(w.todo) : w.todo[i].kind \in Collectives
      BY ONLY <1>10
    <2> QED
      BY ONLY <2>1, <2>2, <2>3, SpreadTail
  <1>17. Deals(r, w)' \/ InLoop(r, w)'
    BY <1>1, <1>2, <1>4, <1>13, <1>14, <1>15, <1>16, OpDone
  <1>18. Before(r, w) \cup OnItsWay(r) \subseteq Before(r, w)' \cup OnItsWay(r)'
    BY ONLY <1>1, <1>7 DEF Before, OnItsWay
  <1>19. \A i \in 1..Len(stack'[r]) : FrameOk(r, w, i)'
    BY <1>1, <1>13, <1>18, SameFrames
  <1>20. LeftBehind(r)'
    BY <1>1, <1>7 DEF LeftBehind
  <1>21. RankOk(r, w)'
    BY <1>3, <1>17, <1>19, <1>20 DEF RankOk, Phases
  <1>22. WalkType'
    <2>1. /\ Ranks' = Ranks /\ Frames' = Frames /\ WalkOps' = WalkOps /\ Meetings' = Meetings /\ Things' = Things
      BY <1>1, RolesStay, TreeStays, SetsStay DEF SameRoles, SameTree, SameSets
    <2> QED
      BY <1>1, <1>2, <1>12, <2>1 DEF WalkType, comm
  <1> QED
    BY <1>1, <1>2, <1>12, <1>13, <1>21, <1>22 DEF Goes, SameRank

LEMMA FlushOpenKeeps ==
    ASSUME util \in Jobs, Walkable, WalkType, NEW r \in Ranks, NEW w \in Places, RankOk(r, w), PlaceOk(w), FlushOpen(r)
    PROVE  Goes(r, w)
  <1> DEFINE p == Head(ops[r]).value
  <1>1. /\ util' = util /\ stack' = stack /\ UNCHANGED comm /\ UNCHANGED disks /\ has' = has /\ copied' = copied
        /\ outside' = outside /\ ops[r] # <<>> /\ Head(ops[r]).kind = "open"
        /\ ops' = (IF p \in outside THEN Done(r) ELSE [ops EXCEPT ![r] = <<>>])
        /\ skipped' = (IF p \in outside THEN skipped ELSE skipped \cup {p})
    BY DEF FlushOpen, Doing, disks
  <1>2. ops[r] \in Seq(WalkOps) /\ Tail(ops[r]) \in Seq(WalkOps)
    BY <1>1, RankTyped, TailOf
  <1>3. ~w.over
    BY <1>1, WhatNext, OpFields DEF RankOk
  <1>4. PICK path \in Things, j \in Nat : DealsWith(r, w, path, j)
    BY <1>1, WhatNext, OpFields DEF RankOk
  <1> DEFINE E == EntryOps(r, path)
  <1>5. /\ AtEntry(r, path, j) /\ EntryFacts(r, path) /\ Head(ops[r]) = E[j + 1] /\ j + 1 \in 1..Len(E)
        /\ path # Root
    <2>1. AtEntry(r, path, j)
      BY <1>4, EntryKnown
    <2> QED
      BY ONLY <2>1 DEF AtEntry
  <1>6. Decides(path) /\ p = path /\ j + 1 = 4 /\ Len(E) = 6
    BY <1>1, <1>5 DEF EntryFacts
  <1>7. util.tool = "flush" /\ ~IsDir(path)
    BY <1>6 DEF Decides
  <1>8. E[4].kind = "open" /\ E[5].kind = "header" /\ E[5].value = path /\ E[6].kind = "copy"
    BY <1>5, <1>7, EntryShape, OpFields DEF Shape
  <1> HIDE DEF E, p
  <1>9. /\ Spread(ops[r], w.todo) /\ GotBy(r, w, path) /\ Lined(w.dirs, stack[r], 0)
    BY <1>4, <1>7 DEF DealsWith
  <1>10. w \in Places /\ w.todo \in Seq(WalkOps) /\ Len(w.todo) \in Nat
    BY DEF Places
  <1>11. \A i \in 1..Len(w.todo) : w.todo[i].kind \in Collectives
    BY DEF PlaceOk
  <1>12. path \in outside
    <2>1. j = 3 /\ Len(ops[r]) = 3 /\ ops[r][1] = E[4] /\ ops[r][2] = E[5] /\ ops[r][3] = E[6]
      <3>1. j = 3
        BY ONLY <1>6, j \in Nat
      <3>2. Len(ops[r]) = Len(E) - j /\ \A i \in 1..Len(ops[r]) : ops[r][i] = E[i + j]
        BY <1>5 DEF AtEntry, E
      <3>3. Len(ops[r]) = 3 /\ \A i \in 1..3 : ops[r][i] = E[i + 3]
        BY ONLY <1>6, <3>1, <3>2
      <3>4. ops[r][1] = E[1 + 3] /\ ops[r][2] = E[2 + 3] /\ ops[r][3] = E[3 + 3]
        BY ONLY <3>3
      <3> QED
        BY ONLY <3>1, <3>3, <3>4
    <2>2. "header" \in Collectives /\ "open" \notin Collectives /\ "copy" \notin Collectives
      BY DEF Collectives, Bcasts
    <2>3. PICK g \in [1..Len(w.todo) -> 1..3] :
                /\ \A i, k \in 1..Len(w.todo) : i < k => g[i] < g[k]
                /\ \A i \in 1..Len(w.todo) : ops[r][g[i]] = w.todo[i]
                /\ \A i \in 1..3 : ops[r][i].kind \in Collectives => \E k \in 1..Len(w.todo) : g[k] = i
      <3>1. Spread(ops[r], w.todo)
        BY <1>9
      <3>2. Len(ops[r]) = 3
        BY <2>1
      <3> QED
        BY ONLY <3>1, <3>2 DEF Spread
    <2>4. PICK k \in 1..Len(w.todo) : g[k] = 2
      BY <1>8, <2>1, <2>2, <2>3
    <2>5. \A i \in 1..Len(w.todo) : g[i] = 2
      <3> SUFFICES ASSUME NEW i \in 1..Len(w.todo) PROVE g[i] = 2
        OBVIOUS
      <3>1. g[i] \in 1..3 /\ ops[r][g[i]].kind \in Collectives
        BY <1>11, <2>3
      <3> QED
        <4>1. g[i] = 1 => ops[r][g[i]].kind = "open"
          BY ONLY <1>8, <2>1
        <4>2. g[i] = 3 => ops[r][g[i]].kind = "copy"
          BY ONLY <1>8, <2>1
        <4> QED
          BY ONLY <3>1, <2>2, <4>1, <4>2
    <2>6. Len(w.todo) = 1
      <3>1. Len(w.todo) >= 1
        BY <1>10, <2>4
      <3>2. ~(Len(w.todo) >= 2)
        <4> SUFFICES ASSUME Len(w.todo) >= 2 PROVE FALSE
          OBVIOUS
        <4>1. 1 \in 1..Len(w.todo) /\ 2 \in 1..Len(w.todo) /\ 1 < 2
          BY <1>10
        <4>2. g[1] < g[2] /\ g[1] = 2 /\ g[2] = 2
          BY <2>3, <2>5, <4>1
        <4> QED
          BY <4>2
      <3>3. Len(w.todo) \in Nat
        BY <1>10
      <3>4. ASSUME NEW n \in Nat, n >= 1, ~(n >= 2) PROVE n = 1
        BY ONLY <3>4
      <3> QED
        BY ONLY <3>1, <3>2, <3>3, <3>4
    <2>7. w.todo[1] = E[5]
      BY <2>1, <2>3, <2>5, <2>6
    <2> QED
      BY <1>7, <1>8, <2>6, <2>7 DEF PlaceOk, FlushPlace
  <1>13. ops' = Done(r) /\ skipped' = skipped
    BY <1>1, <1>6, <1>12
  <1>14. ops'[r] = Tail(ops[r]) /\ ops' \in [Ranks -> Seq(WalkOps)] /\ \A s \in Ranks \ {r} : ops'[s] = ops[s]
    BY <1>2, <1>13 DEF Done, WalkType
  <1>15. Grows
    BY <1>1, <1>13 DEF Grows
  <1>16. MadeBy(r, path, j + 1)'
    <2>1. ~IsDir(path)'
      BY <1>1, <1>7 DEF IsDir
    <2> QED
      BY ONLY <1>1, <1>12, <2>1 DEF MadeBy
  <1>17. GotBy(r, w, path)'
    <2>1. (Copying(r)' <=> Copying(r)) /\ (Deciding(r)' <=> Deciding(r))
      BY <1>1, <1>14, TailKinds
    <2> QED
      BY ONLY <1>1, <1>9, <2>1 DEF GotBy
  <1>18. Spread(Tail(ops[r]), w.todo)
    <2>1. Head(ops[r]).kind \notin Collectives
      BY <1>1 DEF Collectives, Bcasts
    <2> QED
      BY <1>1, <1>2, <1>9, <1>10, <1>11, <2>1, SpreadTail
  <1>19. Deals(r, w)' \/ InLoop(r, w)'
    BY <1>1, <1>4, <1>14, <1>15, <1>16, <1>17, <1>18, OpDone
  <1>20. Before(r, w) \cup OnItsWay(r) \subseteq Before(r, w)' \cup OnItsWay(r)'
    BY ONLY <1>1, <1>7, <1>13 DEF Before, OnItsWay
  <1>21. \A i \in 1..Len(stack'[r]) : FrameOk(r, w, i)'
    BY <1>1, <1>15, <1>20, SameFrames
  <1>22. LeftBehind(r)'
    BY <1>1, <1>7 DEF LeftBehind
  <1>23. RankOk(r, w)'
    BY <1>3, <1>19, <1>21, <1>22 DEF RankOk, Phases
  <1>24. WalkType'
    BY <1>1, <1>13, <1>14, TypeStays DEF WalkType
  <1> QED
    BY <1>1, <1>14, <1>15, <1>23, <1>24 DEF Goes, SameRank

LEMMA CopyKeeps ==
    ASSUME util \in Jobs, Walkable, WalkType, NEW r \in Ranks, NEW w \in Places, RankOk(r, w), PlaceOk(w), Copy(r)
    PROVE  /\ util.tool # "expand" => missed' = missed /\ ~aborted'
           /\ ~aborted' => Goes(r, w)
  <1> DEFINE p == Head(ops[r]).value
             lacking == Creates(r) /\ Parent(p) \notin has[HostOf(r)]
  <1>1. /\ util' = util /\ stack' = stack /\ UNCHANGED comm /\ skipped' = skipped
        /\ ops' = Done(r) /\ ops[r] # <<>> /\ Head(ops[r]).kind = "copy"
        /\ has' = (IF Creates(r) /\ IsDir(p) /\ ~lacking THEN [has EXCEPT ![HostOf(r)] = @ \cup {p}] ELSE has)
        /\ outside' = (IF util.tool = "flush" /\ IsDir(p) /\ r = 0 THEN outside \cup {p} ELSE outside)
        /\ missed' = (IF lacking THEN missed \cup {p} ELSE missed)
        /\ aborted' = (lacking /\ util.tool # "preload")
        /\ copied' = [copied EXCEPT ![r] = @ \cup {p}]
    BY DEF Copy, Doing
  <1>2. /\ ops[r] \in Seq(WalkOps) /\ Tail(ops[r]) \in Seq(WalkOps)
        /\ ops'[r] = Tail(ops[r]) /\ ops' \in [Ranks -> Seq(WalkOps)] /\ \A s \in Ranks \ {r} : ops'[s] = ops[s]
    <2>1. ops[r] \in Seq(WalkOps) /\ Tail(ops[r]) \in Seq(WalkOps)
      BY <1>1, RankTyped, TailOf
    <2> QED
      BY <1>1, <2>1 DEF Done, WalkType
  <1>3. ~w.over
    BY <1>1, WhatNext, OpFields DEF RankOk
  <1>4. PICK path \in Things, j \in Nat : DealsWith(r, w, path, j)
    BY <1>1, WhatNext, OpFields DEF RankOk
  <1> DEFINE E == EntryOps(r, path)
  <1>5. /\ AtEntry(r, path, j) /\ EntryFacts(r, path) /\ Head(ops[r]) = E[j + 1] /\ j + 1 \in 1..Len(E)
        /\ Parent(path) = Top(r).dir /\ stack[r] # <<>> /\ path # Root
    <2>1. AtEntry(r, path, j)
      BY <1>4, EntryKnown
    <2> QED
      BY ONLY <2>1 DEF AtEntry
  <1>6. /\ p = path /\ HasCopy(path) /\ E[j + 1].kind = "copy"
        /\ \A k \in 1..Len(E) : k > j + 1 => E[k].kind \notin {"copy", "spin", "ready"}
    BY <1>1, <1>5 DEF EntryFacts
  <1>7. Len(stack[r]) \in Nat \ {0} /\ Top(r) = stack[r][1]
    BY <1>5, RankTyped
  <1>8. util.tool # "expand" => ~lacking
    <2>1. FrameOk(r, w, 1)
      BY <1>7 DEF RankOk
    <2> QED
      BY <1>5, <1>6, <1>7, <2>1 DEF FrameOk
  <1>9. util.tool # "expand" => missed' = missed /\ ~aborted'
    BY <1>1, <1>8
  <1>10. util.tool = "expand" => ~IsDir(path)
    BY <1>6 DEF HasCopy
  <1>11. ASSUME ~aborted'
         PROVE  Goes(r, w)
    <2> HIDE DEF E, p
    <2>1. copied'[r] = copied[r] \cup {path} /\ copied' \in [Ranks -> SUBSET Things]
          /\ \A s \in Ranks \ {r} : copied'[s] = copied[s]
      BY <1>1, <1>6 DEF WalkType
    <2>2. HostOf(r) \in ToSet(util.hosts) /\ has \in [ToSet(util.hosts) -> SUBSET Things]
      BY HostKnown DEF WalkType
    <2>3. /\ has' \in [ToSet(util.hosts) -> SUBSET Things]
          /\ \A h \in ToSet(util.hosts) : has[h] \subseteq has'[h]
          /\ util.tool # "expand" /\ IsDir(path) /\ Creates(r) => path \in has'[HostOf(r)]
      BY <1>1, <1>6, <1>8, <2>2
    <2>4. Grows
      <3>1. \A s \in Ranks : HostOf(s) \in ToSet(util.hosts)
        BY HostKnown
      <3> QED
        BY <1>1, <2>3, <3>1 DEF Grows
    <2>5. MadeBy(r, path, j + 1)'
      <3>1. MadeBy(r, path, j)
        BY <1>4 DEF DealsWith
      <3>2. /\ MasterOf(path)' = MasterOf(path) /\ HostOf(r)' = HostOf(r)
            /\ IsDir(path)' <=> IsDir(path)
            /\ Creates(r)' <=> Creates(r)
        BY <1>1, RolesStay, TreeStays DEF SameRoles, SameTree
      <3>3. util.tool = "flush" /\ ~IsDir(path) => j >= 1
        <4> SUFFICES ASSUME util.tool = "flush", ~IsDir(path), j = 0 PROVE FALSE
          OBVIOUS
        <4>1. Decides(path)
          BY DEF Decides
        <4>2. E[0 + 1].kind = "creat"
          BY <1>5, <4>1 DEF EntryFacts, E
        <4> QED
          BY <4>2, <1>6
      <3>4. util.tool = "flush" /\ r = (IF IsDir(path) THEN 0 ELSE MasterOf(path)) => path \in outside'
        <4>1. CASE IsDir(path)
          BY ONLY <1>1, <1>6, <4>1
        <4>2. CASE ~IsDir(path)
          BY ONLY <1>1, <1>6, <3>1, <3>3, <4>2 DEF MadeBy
        <4> QED
          BY <4>1, <4>2
      <3> QED
        BY ONLY <1>1, <2>3, <3>2, <3>4 DEF MadeBy
    <2>6. /\ Len(ops[r]) = Len(E) - j /\ Len(E) \in Nat
          /\ \A i \in 1..Len(ops[r]) : ops[r][i] = E[i + j] /\ i + j \in 1..Len(E)
      <3>1. Len(E) \in 1..6
        BY <1>5 DEF EntryFacts, E
      <3> QED
        BY <1>5, <3>1 DEF AtEntry, E
    <2>7. Copying(r) /\ ~Deciding(r) /\ ~Copying(r)'
      <3>1. Len(ops[r]) \in Nat \ {0} /\ Head(ops[r]) = ops[r][1] /\ Len(Tail(ops[r])) = Len(ops[r]) - 1
            /\ \A i \in 1..Len(Tail(ops[r])) : Tail(ops[r])[i] = ops[r][i + 1]
        BY <1>1, <1>2, TailOf
      <3>2. ops[r][1].kind = "copy"
        BY <1>1, <3>1
      <3>3. Copying(r)
        BY <3>1, <3>2 DEF Copying
      <3>4. \A i \in 1..Len(ops[r]) : i > 1 => ops[r][i].kind \notin {"copy", "spin", "ready"}
        <4> SUFFICES ASSUME NEW i \in 1..Len(ops[r]), i > 1 PROVE ops[r][i].kind \notin {"copy", "spin", "ready"}
          OBVIOUS
        <4>1. ops[r][i] = E[i + j] /\ i + j \in 1..Len(E) /\ i + j > j + 1
          BY <2>6, <3>1
        <4> QED
          BY <1>6, <4>1
      <3>5. ~Deciding(r)
        BY <3>1, <3>2, <3>4 DEF Deciding
      <3>6. \A i \in 1..Len(Tail(ops[r])) : i + 1 \in 1..Len(ops[r]) /\ i + 1 > 1
        BY <3>1
      <3>7. \A i \in 1..Len(ops'[r]) : ops'[r][i].kind \notin {"copy", "spin", "ready"}
        BY <1>2, <3>1, <3>4, <3>6
      <3>8. ~Copying(r)'
        BY ONLY <3>7 DEF Copying
      <3> QED
        BY <3>3, <3>5, <3>8
    <2>8. util.tool # "preload" => Spread(Tail(ops[r]), w.todo) /\ GotBy(r, w, path)'
      <3> SUFFICES ASSUME util.tool # "preload" PROVE Spread(Tail(ops[r]), w.todo) /\ GotBy(r, w, path)'
        OBVIOUS
      <3>1. Spread(ops[r], w.todo) /\ GotBy(r, w, path)
        BY <1>4 DEF DealsWith
      <3>2. w.todo \in Seq(WalkOps) /\ \A i \in 1..Len(w.todo) : w.todo[i].kind \in Collectives
        BY DEF Places, PlaceOk
      <3>3. Head(ops[r]).kind \notin Collectives
        BY <1>1 DEF Collectives, Bcasts
      <3>4. Spread(Tail(ops[r]), w.todo)
        BY <1>1, <1>2, <3>1, <3>2, <3>3, SpreadTail
      <3>5. GotBy(r, w, path)'
        BY ONLY <2>1, <2>7, <3>1 DEF GotBy
      <3> QED
        BY <3>4, <3>5
    <2>9. Deals(r, w)' \/ InLoop(r, w)'
      BY <1>1, <1>2, <1>4, <2>4, <2>5, <2>8, OpDone
    <2>10. Before(r, w) \cup OnItsWay(r) \subseteq Before(r, w)' \cup OnItsWay(r)'
      <3>1. Head(ops[r]).value = path
        BY <1>6 DEF p
      <3> QED
        BY ONLY <1>1, <2>1, <3>1 DEF Before, OnItsWay
    <2>11. \A i \in 1..Len(stack'[r]) : FrameOk(r, w, i)'
      BY <1>1, <2>4, <2>10, SameFrames
    <2>12. LeftBehind(r)'
      <3>1. \A d : Entries(d)' = Entries(d)
        BY <1>1, TreeStays DEF SameTree
      <3> SUFFICES ASSUME util.tool = "preload", NEW d \in (copied'[r] \cap util.dirs) \cup {Root}
                   PROVE  \/ \E i \in 1..Len(stack[r]) : stack[r][i].dir = d
                          \/ ops'[r] = <<Local("list", d)>>
                          \/ Entries(d) \subseteq copied'[r] \cup skipped
        BY <1>1, <3>1 DEF LeftBehind
      <3>2. LeftBehind(r)
        BY DEF RankOk
      <3>3. CASE d = path /\ d # Root
        <4>1. IsDir(path)
          BY <3>3 DEF IsDir
        <4>2. Len(E) = 2 /\ E[1] = Local("copy", path) /\ E[2] = Local("list", path)
          BY <1>5, <4>1 DEF EntryFacts, E
        <4>3. j + 1 = 1
          <5>1. E[2].kind = "list"
            BY <4>2, OpFields
          <5>2. j + 1 \in 1..2 /\ j + 1 # 2
            BY <1>5, <1>6, <4>2, <5>1 DEF E
          <5> QED
            BY <5>2
        <4>4. Len(ops'[r]) = Len(E) - (j + 1) /\ \A i \in 1..Len(ops'[r]) : ops'[r][i] = E[i + (j + 1)]
          BY <1>2, <1>5 DEF AtEntry, After, E
        <4>5. ASSUME NEW t \in Seq(WalkOps), Len(t) = 1, t[1] = Local("list", path)
              PROVE  t = <<Local("list", path)>>
          <5>1. Local("list", path) \in WalkOps
            BY OpTypes
          <5> DEFINE u == <<Local("list", path)>>
          <5>2. u \in Seq(WalkOps) /\ Len(u) = 1 /\ u[1] = Local("list", path)
            BY <5>1
          <5> HIDE DEF u
          <5>3. t = u
            BY <4>5, <5>2, SeqEqual
          <5> QED
            BY <5>3 DEF u
        <4>6. Len(ops'[r]) = 1 /\ ops'[r][1] = E[1 + 1]
          <5>1. Len(ops'[r]) = 1
            BY ONLY <4>2, <4>3, <4>4
          <5>2. ops'[r][1] = E[1 + (j + 1)]
            BY ONLY <4>4, <5>1
          <5> QED
            BY ONLY <4>3, <5>1, <5>2
        <4>7. ops'[r] \in Seq(WalkOps) /\ ops'[r][1] = Local("list", path)
          <5>1. ops' \in [Ranks -> Seq(WalkOps)]
            BY <1>2
          <5>2. ops'[r] \in Seq(WalkOps)
            BY ONLY <5>1, r \in Ranks
          <5> QED
            BY ONLY <5>2, <4>2, <4>6
        <4> QED
          BY <3>3, <4>5, <4>6, <4>7
      <3>4. CASE ~(d = path /\ d # Root)
        <4>1. d \in (copied[r] \cap util.dirs) \cup {Root}
          BY <2>1, <3>4
        <4>2. \A e : ops[r] # <<Local("list", e)>>
          BY <1>1, OpFields
        <4>3. (\E i \in 1..Len(stack[r]) : stack[r][i].dir = d) \/ Entries(d) \subseteq copied[r] \cup skipped
          BY ONLY <3>2, <4>1, <4>2, util.tool = "preload" DEF LeftBehind
        <4> QED
          BY <2>1, <4>3
      <3> QED
        BY <3>3, <3>4
    <2>13. RankOk(r, w)'
      BY <1>3, <2>9, <2>11, <2>12 DEF RankOk, Phases
    <2>14. WalkType'
      <3>1. /\ Ranks' = Ranks /\ Frames' = Frames /\ WalkOps' = WalkOps /\ Meetings' = Meetings /\ Things' = Things
        BY <1>1, RolesStay, TreeStays, SetsStay DEF SameRoles, SameTree, SameSets
      <3>2. outside' \subseteq Things
        BY <1>1, <1>6 DEF WalkType
      <3> QED
        BY <1>1, <1>2, <2>1, <2>3, <3>1, <3>2 DEF WalkType, comm
    <2> QED
      BY <1>1, <1>2, <2>1, <2>4, <2>13, <2>14 DEF Goes, SameRank
  <1> QED
    BY <1>9, <1>11

LEMMA DescendKeeps ==
    ASSUME util \in Jobs, Walkable, WalkType, NEW r \in Ranks, NEW w \in Places, RankOk(r, w), PlaceOk(w), Descend(r)
    PROVE  Goes(r, w)
  <1> DEFINE p == Head(ops[r]).value
  <1>1. /\ util' = util /\ UNCHANGED comm /\ UNCHANGED disks /\ skipped' = skipped
        /\ has' = has /\ outside' = outside /\ copied' = copied
        /\ ops' = Done(r) /\ ops[r] # <<>> /\ Head(ops[r]).kind = "list"
        /\ stack' = [stack EXCEPT ![r] = <<Call(p)>> \o @]
    BY DEF Descend, Doing, disks
  <1>2. /\ ops[r] \in Seq(WalkOps) /\ Tail(ops[r]) \in Seq(WalkOps)
        /\ ops'[r] = Tail(ops[r]) /\ ops' \in [Ranks -> Seq(WalkOps)] /\ \A s \in Ranks \ {r} : ops'[s] = ops[s]
    <2>1. ops[r] \in Seq(WalkOps) /\ Tail(ops[r]) \in Seq(WalkOps)
      BY <1>1, RankTyped, TailOf
    <2> QED
      BY <1>1, <2>1 DEF Done, WalkType
  <1>3. ~w.over
    BY <1>1, WhatNext, OpFields DEF RankOk
  <1>4. PICK path \in Things, j \in Nat : DealsWith(r, w, path, j)
    BY <1>1, WhatNext, OpFields DEF RankOk
  <1> DEFINE E == EntryOps(r, path)
  <1>5. /\ AtEntry(r, path, j) /\ EntryFacts(r, path) /\ Head(ops[r]) = E[j + 1] /\ j + 1 \in 1..Len(E)
        /\ stack[r] # <<>> /\ path # Root /\ (Tail(ops[r]) = <<>> <=> j + 1 = Len(E))
        /\ Len(ops[r]) = Len(E) - j
    <2>1. AtEntry(r, path, j)
      BY <1>4, EntryKnown
    <2> QED
      BY ONLY <2>1 DEF AtEntry
  <1>6. p = path /\ IsDir(path) /\ j + 1 = Len(E)
    BY <1>1, <1>5 DEF EntryFacts
  <1>7. ops'[r] = <<>>
    BY <1>2, <1>5, <1>6
  <1>8. Len(ops[r]) = 1 /\ ops[r][1] = Head(ops[r])
    <2>1. ASSUME NEW n \in Nat, NEW m, n = m - j, j + 1 = m PROVE n = 1
      <3>1. n = (j + 1) - j
        BY ONLY <2>1
      <3> QED
        BY ONLY <3>1, j \in Nat
    <2>2. Len(ops[r]) \in Nat
      BY <1>2
    <2>3. Len(ops[r]) = 1
      BY ONLY <1>5, <1>6, <2>1, <2>2
    <2> QED
      BY <1>1, <1>2, <2>3, TailOf
  <1> HIDE DEF E, p
  <1> DEFINE f == Call(path)
  <1>9. f \in Frames /\ f.dir = path /\ f.at = "open" /\ f.left = {}
    BY <1>6 DEF Call, Frames, IsDir
  <1> HIDE DEF f
  <1>10. stack[r] \in Seq(Frames) /\ Top(r) = stack[r][1] /\ Len(stack[r]) \in Nat \ {0}
    BY <1>5, RankTyped
  <1>11. stack'[r] = <<f>> \o stack[r]
    BY <1>1, <1>6 DEF WalkType, f
  <1>12. /\ stack'[r] \in Seq(Frames) /\ stack'[r] # <<>> /\ Len(stack'[r]) = Len(stack[r]) + 1
         /\ stack'[r][1] = f /\ Head(stack'[r]) = f
         /\ \A i \in 1..Len(stack[r]) : stack'[r][i + 1] = stack[r][i]
         /\ \A i \in 2..Len(stack'[r]) : stack'[r][i] = stack[r][i - 1]
    BY <1>9, <1>10, <1>11, PushOn
  <1>13. stack' \in [Ranks -> Seq(Frames)] /\ \A s \in Ranks \ {r} : stack'[s] = stack[s]
    BY <1>1, <1>12 DEF WalkType
  <1>14. Grows
    BY <1>1 DEF Grows
  <1>15. Here(r, w, 0)'
    <2> SUFFICES ASSUME util.tool # "preload"
                 PROVE  w.todo = <<>> /\ Lined(w.dirs, stack'[r], 0) /\ w.got = copied[r]
      BY <1>1 DEF Here
    <2>1. Spread(ops[r], w.todo) /\ GotBy(r, w, path) /\ Lined(w.dirs, stack[r], 1)
      BY <1>4, <1>6 DEF DealsWith
    <2>2. w.todo \in Seq(WalkOps) /\ \A i \in 1..Len(w.todo) : w.todo[i].kind \in Collectives
      BY DEF Places, PlaceOk
    <2>3. Head(ops[r]).kind \notin Collectives
      BY <1>1 DEF Collectives, Bcasts
    <2>4. Spread(Tail(ops[r]), w.todo)
      BY <1>1, <1>2, <2>1, <2>2, <2>3, SpreadTail
    <2>5. w.todo = <<>>
      <3>1. ASSUME NEW t, t = <<>> PROVE Len(t) = 0
        BY ONLY <3>1
      <3>2. Len(Tail(ops[r])) = 0
        BY ONLY <1>2, <1>7, <3>1
      <3> QED
        BY <2>2, <2>4, <3>2, SpreadNone
    <2>6. ~Copying(r)
      BY <1>1, <1>8 DEF Copying
    <2>7. w.got = copied[r]
      BY ONLY <2>1, <2>6 DEF GotBy
    <2>8. Lined(w.dirs, stack'[r], 0)
      <3>1. Len(w.dirs) = Len(stack[r]) + 1 /\ \A i \in 1..Len(w.dirs) : \A k \in 1..Len(stack[r]) : i = k + 1 => w.dirs[i] = stack[r][k].dir
        BY <2>1 DEF Lined
      <3>2. w.dirs[1] = path
        BY <1>4, <1>6, <2>1 DEF DealsWith
      <3>3. Len(w.dirs) = Len(stack'[r]) /\ \A i \in 1..Len(w.dirs) : w.dirs[i] = stack'[r][i].dir
        <4> SUFFICES ASSUME NEW i \in 1..Len(w.dirs) PROVE w.dirs[i] = stack'[r][i].dir
          BY <1>12, <3>1
        <4>1. CASE i = 1
          BY <1>9, <1>12, <3>2, <4>1
        <4>2. CASE i # 1
          <5>1. i - 1 \in 1..Len(stack[r]) /\ i = (i - 1) + 1 /\ i \in 2..Len(stack'[r])
            BY <1>10, <1>12, <3>1, <4>2
          <5>2. w.dirs[i] = stack[r][i - 1].dir
            BY ONLY <3>1, <5>1, i \in 1..Len(w.dirs)
          <5>3. stack'[r][i] = stack[r][i - 1]
            BY ONLY <1>12, <5>1
          <5> QED
            BY ONLY <5>2, <5>3
        <4> QED
          BY <4>1, <4>2
      <3> QED
        BY <1>10, <1>12, <3>3 DEF Lined
    <2> QED
      BY <2>5, <2>7, <2>8
  <1>16. InLoop(r, w)'
    BY ONLY <1>7, <1>9, <1>12, <1>15 DEF InLoop, Top
  <1>17. Before(r, w) \cup OnItsWay(r) \subseteq Before(r, w)'
    BY ONLY <1>1 DEF Before, OnItsWay
  <1>18. \A i \in 1..Len(stack'[r]) : FrameOk(r, w, i)'
    <2> SUFFICES ASSUME NEW i \in 1..Len(stack'[r]) PROVE FrameOk(r, w, i)'
      OBVIOUS
    <2>1. CASE i = 1
      <3>1. MadeBy(r, path, j) /\ ~Copying(r)
        BY <1>1, <1>4, <1>8 DEF DealsWith, Copying
      <3>2. HostOf(r)' = HostOf(r) /\ (Creates(r)' <=> Creates(r))
        BY <1>1, RolesStay DEF SameRoles
      <3>3. stack'[r][i] = f
        BY <1>12, <2>1
      <3> QED
        BY ONLY <1>1, <1>6, <1>9, <2>1, <3>1, <3>2, <3>3 DEF FrameOk, MadeBy
    <2>2. CASE i # 1
      <3>1. i - 1 \in 1..Len(stack[r]) /\ stack'[r][i] = stack[r][i - 1] /\ (i - 1 > 1 \/ i - 1 = 1)
        BY <1>10, <1>12, <2>2
      <3>2. FrameOk(r, w, i - 1)
        BY <3>1 DEF RankOk
      <3>3. stack[r][1].at = InLoopAt(r, stack[r][1].dir)
        BY <1>4, <1>10 DEF DealsWith
      <3> QED
        BY <1>14, <1>17, <3>1, <3>2, <3>3, FrameKept
    <2> QED
      BY <2>1, <2>2
  <1>19. LeftBehind(r)'
    <2>1. \A d : Entries(d)' = Entries(d)
      BY <1>1, TreeStays DEF SameTree
    <2> SUFFICES ASSUME util.tool = "preload", NEW d \in (copied[r] \cap util.dirs) \cup {Root}
                 PROVE  (\E i \in 1..Len(stack'[r]) : stack'[r][i].dir = d) \/ Entries(d) \subseteq copied[r] \cup skipped
      BY <1>1, <2>1 DEF LeftBehind
    <2>2. LeftBehind(r)
      BY DEF RankOk
    <2>3. \/ \E i \in 1..Len(stack[r]) : stack[r][i].dir = d
          \/ ops[r] = <<Local("list", d)>>
          \/ Entries(d) \subseteq copied[r] \cup skipped
      BY ONLY <2>2, util.tool = "preload", d \in (copied[r] \cap util.dirs) \cup {Root} DEF LeftBehind
    <2>4. CASE \E i \in 1..Len(stack[r]) : stack[r][i].dir = d
      <3>1. PICK i \in 1..Len(stack[r]) : stack[r][i].dir = d
        BY <2>4
      <3>2. i + 1 \in 1..Len(stack'[r]) /\ stack'[r][i + 1].dir = d
        BY <1>10, <1>12, <3>1
      <3> QED
        BY <3>2
    <2>5. CASE ops[r] = <<Local("list", d)>>
      <3>1. d = path
        BY <1>6, <2>5, OpFields DEF p
      <3>2. 1 \in 1..Len(stack'[r]) /\ stack'[r][1].dir = d
        BY <1>9, <1>10, <1>12, <3>1
      <3> QED
        BY <3>2
    <2> QED
      BY <2>3, <2>4, <2>5
  <1>20. RankOk(r, w)'
    BY <1>3, <1>16, <1>18, <1>19 DEF RankOk, Phases
  <1>21. WalkType'
    BY <1>1, <1>2, <1>13, TypeStays DEF WalkType
  <1> QED
    BY <1>1, <1>2, <1>13, <1>14, <1>20, <1>21 DEF Goes, SameRank

-----------------------------------------------------------------------------
(* The collectives.                                                          *)

\* A rank that is about to enter a collective is about to enter that of its place.
LEMMA HeadIsNextOp ==
    ASSUME util \in Jobs, Walkable, WalkType, NEW r \in Ranks, NEW w \in Places, RankOk(r, w), PlaceOk(w),
           ops[r] # <<>>, Head(ops[r]).kind \in Collectives
    PROVE  /\ Agree(NextOp(w), Head(ops[r])) /\ ~w.over
           /\ Head(ops[r]).kind = "entry" =>
                /\ util.tool # "preload" /\ w.todo = <<>> /\ w.dirs # <<>> /\ Head(w.dirs) = Top(r).dir
                /\ stack[r] # <<>>
                /\ r = Head(ops[r]).root => Head(ops[r]).value \in Entries(Top(r).dir) \cup {End}
           /\ Head(ops[r]).kind # "entry" /\ w.todo = <<>> => Out(r, w)
           /\ w.todo # <<>> => Head(w.todo) = Head(ops[r]) /\ Spread(Tail(ops[r]), Tail(w.todo)) /\ Deals(r, w)
  <1>1. ops[r] \in Seq(WalkOps) /\ Phases(r, w) /\ w.todo \in Seq(WalkOps) /\ w.dirs \in Seq(util.dirs)
    BY RankTyped DEF RankOk, Places
  <1>2. CASE /\ ~w.over
             /\ \E path \in Things : \E j \in Nat :
                  DealsWith(r, w, path, j) /\ Head(ops[r]) = EntryOps(r, path)[j + 1] /\ Head(ops[r]).kind # "entry"
    <2>1. PICK path \in Things, j \in Nat :
             DealsWith(r, w, path, j) /\ Head(ops[r]) = EntryOps(r, path)[j + 1] /\ Head(ops[r]).kind # "entry"
      BY <1>2
    <2>2. AtEntry(r, path, j)
      BY <2>1, EntryKnown
    <2>3. util.tool # "preload"
      BY <2>1, <2>2 DEF AtEntry, EntryFacts
    <2>4. Spread(ops[r], w.todo)
      BY <2>1, <2>3 DEF DealsWith
    <2>5. w.todo # <<>> /\ Head(w.todo) = Head(ops[r]) /\ Spread(Tail(ops[r]), Tail(w.todo))
      BY <1>1, <2>4, SpreadTail
    <2>6. Deals(r, w)
      BY <2>1 DEF Deals
    <2> QED
      BY ONLY <1>2, <2>1, <2>5, <2>6 DEF NextOp, Agree
  <1>3. CASE ~w.over /\ Head(ops[r]).kind = "entry" /\ (SendsEntry(r, w) \/ Awaits(r, w) \/ SendsEnd(r, w))
    <2>1. stack[r] # <<>> /\ Here(r, w, 0)
      BY <1>3 DEF SendsEntry, Awaits, SendsEnd
    <2>2. /\ \E v : Head(ops[r]) = Entry(Top(r).dir, v)
          /\ util.tool # "preload"
          /\ r = Head(ops[r]).root => Head(ops[r]).value \in Entries(Top(r).dir) \cup {End}
      <3>1. CASE SendsEntry(r, w)
        <4>1. PICK p \in Entries(Top(r).dir) : ops[r] = <<Entry(Top(r).dir, p)>> \o EntryOps(r, p)
          BY <3>1 DEF SendsEntry
        <4>2. p \in Things /\ p # Root
          BY <4>1, EntryInTree
        <4>3. Entry(Top(r).dir, p) \in WalkOps /\ EntryOps(r, p) \in Seq(WalkOps)
          BY <2>1, <4>2, EntryIs, OpTypes, RankTyped DEF EntryFacts, Things
        <4>4. Head(ops[r]) = Entry(Top(r).dir, p)
          BY ONLY <4>1, <4>3, PushOn
        <4> QED
          BY <3>1, <4>1, <4>4, OpFields DEF SendsEntry
      <3>2. CASE Awaits(r, w)
        <4>1. ops[r] = <<Entry(Top(r).dir, Root)>> /\ ~ReadsDir(r, Top(r).dir)
          BY <3>2 DEF Awaits
        <4>2. Head(ops[r]) = Entry(Top(r).dir, Root)
          BY <4>1
        <4> QED
          BY <4>1, <4>2, OpFields DEF ReadsDir
      <3>3. CASE SendsEnd(r, w)
        <4>1. ops[r] = <<Entry(Top(r).dir, End)>> /\ util.tool # "preload"
          BY <3>3 DEF SendsEnd
        <4>2. Head(ops[r]) = Entry(Top(r).dir, End)
          BY <4>1
        <4> QED
          BY <4>1, <4>2, OpFields
      <3> QED
        BY <1>3, <3>1, <3>2, <3>3
    <2>3. stack[r] \in Seq(Frames) /\ Top(r) = stack[r][1] /\ Len(stack[r]) \in Nat \ {0}
      BY <2>1, RankTyped
    <2>4. w.todo = <<>> /\ Lined(w.dirs, stack[r], 0)
      BY <2>1, <2>2 DEF Here
    <2>5. w.dirs # <<>> /\ Head(w.dirs) = Top(r).dir
      <3>1. Len(w.dirs) = Len(stack[r]) /\ 1 \in 1..Len(w.dirs) /\ 1 \in 1..Len(stack[r])
        BY <2>3, <2>4 DEF Lined
      <3>2. w.dirs[1] = stack[r][1].dir
        BY <2>4, <3>1 DEF Lined
      <3> QED
        BY <1>1, <2>3, <3>1, <3>2
    <2>6. Agree(NextOp(w), Head(ops[r]))
      <3>1. NextOp(w) = Entry(Top(r).dir, Root)
        BY <2>4, <2>5 DEF NextOp
      <3> QED
        BY <2>2, <3>1, OpFields DEF Agree
    <2> QED
      BY <1>3, <2>1, <2>2, <2>4, <2>5, <2>6
  <1>4. CASE ~w.over /\ Head(ops[r]) = Barrier /\ Out(r, w)
    <2>1. stack[r] = <<>> /\ Here(r, w, 0)
      BY <1>4 DEF Out
    <2>2. w.todo = <<>> /\ w.dirs = <<>>
      <3>1. CASE util.tool = "preload"
        BY <3>1 DEF PlaceOk
      <3>2. CASE util.tool # "preload"
        BY <1>1, <2>1, <3>2 DEF Here, Lined
      <3> QED
        BY <3>1, <3>2
    <2>3. NextOp(w) = Barrier
      BY <1>4, <2>2 DEF NextOp
    <2> QED
      BY <1>4, <2>2, <2>3, OpFields DEF Agree
  <1>5. ~(Head(ops[r]).kind = "exit" /\ w.over)
    BY DEF Collectives, Bcasts
  <1> QED
    BY <1>1, <1>2, <1>3, <1>4, <1>5, WhatNext

\* What a collective brings matters to those in list() and in Ready() only.
LEMMA ValueMatters ==
    ASSUME NEW w, NextOp(w).kind \notin {"ready", "entry"}, NEW u, NEW v
    PROVE  Onward(w, u) = Onward(w, v)
  <1>1. CASE w.todo # <<>>
    BY <1>1 DEF Onward, InTodo, NextOp
  <1>2. CASE w.todo = <<>> /\ w.dirs # <<>>
    BY <1>2, OpFields DEF NextOp
  <1>3. CASE w.todo = <<>> /\ w.dirs = <<>>
    BY <1>3 DEF Onward
  <1> QED
    BY <1>1, <1>2, <1>3

LEMMA StartPlace == ASSUME util \in Jobs PROVE WalkStart \in Places
  <1>1. Root \in util.dirs
    BY TreeWalkAssumption
  <1>2. <<>> \in Seq(WalkOps) /\ <<>> \in Seq(util.dirs)
    OBVIOUS
  <1>3. <<Root>> \in Seq(util.dirs)
    BY <1>1, SingletonSeq
  <1> QED
    BY <1>2, <1>3 DEF WalkStart, Places

LEMMA TrackAt ==
    ASSUME WalkType, NEW T, Track(T), NEW r \in Ranks
    PROVE  /\ passed[r] \in 0..Len(net) /\ T[passed[r]] \in Places /\ RankNet(r)
           /\ RankOk(r, T[passed[r]]) /\ PlaceOk(T[passed[r]]) /\ Len(net) \in Nat
  <1>1. passed[r] \in Nat /\ Len(net) \in Nat
    BY RankTyped DEF WalkType
  <1>2. RankNet(r) /\ \A k \in 0..Len(net) : k = passed[r] => RankOk(r, T[k])
    BY DEF Track
  <1>3. passed[r] \in 0..Len(net)
    BY <1>1, <1>2 DEF RankNet
  <1>4. Came(passed[r])
    BY <1>1 DEF Came
  <1>5. T \in [0..Len(net) -> Places] /\ \A k \in 0..Len(net) : k = 0 \/ Came(k) => PlaceOk(T[k])
    BY DEF Track
  <1> QED
    BY ONLY <1>1, <1>2, <1>3, <1>4, <1>5

\* However far one rank is ahead of another, they are in the same call.
LEMMA MeetAt ==
    ASSUME util \in Jobs, Walkable, WalkType, NEW T, Track(T), NEW r \in Ranks, ops[r] # <<>>,
           Head(ops[r]).kind \in Collectives, passed[r] < Len(net)
    PROVE  Agree(Head(ops[r]), net[passed[r] + 1]) /\ passed[r] + 1 \in 1..Len(net)
  <1>1. /\ passed[r] \in 0..Len(net) /\ T[passed[r]] \in Places
        /\ RankOk(r, T[passed[r]]) /\ PlaceOk(T[passed[r]]) /\ Len(net) \in Nat
    BY TrackAt
  <1>2. Agree(NextOp(T[passed[r]]), Head(ops[r]))
    BY <1>1, HeadIsNextOp
  <1>3. passed[r] + 1 \in 1..Len(net) /\ (passed[r] + 1) - 1 = passed[r]
    BY <1>1
  <1>4. NetOk(T, passed[r] + 1)
    BY <1>3 DEF Track
  <1>5. Agree(NextOp(T[passed[r]]), net[passed[r] + 1])
    BY ONLY <1>3, <1>4 DEF NetOk
  <1> QED
    BY ONLY <1>2, <1>3, <1>5 DEF Agree

\* What the root of an entry sends is in the directory, or its end.
LEMMA SentEntry ==
    ASSUME NEW op, op.kind = "entry"
    PROVE  Sent(op) = {op.value}
  BY DEF Sent

LEMMA EnterFirst ==
    ASSUME util \in Jobs, Walkable, WalkType, NEW T, Track(T), NEW r \in Ranks, ~inside[r],
           NEW L, L = Len(net), passed[r] = L,
           ops[r] # <<>>, Head(ops[r]).kind \in Collectives, Grows, stack' = stack, ops' = ops, copied' = copied,
           passed' = passed, inside' = [inside EXCEPT ![r] = TRUE],
           NEW value, value \in IF r = Head(ops[r]).root THEN Sent(Head(ops[r])) ELSE {Root},
           NEW e, e = [kind |-> Head(ops[r]).kind, root |-> Head(ops[r]).root, value |-> value, in |-> {r}],
           net' = Append(net, e), NEW w, w = T[L],
           NEW U, U = [n \in 0..(L + 1) |-> IF n = L + 1 THEN WalkStart ELSE T[n]]
    PROVE  Track(U)' /\ Len(net') = L + 1
  <1> DEFINE op == Head(ops[r])
  <1>1. /\ L \in Nat /\ w \in Places /\ RankOk(r, w) /\ PlaceOk(w) /\ passed[r] = L
    BY TrackAt
  <1>2. /\ Agree(NextOp(w), op)
        /\ op.kind = "entry" => /\ Head(w.dirs) = Top(r).dir
                                /\ r = op.root => op.value \in Entries(Top(r).dir) \cup {End}
    BY <1>1, HeadIsNextOp
  <1>3. Len(net') = L + 1 /\ net'[L + 1] = e /\ \A n \in 1..L : net'[n] = net[n]
    BY <1>1 DEF WalkType
  <1>4. /\ T \in [0..L -> Places] /\ T[0] = WalkStart /\ \A n \in 1..L : NetOk(T, n)
        /\ \A n \in 0..L : n = 0 \/ Came(n) => PlaceOk(T[n])
    BY DEF Track
  <1>5. /\ U \in [0..(L + 1) -> Places] /\ U[0] = WalkStart /\ \A n \in 0..L : U[n] = T[n]
    BY <1>1, <1>4, StartPlace
  <1>6. /\ Ranks' = Ranks /\ Places' = Places /\ WalkStart' = WalkStart /\ util' = util
        /\ \A d : Entries(d)' = Entries(d)
        /\ \A p : NextOp(p)' = NextOp(p)
        /\ \A p, v : Onward(p, v)' = Onward(p, v)
    BY RolesStay, TreeStays, SetsStay DEF Grows, SameRoles, SameTree, SameSets
  <1>7. \A s \in Ranks : passed[s] \in 0..L /\ (inside[s] => passed[s] < L) /\ (s # r => inside'[s] = inside[s])
    <2> SUFFICES ASSUME NEW s \in Ranks PROVE passed[s] \in 0..L /\ (inside[s] => passed[s] < L) /\ (s # r => inside'[s] = inside[s])
      OBVIOUS
    <2>1. passed[s] \in 0..L /\ RankNet(s)
      BY TrackAt
    <2> QED
      BY <2>1 DEF RankNet, WalkType
  <1>8. inside'[r] = TRUE /\ r \in Ranks
    BY DEF WalkType
  <1>9. (\A n : Came(n)' <=> Came(n)) /\ ~Came(L + 1)
    <2>1. \A n : Came(n)' <=> Came(n)
      BY ONLY <1>6, passed' = passed DEF Came
    <2>2. \A s \in Ranks : ~(passed[s] >= L + 1)
      BY ONLY <1>1, <1>7
    <2> QED
      BY ONLY <2>1, <2>2 DEF Came
  <1> HIDE DEF op
  <1>10. ASSUME NEW n \in 1..L PROVE NetOk(U, n)'
    <2>1. NetOk(T, n)
      BY <1>4
    <2>2. U[n] = T[n] /\ U[n - 1] = T[n - 1] /\ net'[n] = net[n]
      <3>1. n \in 0..L /\ n - 1 \in 0..L
        BY <1>1
      <3> QED
        BY ONLY <1>3, <1>5, <3>1, n \in 1..L
    <2>3. {s \in Ranks : passed[s] >= n \/ (passed[s] = n - 1 /\ inside[s])}'
          = {s \in Ranks : passed[s] >= n \/ (passed[s] = n - 1 /\ inside[s])}
      <3>1. passed[r] # n - 1
        BY <1>1
      <3> QED
        BY ONLY <1>6, <1>7, <3>1, passed' = passed
    <2> QED
      BY ONLY <1>6, <1>9, <2>1, <2>2, <2>3 DEF NetOk, Agree
  <1>11. NetOk(U, L + 1)'
    <2>1. {s \in Ranks : passed[s] >= L + 1 \/ (passed[s] = (L + 1) - 1 /\ inside'[s])} = {r}
      <3>1. ASSUME NEW s \in Ranks, s # r PROVE ~(passed[s] >= L + 1 \/ (passed[s] = (L + 1) - 1 /\ inside'[s]))
        <4>1. passed[s] \in 0..L /\ (inside[s] => passed[s] < L) /\ inside'[s] = inside[s] /\ L \in Nat
          BY ONLY <1>1, <1>7, <3>1
        <4> QED
          BY ONLY <4>1
      <3>2. passed[r] = (L + 1) - 1 /\ inside'[r]
        BY <1>1, <1>8
      <3> QED
        BY ONLY <1>8, <3>1, <3>2
    <2>2. U[(L + 1) - 1] = w
      BY <1>1, <1>5
    <2>3. e.kind = op.kind /\ e.root = op.root /\ e.value = value /\ e.in = {r}
      BY DEF op
    <2>4. op.kind = "entry" /\ op.root = r => value \in Entries(Head(w.dirs)) \cup {End}
      <3> SUFFICES ASSUME op.kind = "entry", op.root = r PROVE value \in Entries(Head(w.dirs)) \cup {End}
        OBVIOUS
      <3>1. value = op.value
        BY SentEntry DEF op
      <3> QED
        BY ONLY <1>2, <3>1, op.kind = "entry", op.root = r
    <2>5. Agree(NextOp(w), e)
      BY ONLY <1>2, <2>3 DEF Agree
    <2>6. Entries(Head(U[(L + 1) - 1].dirs))' = Entries(Head(w.dirs))
      BY ONLY <1>6, <2>2
    <2>7. NextOp(U[(L + 1) - 1])' = NextOp(w)
      BY ONLY <1>6, <2>2
    <2>8. ~Came(L + 1)'
      BY <1>9
    <2>9. e = net'[L + 1]
      BY <1>3
    <2> QED
      BY ONLY <1>6, <2>1, <2>2, <2>3, <2>4, <2>5, <2>6, <2>7, <2>8, <2>9, passed' = passed DEF NetOk, Agree
  <1>12. ASSUME NEW s \in Ranks
         PROVE  RankNet(s)' /\ \A n \in 0..(L + 1) : n = passed[s] => RankOk(s, U[n])'
    <2>1. /\ passed[s] \in 0..L /\ RankNet(s) /\ RankOk(s, T[passed[s]])
      BY TrackAt
    <2>2. U[passed[s]] = T[passed[s]]
      BY <1>5, <2>1
    <2>3. RankOk(s, T[passed[s]]) => \A n \in 0..(L + 1) : n = passed[s] => RankOk(s, U[n])'
      <3>1. SameRank(s)
        BY DEF SameRank
      <3>2. ASSUME NEW n, n = passed[s], RankOk(s, T[n]) PROVE RankOk(s, T[n])'
        BY <3>1, <3>2, RankStays
      <3> QED
        BY ONLY <2>2, <3>2
    <2>4. RankNet(s)'
      <3>1. CASE s # r
        <4>1. inside[s] => passed[s] + 1 \in 1..L
          BY ONLY <1>1, <1>7, s \in Ranks
        <4>2. inside[s] => net'[passed[s] + 1] = net[passed[s] + 1]
          BY ONLY <1>3, <4>1
        <4>3. passed[s] < L + 1 /\ (passed[s] <= L + 1) 
          BY <1>1, <2>1
        <4> QED
          BY ONLY <1>3, <1>7, <2>1, <3>1, <4>2, <4>3, s \in Ranks, passed' = passed, ops' = ops DEF RankNet
      <3>2. CASE s = r
        <4>1. passed[r] + 1 = L + 1 /\ passed[r] < L + 1 /\ passed[r] <= L + 1
          BY <1>1
        <4>2. op.kind = "entry" /\ op.root = r => e.value = op.value
          BY SentEntry DEF op
        <4> QED
          BY ONLY <1>3, <3>2, <4>1, <4>2, passed' = passed, ops' = ops, ops[r] # <<>>, Head(ops[r]).kind \in Collectives
             DEF RankNet, op
      <3> QED
        BY <3>1, <3>2
    <2> QED
      BY <2>1, <2>3, <2>4
  <1>13. \A n \in 0..(L + 1) : n = 0 \/ Came(n)' => PlaceOk(U[n])'
    <2> SUFFICES ASSUME NEW n \in 0..(L + 1), n = 0 \/ Came(n)' PROVE PlaceOk(U[n])'
      OBVIOUS
    <2>1. n \in 0..L
      BY <1>1, <1>9
    <2>2. U[n] = T[n] /\ PlaceOk(T[n])
      BY <1>4, <1>5, <1>9, <2>1
    <2>3. ASSUME NEW v, PlaceOk(v) PROVE PlaceOk(v)'
      BY <2>3, PlaceStays
    <2> QED
      BY ONLY <2>2, <2>3
  <1>14. \A n \in 1..(L + 1) : NetOk(U, n)'
    BY <1>1, <1>10, <1>11
  <1> QED
    BY ONLY <1>3, <1>5, <1>6, <1>12, <1>13, <1>14, passed' = passed DEF Track

LEMMA SetAt ==
    ASSUME NEW S, NEW t \in Seq(S), NEW k \in 1..Len(t), NEW e \in S, NEW u, u = [t EXCEPT ![k] = e]
    PROVE  u \in Seq(S) /\ Len(u) = Len(t) /\ u[k] = e /\ \A n \in 1..Len(t) : n # k => u[n] = t[n]
  OBVIOUS

LEMMA EnterLater ==
    ASSUME util \in Jobs, Walkable, WalkType, NEW T, Track(T), NEW r \in Ranks, ~inside[r],
           NEW k, k = passed[r] + 1, k <= Len(net),
           ops[r] # <<>>, Head(ops[r]).kind \in Collectives, Grows, stack' = stack, ops' = ops, copied' = copied,
           passed' = passed, inside' = [inside EXCEPT ![r] = TRUE],
           NEW value \in Things \cup {End}, value \in IF r = Head(ops[r]).root THEN Sent(Head(ops[r])) ELSE {Root},
           NEW e, e = [net[k] EXCEPT !.in = @ \cup {r}, !.value = IF r = Head(ops[r]).root THEN value ELSE @],
           net' = [net EXCEPT ![k] = e]
    PROVE  Track(T)' /\ net' \in Seq(Meetings)
  <1> DEFINE op == Head(ops[r])
             w == T[k - 1]
             c == net[k]
  <1>1. /\ Len(net) \in Nat /\ passed[r] \in 0..Len(net) /\ T[passed[r]] \in Places
        /\ RankOk(r, T[passed[r]]) /\ PlaceOk(T[passed[r]])
    BY TrackAt
  <1>2. k \in 1..Len(net) /\ k - 1 = passed[r]
    BY <1>1
  <1>3. /\ Agree(NextOp(w), op)
        /\ op.kind = "entry" => /\ Head(w.dirs) = Top(r).dir
                                /\ r = op.root => op.value \in Entries(Top(r).dir) \cup {End}
    BY <1>1, <1>2, HeadIsNextOp
  <1>4. Agree(op, c)
    BY <1>1, <1>2, MeetAt
  <1>5. net \in Seq(Meetings) /\ c \in Meetings /\ c.in \subseteq Ranks
    <2>1. net \in Seq(Meetings)
      BY DEF WalkType
    <2>2. c \in Meetings
      BY ONLY <1>2, <2>1
    <2> QED
      BY ONLY <2>1, <2>2 DEF Meetings
  <1>6. /\ e.kind = c.kind /\ e.root = c.root /\ e.in = c.in \cup {r}
        /\ e.value = IF r = op.root THEN value ELSE c.value
        /\ e \in Meetings
    BY <1>5 DEF Meetings
  <1>7. /\ Len(net') = Len(net) /\ net'[k] = e /\ \A n \in 1..Len(net) : n # k => net'[n] = net[n]
        /\ net' \in Seq(Meetings)
    BY ONLY <1>2, <1>5, <1>6, SetAt, net' = [net EXCEPT ![k] = e]
  <1>8. /\ T \in [0..Len(net) -> Places] /\ T[0] = WalkStart /\ \A n \in 1..Len(net) : NetOk(T, n)
        /\ \A n \in 0..Len(net) : n = 0 \/ Came(n) => PlaceOk(T[n])
    BY DEF Track
  <1>9. /\ Ranks' = Ranks /\ Places' = Places /\ WalkStart' = WalkStart /\ util' = util
        /\ \A d : Entries(d)' = Entries(d)
        /\ \A p : NextOp(p)' = NextOp(p)
        /\ \A p, v : Onward(p, v)' = Onward(p, v)
    BY RolesStay, TreeStays, SetsStay DEF Grows, SameRoles, SameTree, SameSets
  <1>10. inside'[r] = TRUE /\ \A s \in Ranks : s # r => inside'[s] = inside[s]
    BY DEF WalkType
  <1>11. \A n : Came(n)' <=> Came(n)
    BY ONLY <1>9, passed' = passed DEF Came
  <1>12. r \notin c.in
    <2>1. NetOk(T, k)
      BY <1>2, <1>8
    <2>2. c.in = {s \in Ranks : passed[s] >= k \/ (passed[s] = k - 1 /\ inside[s])}
      BY ONLY <2>1 DEF NetOk
    <2>3. ~(passed[r] >= k)
      BY <1>1, <1>2
    <2> QED
      BY <2>2, <2>3
  <1>13. op.kind = "entry" /\ r = op.root => value = op.value
    BY SentEntry
  <1> HIDE DEF op, w, c
  <1>14. ASSUME NEW n \in 1..Len(net), n # k PROVE NetOk(T, n)'
    <2>1. NetOk(T, n) /\ net'[n] = net[n]
      BY <1>7, <1>8, <1>14
    <2>2. {s \in Ranks : passed[s] >= n \/ (passed[s] = n - 1 /\ inside[s])}'
          = {s \in Ranks : passed[s] >= n \/ (passed[s] = n - 1 /\ inside[s])}
      <3>1. passed[r] # n - 1
        BY ONLY <1>2, <1>14, n \in 1..Len(net), k \in 1..Len(net)
      <3> QED
        BY ONLY <1>9, <1>10, <3>1, passed' = passed
    <2> QED
      BY ONLY <1>9, <1>11, <2>1, <2>2 DEF NetOk, Agree
  <1>15. NetOk(T, k)'
    <2>1. NetOk(T, k)
      BY <1>2, <1>8
    <2>2. /\ c.in = {s \in Ranks : passed[s] >= k \/ (passed[s] = k - 1 /\ inside[s])} /\ c.in # {}
          /\ Agree(NextOp(w), c)
          /\ c.kind = "entry" /\ c.root \in c.in => c.value \in Entries(Head(w.dirs)) \cup {End}
          /\ Came(k) => T[k] = Onward(w, c.value) /\ (c.kind \in Bcasts => c.root \in c.in)
      BY ONLY <2>1 DEF NetOk, w, c
    <2>3. {s \in Ranks : passed[s] >= k \/ (passed[s] = k - 1 /\ inside'[s])} = c.in \cup {r}
      BY ONLY <1>2, <1>10, <2>2, r \in Ranks
    <2>4. c.kind = "entry" /\ c.root \in c.in \cup {r} => e.value \in Entries(Head(w.dirs)) \cup {End}
      <3> SUFFICES ASSUME c.kind = "entry", c.root \in c.in \cup {r}
                   PROVE  e.value \in Entries(Head(w.dirs)) \cup {End}
        OBVIOUS
      <3>1. op.kind = "entry" /\ op.root = c.root
        BY ONLY <1>4, c.kind = "entry" DEF Agree
      <3>2. CASE r = op.root
        BY ONLY <1>3, <1>6, <1>13, <3>1, <3>2
      <3>3. CASE r # op.root
        BY ONLY <1>6, <2>2, <3>1, <3>3, c.kind = "entry", c.root \in c.in \cup {r}
      <3> QED
        BY <3>2, <3>3
    <2>5. Came(k) => T[k] = Onward(w, e.value)
      <3> SUFFICES ASSUME Came(k) PROVE Onward(w, c.value) = Onward(w, e.value)
        BY <2>2
      <3>1. CASE r # op.root
        BY ONLY <1>6, <3>1
      <3>2. CASE r = op.root
        <4>1. c.kind \notin Bcasts
          BY ONLY <1>4, <1>12, <2>2, <3>2, Came(k) DEF Agree
        <4>2. NextOp(w).kind \notin {"ready", "entry"}
          BY ONLY <2>2, <4>1 DEF Agree, Bcasts
        <4> QED
          BY ONLY <4>2, ValueMatters
      <3> QED
        BY <3>1, <3>2
    <2>6. e = net'[k]
      BY <1>7
    <2>7. \A v : v = e.value => (Came(k) => T[k] = Onward(w, v))
      BY ONLY <2>5
    <2>8. NextOp(T[k - 1])' = NextOp(w) /\ Entries(Head(T[k - 1].dirs))' = Entries(Head(w.dirs))
      BY ONLY <1>9 DEF w
    <2>9. \A v : Onward(T[k - 1], v)' = Onward(w, v)
      BY ONLY <1>9 DEF w
    <2>10. Agree(NextOp(w), e)
      BY ONLY <1>6, <2>2 DEF Agree
    <2>11. Came(k)' => \A v : v = e.value => T[k] = Onward(T[k - 1], v)'
      BY ONLY <1>11, <2>7, <2>9
    <2> QED
      BY ONLY <1>6, <1>9, <1>11, <2>2, <2>3, <2>4, <2>6, <2>8, <2>10, <2>11, passed' = passed DEF NetOk, Agree
  <1>16. ASSUME NEW s \in Ranks
         PROVE  RankNet(s)' /\ \A n \in 0..Len(net) : n = passed[s] => RankOk(s, T[n])'
    <2>1. /\ passed[s] \in 0..Len(net) /\ RankNet(s) /\ RankOk(s, T[passed[s]])
      BY TrackAt
    <2>2. \A n \in 0..Len(net) : n = passed[s] => RankOk(s, T[n])'
      <3>1. SameRank(s)
        BY DEF SameRank
      <3>2. ASSUME NEW n, n = passed[s], RankOk(s, T[n]) PROVE RankOk(s, T[n])'
        BY <3>1, <3>2, RankStays
      <3> QED
        BY ONLY <2>1, <3>2
    <2>3. RankNet(s)'
      <3>1. CASE s = r
        <4>1. passed[r] < Len(net) /\ passed[r] <= Len(net) /\ passed[r] + 1 = k
          BY <1>1, <1>2
        <4> QED
          BY ONLY <1>6, <1>7, <1>13, <3>1, <4>1, passed' = passed, ops' = ops, ops[r] # <<>>, Head(ops[r]).kind \in Collectives
             DEF RankNet, op
      <3>2. CASE s # r /\ passed[s] + 1 # k
        <4>1. passed[s] < Len(net) => passed[s] + 1 \in 1..Len(net)
          BY ONLY <1>1, <2>1
        <4>2. passed[s] < Len(net) => net'[passed[s] + 1] = net[passed[s] + 1]
          BY ONLY <1>7, <3>2, <4>1
        <4> QED
          BY ONLY <1>7, <1>10, <2>1, <3>2, <4>2, s \in Ranks, passed' = passed, ops' = ops DEF RankNet
      <3>3. CASE s # r /\ passed[s] + 1 = k
        <4>1. ASSUME inside[s], Head(ops[s]).kind = "entry", s = Head(ops[s]).root
              PROVE  e.value = Head(ops[s]).value
          <5>1. /\ passed[s] < Len(net) /\ ops[s] # <<>> /\ Head(ops[s]).kind \in Collectives
                /\ net[passed[s] + 1].value = Head(ops[s]).value
            BY ONLY <2>1, <4>1 DEF RankNet
          <5>2. Agree(Head(ops[s]), c)
            BY <3>3, <5>1, MeetAt DEF c
          <5>3. op.root = s
            BY ONLY <1>4, <4>1, <5>2 DEF Agree
          <5> QED
            BY ONLY <1>6, <3>3, <5>1, <5>3 DEF c
        <4> QED
          BY ONLY <1>7, <1>10, <2>1, <3>3, <4>1, s \in Ranks, passed' = passed, ops' = ops DEF RankNet
      <3> QED
        BY <3>1, <3>2, <3>3
    <2> QED
      BY <2>2, <2>3
  <1>17. \A n \in 0..Len(net) : n = 0 \/ Came(n)' => PlaceOk(T[n])'
    BY <1>8, <1>11, PlaceStays
  <1>18. \A n \in 1..Len(net) : NetOk(T, n)'
    BY <1>14, <1>15
  <1> QED
    BY ONLY <1>7, <1>8, <1>9, <1>16, <1>17, <1>18, passed' = passed DEF Track

LEMMA EnterKeeps ==
    ASSUME util \in Jobs, Walkable, WalkType, NEW T, Track(T), NEW r \in Ranks, Enter(r)
    PROVE  Grows /\ WalkType' /\ \E U : Track(U)'
  <1> DEFINE op == Head(ops[r])
             k == passed[r] + 1
  <1>1. /\ ops[r] # <<>> /\ op.kind \in Collectives /\ ~inside[r] /\ inside' = [inside EXCEPT ![r] = TRUE]
        /\ util' = util /\ stack' = stack /\ ops' = ops /\ passed' = passed /\ UNCHANGED disks /\ skipped' = skipped
        /\ has' = has /\ outside' = outside /\ copied' = copied
    BY DEF Enter, Doing, disks
  <1>2. PICK value \in IF r = op.root THEN Sent(op) ELSE {Root} :
             net' = IF k > Len(net) THEN Append(net, [kind |-> op.kind, root |-> op.root,
                                                      value |-> value, in |-> {r}])
                    ELSE [net EXCEPT ![k] = [net[k] EXCEPT !.in = @ \cup {r},
                                                           !.value = IF r = op.root THEN value ELSE @]]
    BY DEF Enter
  <1>3. Grows
    BY <1>1 DEF Grows
  <1>4. passed[r] \in 0..Len(net) /\ Len(net) \in Nat
    BY TrackAt
  <1>5. op \in WalkOps /\ op.root \in WalkRoots /\ op.value \in Things \cup {End}
    <2>1. op \in WalkOps
      BY <1>1, RankTyped, TailOf
    <2> QED
      BY ONLY <2>1 DEF WalkOps
  <1>6. value \in Things \cup {End}
    <2>1. Root \in Things
      BY TreeWalkAssumption DEF Things
    <2> QED
      BY <1>2, <1>5, <2>1 DEF Sent
  <1> HIDE DEF op
  <1>7. ASSUME k > Len(net) PROVE net' \in Seq(Meetings) /\ \E U : Track(U)'
    <2> DEFINE e == [kind |-> op.kind, root |-> op.root, value |-> value, in |-> {r}]
    <2>1. net' = Append(net, e) /\ passed[r] = Len(net)
      BY <1>2, <1>4, <1>7
    <2>2. e \in Meetings
      BY <1>1, <1>5, <1>6 DEF Meetings
    <2>3. net' \in Seq(Meetings)
      BY <2>1, <2>2 DEF WalkType
    <2> DEFINE U == [n \in 0..(Len(net) + 1) |-> IF n = Len(net) + 1 THEN WalkStart ELSE T[n]]
    <2>4. \A V : V = U => Track(V)'
      <3> SUFFICES ASSUME NEW V, V = U PROVE Track(V)'
        OBVIOUS
      <3> HIDE DEF e, U
      <3>1. value \in IF r = Head(ops[r]).root THEN Sent(Head(ops[r])) ELSE {Root}
        BY <1>2 DEF op
      <3>2. PICK L : L = Len(net)
        OBVIOUS
      <3>3. PICK x : x = e
        OBVIOUS
      <3>4. V = [n \in 0..(L + 1) |-> IF n = L + 1 THEN WalkStart ELSE T[n]]
        BY <3>2 DEF U
      <3>5. x = [kind |-> Head(ops[r]).kind, root |-> Head(ops[r]).root, value |-> value, in |-> {r}]
        BY <3>3 DEF e, op
      <3>6. net' = Append(net, x) /\ passed[r] = L
        BY <2>1, <3>2, <3>3
      <3>7. ops[r] # <<>> /\ Head(ops[r]).kind \in Collectives
        BY <1>1 DEF op
      <3> QED
        BY <1>1, <1>3, <3>1, <3>2, <3>4, <3>5, <3>6, <3>7, EnterFirst
    <2> QED
      BY <2>3, <2>4
  <1>8. ASSUME ~(k > Len(net)) PROVE net' \in Seq(Meetings) /\ \E U : Track(U)'
    <2> DEFINE e == [net[k] EXCEPT !.in = @ \cup {r}, !.value = IF r = op.root THEN value ELSE @]
    <2>1. net' = [net EXCEPT ![k] = e] /\ k <= Len(net)
      <3>1. k <= Len(net)
        BY <1>4, <1>8
      <3> QED
        BY ONLY <1>2, <1>8, <3>1
    <2>2. Track(T)' /\ net' \in Seq(Meetings)
      <3> HIDE DEF e, k
      <3>1. value \in IF r = Head(ops[r]).root THEN Sent(Head(ops[r])) ELSE {Root}
        BY <1>2 DEF op
      <3>2. PICK n : n = passed[r] + 1
        OBVIOUS
      <3>3. PICK x : x = e
        OBVIOUS
      <3>4. x = [net[n] EXCEPT !.in = @ \cup {r}, !.value = IF r = Head(ops[r]).root THEN value ELSE @]
        BY <3>2, <3>3 DEF e, op, k
      <3>5. net' = [net EXCEPT ![n] = x] /\ n <= Len(net)
        BY <2>1, <3>2, <3>3 DEF k
      <3>6. ops[r] # <<>> /\ Head(ops[r]).kind \in Collectives
        BY <1>1 DEF op
      <3> QED
        BY <1>1, <1>3, <1>6, <3>1, <3>2, <3>4, <3>5, <3>6, EnterLater
    <2> QED
      BY <2>2
  <1>9. net' \in Seq(Meetings) /\ \E U : Track(U)'
    BY <1>7, <1>8
  <1>10. WalkType'
    <2>1. Ranks' = Ranks /\ Frames' = Frames /\ WalkOps' = WalkOps /\ Meetings' = Meetings /\ Things' = Things
      BY <1>1, RolesStay, TreeStays, SetsStay DEF SameRoles, SameTree, SameSets
    <2> QED
      BY <1>1, <1>9, <2>1 DEF WalkType
  <1> QED
    BY <1>3, <1>9, <1>10

\* What the value of a collective that the walk goes on from may be.
Brings(w, v) ==
    /\ w.todo = <<>> /\ w.dirs # <<>> =>
         /\ v \in Entries(Head(w.dirs)) \cup {End} /\ util.tool # "preload"
         /\ v = End => Entries(Head(w.dirs)) \subseteq w.sent \cup skipped'
    /\ w.todo # <<>> /\ Head(w.todo).kind = "ready" =>
         Head(w.todo).value \in Things /\ (v = End => Head(w.todo).value \in skipped')
    /\ util.tool = "flush" /\ w.todo # <<>> =>
         /\ Len(w.todo) = 1 /\ w.todo[1].kind = "barrier" /\ w.dirs # <<>> => w.dirs[1] \in outside
         /\ Tail(w.todo) # <<>> /\ Head(Tail(w.todo)).kind = "header" /\ (Head(w.todo).kind = "ready" => v # End) =>
              Head(Tail(w.todo)).value \in outside

LEMMA PlaceTyped ==
    ASSUME NEW w \in Places
    PROVE  /\ w.todo \in Seq(WalkOps) /\ w.dirs \in Seq(util.dirs) /\ w.over \in BOOLEAN
           /\ w.sent \subseteq Things /\ w.got \subseteq Things /\ w.done \subseteq util.dirs
  BY DEF Places

LEMMA OnwardInTodo ==
    ASSUME util \in Jobs, Walkable, NEW w \in Places, PlaceOk(w), NEW v, Brings(w, v), Grows, w.todo # <<>>,
           NEW u, u = Onward(w, v)
    PROVE  /\ u \in Places /\ PlaceOk(u)' /\ u.dirs = w.dirs /\ u.over = w.over /\ u.sent = w.sent
           /\ u.todo = (IF Head(w.todo).kind = "ready" /\ v = End THEN <<>> ELSE Tail(w.todo))
           /\ u.got = (IF Head(w.todo).kind = "ready" /\ v # End THEN w.got \cup {Head(w.todo).value} ELSE w.got)
  <1> DEFINE h == Head(w.todo)
             t == IF h.kind = "ready" /\ v = End THEN <<>> ELSE Tail(w.todo)
             g == IF h.kind = "ready" /\ v # End THEN w.got \cup {h.value} ELSE w.got
  <1>1. /\ w.todo \in Seq(WalkOps) /\ w.dirs \in Seq(util.dirs) /\ w.over \in BOOLEAN
        /\ w.sent \subseteq Things /\ w.got \subseteq Things /\ w.done \subseteq util.dirs
    BY PlaceTyped
  <1>2. /\ Tail(w.todo) \in Seq(WalkOps) /\ Len(w.todo) \in Nat \ {0} /\ Len(Tail(w.todo)) = Len(w.todo) - 1
        /\ h = w.todo[1] /\ \A i \in 1..Len(Tail(w.todo)) : Tail(w.todo)[i] = w.todo[i + 1]
    BY <1>1, TailOf
  <1>3. h.kind = "ready" => h.value \in Things /\ (v = End => h.value \in skipped')
    BY DEF Brings
  <1> HIDE DEF h
  <1>4. u = [w EXCEPT !.todo = t, !.got = g]
    <2>1. u = InTodo(w, v)
      BY DEF Onward
    <2>2. CASE h.kind = "ready" /\ v = End
      <3>1. u = [w EXCEPT !.todo = <<>>]
        BY <2>1, <2>2 DEF InTodo, h
      <3> QED
        BY <2>2, <3>1 DEF Places
    <2>3. CASE h.kind = "ready" /\ v # End
      <3>1. u = [w EXCEPT !.todo = Tail(@), !.got = @ \cup {h.value}]
        BY <2>1, <2>3 DEF InTodo, h
      <3> QED
        BY <2>3, <3>1 DEF Places
    <2>4. CASE h.kind # "ready"
      <3>1. u = [w EXCEPT !.todo = Tail(@)]
        BY <2>1, <2>4 DEF InTodo, h
      <3> QED
        BY <2>4, <3>1 DEF Places
    <2> QED
      BY <2>2, <2>3, <2>4
  <1>5. t \in Seq(WalkOps) /\ g \subseteq Things /\ w.got \subseteq g
    BY <1>1, <1>2, <1>3
  <1> HIDE DEF t, g
  <1>6. u \in Places /\ u.todo = t /\ u.dirs = w.dirs /\ u.over = w.over /\ u.sent = w.sent /\ u.got = g /\ u.done = w.done
    BY <1>4, <1>5 DEF Places
  <1>7. /\ ~w.over /\ util.tool # "preload"
        /\ \A i \in 1..Len(w.todo) : w.todo[i].kind \in Collectives \ {"entry"} /\ (w.todo[i].kind = "ready" => i = 1)
        /\ FlushPlace(w) /\ SentPlace(w)
    BY DEF PlaceOk
  <1>8. \A i \in 1..Len(t) : t[i].kind \in Collectives \ {"entry"} /\ (t[i].kind = "ready" => i = 1)
    <2>1. CASE t = <<>>
      BY <2>1
    <2>2. CASE t = Tail(w.todo)
      <3> SUFFICES ASSUME NEW i \in 1..Len(t) PROVE t[i].kind \in Collectives \ {"entry"} /\ (t[i].kind = "ready" => i = 1)
        OBVIOUS
      <3>1. i + 1 \in 1..Len(w.todo) /\ t[i] = w.todo[i + 1] /\ i + 1 # 1
        BY <1>2, <2>2
      <3> QED
        BY ONLY <1>7, <3>1
    <2> QED
      BY <2>1, <2>2 DEF t
  <1>9. util' = util /\ outside \subseteq outside' /\ skipped \subseteq skipped'
    BY DEF Grows
  <1>10. FlushPlace(u)'
    <2> SUFFICES ASSUME util.tool = "flush"
                 PROVE  /\ \A i \in 1..Len(w.dirs) : w.dirs[i] \in outside
                        /\ Len(t) = 1 /\ t[1].kind = "header" => t[1].value \in outside
      BY <1>6, <1>9 DEF FlushPlace
    <2>1. /\ Len(w.todo) = 1 /\ w.todo[1].kind = "barrier" /\ w.dirs # <<>> => w.dirs[1] \in outside
          /\ Tail(w.todo) # <<>> /\ Head(Tail(w.todo)).kind = "header" /\ (h.kind = "ready" => v # End) =>
               Head(Tail(w.todo)).value \in outside
      BY DEF Brings, h
    <2>2. ASSUME NEW i \in 1..Len(w.dirs) PROVE w.dirs[i] \in outside
      <3>1. w.dirs[i] \in outside \/ (i = 1 /\ Len(w.todo) = 1 /\ w.todo[1].kind = "barrier")
        BY <1>7 DEF FlushPlace
      <3>2. w.dirs # <<>>
        BY <1>1, <2>2
      <3> QED
        BY ONLY <2>1, <3>1, <3>2
    <2>3. ASSUME Len(t) = 1, t[1].kind = "header" PROVE t[1].value \in outside
      <3>1. t # <<>>
        BY <2>3
      <3>2. t = Tail(w.todo) /\ (h.kind = "ready" => v # End)
        BY ONLY <3>1 DEF t
      <3>3. Head(t) = t[1]
        BY <1>5, <3>1, TailOf
      <3> QED
        BY ONLY <2>1, <2>3, <3>1, <3>2, <3>3
    <2> QED
      BY <2>2, <2>3
  <1>11. SentPlace(u)'
    <2>1. /\ \A p : Entries(p)' = Entries(p)
          /\ \A p : HasCopy(p)' <=> HasCopy(p)
      BY <1>9, TreeStays DEF SameTree
    <2>2. /\ \A p \in w.sent : HasCopy(p) =>
               p \in w.got \/ p \in skipped \/ (w.todo # <<>> /\ w.todo[1].kind = "ready" /\ w.todo[1].value = p)
          /\ \A d \in w.done : Entries(d) \subseteq w.sent \cup skipped
          /\ \A d \in (w.sent \cap util.dirs) \cup {Root} :
               d \in w.done \/ \E i \in 1..Len(w.dirs) : w.dirs[i] = d
      BY <1>7 DEF SentPlace
    <2>3. \A p \in w.sent : HasCopy(p) => p \in g \/ p \in skipped'
      BY <1>2, <1>3, <1>9, <2>2 DEF g
    <2> QED
      BY ONLY <1>6, <1>9, <2>1, <2>2, <2>3 DEF SentPlace
  <1>12. PlaceOk(u)'
    BY ONLY <1>6, <1>7, <1>8, <1>9, <1>10, <1>11 DEF PlaceOk
  <1> QED
    BY ONLY <1>6, <1>12 DEF t, g, h

LEMMA OnwardOver ==
    ASSUME util \in Jobs, Walkable, NEW w \in Places, PlaceOk(w), Grows, w.todo = <<>>, w.dirs = <<>>,
           NEW v, NEW u, u = Onward(w, v)
    PROVE  /\ u \in Places /\ PlaceOk(u)'
           /\ u.over = TRUE /\ u.todo = <<>> /\ u.dirs = <<>> /\ u.sent = w.sent /\ u.got = w.got
  <1>1. u = [w EXCEPT !.over = TRUE]
    BY DEF Onward
  <1>2. /\ w.todo \in Seq(WalkOps) /\ w.dirs \in Seq(util.dirs) /\ w.over \in BOOLEAN
        /\ w.sent \subseteq Things /\ w.got \subseteq Things /\ w.done \subseteq util.dirs
    BY PlaceTyped
  <1>3. /\ u \in Places /\ u.todo = <<>> /\ u.dirs = <<>> /\ u.sent = w.sent /\ u.got = w.got /\ u.done = w.done
        /\ u.over = TRUE
    BY <1>1 DEF Places
  <1>4. PlaceOk(w)'
    BY PlaceStays
  <1>5. FlushPlace(u)' /\ SentPlace(u)'
    BY ONLY <1>3, <1>4, w.todo = <<>>, w.dirs = <<>> DEF PlaceOk, FlushPlace, SentPlace
  <1> QED
    BY <1>3, <1>5 DEF PlaceOk

LEMMA OnwardEnd ==
    ASSUME util \in Jobs, Walkable, NEW w \in Places, PlaceOk(w), Brings(w, End), Grows, w.todo = <<>>, w.dirs # <<>>,
           NEW u, u = Onward(w, End)
    PROVE  /\ u \in Places /\ PlaceOk(u)'
           /\ u.todo = <<>> /\ u.dirs = Tail(w.dirs) /\ u.over = w.over /\ u.sent = w.sent /\ u.got = w.got
  <1> DEFINE h == Head(w.dirs)
             D == Tail(w.dirs)
  <1>1. /\ w.todo \in Seq(WalkOps) /\ w.dirs \in Seq(util.dirs) /\ w.over \in BOOLEAN
        /\ w.sent \subseteq Things /\ w.got \subseteq Things /\ w.done \subseteq util.dirs
    BY PlaceTyped
  <1>2. /\ D \in Seq(util.dirs) /\ Len(w.dirs) \in Nat \ {0} /\ Len(D) = Len(w.dirs) - 1
        /\ h = w.dirs[1] /\ h \in util.dirs /\ \A i \in 1..Len(D) : D[i] = w.dirs[i + 1]
    BY <1>1, TailOf
  <1>3. Entries(h) \subseteq w.sent \cup skipped' /\ util.tool # "preload"
    BY DEF Brings
  <1>4. u = [w EXCEPT !.dirs = D, !.done = @ \cup {h}]
    BY DEF Onward, InDir
  <1> HIDE DEF h, D
  <1>5. /\ u \in Places /\ u.todo = <<>> /\ u.dirs = D /\ u.over = w.over /\ u.sent = w.sent /\ u.got = w.got
        /\ u.done = w.done \cup {h}
    <2>1. w.done \cup {h} \subseteq util.dirs
      BY ONLY <1>1, <1>2
    <2>2. ASSUME NEW M, M = w.done \cup {h}, M \subseteq util.dirs, D \in Seq(util.dirs), u = [w EXCEPT !.dirs = D, !.done = M]
          PROVE  /\ u \in Places /\ u.todo = w.todo /\ u.dirs = D /\ u.over = w.over /\ u.sent = w.sent /\ u.got = w.got
                 /\ u.done = M
      BY ONLY <2>2, w \in Places DEF Places
    <2> QED
      BY ONLY <1>2, <1>4, <2>1, <2>2, w.todo = <<>>
  <1>6. ~w.over /\ FlushPlace(w) /\ SentPlace(w)
    BY DEF PlaceOk
  <1>7. util' = util /\ outside \subseteq outside' /\ skipped \subseteq skipped'
    BY DEF Grows
  <1>8. \A i \in 1..Len(D) : i + 1 \in 1..Len(w.dirs) /\ D[i] = w.dirs[i + 1]
    BY ONLY <1>2
  <1>9. FlushPlace(u)'
    <2> SUFFICES ASSUME util.tool = "flush"
                 PROVE  \A i \in 1..Len(D) : D[i] \in outside
      BY <1>5, <1>7 DEF FlushPlace
    <2>1. \A i \in 1..Len(w.dirs) : w.dirs[i] \in outside
      BY <1>6 DEF FlushPlace
    <2> QED
      BY ONLY <1>8, <2>1
  <1>10. SentPlace(u)'
    <2>1. /\ \A p : Entries(p)' = Entries(p)
          /\ \A p : HasCopy(p)' <=> HasCopy(p)
      BY <1>7, TreeStays DEF SameTree
    <2>2. /\ \A p \in w.sent : HasCopy(p) => p \in w.got \/ p \in skipped
          /\ \A d \in w.done : Entries(d) \subseteq w.sent \cup skipped
          /\ \A d \in (w.sent \cap util.dirs) \cup {Root} :
               d \in w.done \/ \E i \in 1..Len(w.dirs) : w.dirs[i] = d
      BY <1>3, <1>6 DEF SentPlace
    <2>3. ASSUME NEW d \in (w.sent \cap util.dirs) \cup {Root}
          PROVE  d \in w.done \cup {h} \/ \E i \in 1..Len(D) : D[i] = d
      <3>1. CASE d \in w.done
        BY <3>1
      <3>2. CASE \E i \in 1..Len(w.dirs) : w.dirs[i] = d
        <4>1. PICK i \in 1..Len(w.dirs) : w.dirs[i] = d
          BY <3>2
        <4>2. CASE i = 1
          BY <1>2, <4>1, <4>2
        <4>3. CASE i # 1
          <5>1. i - 1 \in 1..Len(D) /\ (i - 1) + 1 = i
            BY <1>2, <4>3
          <5>2. D[i - 1] = d
            BY ONLY <1>8, <4>1, <5>1
          <5> QED
            BY ONLY <5>1, <5>2
        <4> QED
          BY <4>2, <4>3
      <3> QED
        BY <2>2, <3>1, <3>2
    <2>4. \A d \in w.done \cup {h} : Entries(d) \subseteq w.sent \cup skipped'
      BY <1>3, <1>7, <2>2 DEF h
    <2> QED
      BY ONLY <1>5, <1>7, <2>1, <2>2, <2>3, <2>4 DEF SentPlace
  <1>11. PlaceOk(u)'
    BY <1>3, <1>5, <1>6, <1>7, <1>9, <1>10 DEF PlaceOk
  <1> QED
    BY <1>5, <1>11 DEF D

LEMMA OnwardEntry ==
    ASSUME util \in Jobs, Walkable, NEW w \in Places, PlaceOk(w), NEW v, v # End, Brings(w, v), Grows,
           w.todo = <<>>, w.dirs # <<>>, NEW u, u = Onward(w, v)
    PROVE  /\ u \in Places /\ PlaceOk(u)' /\ v \in Things
           /\ u.todo = Colls(v) /\ u.dirs = (IF IsDir(v) THEN <<v>> \o w.dirs ELSE w.dirs) /\ u.over = w.over
           /\ u.sent = w.sent \cup {v} /\ u.got = (IF HasCopy(v) /\ ~Decides(v) THEN w.got \cup {v} ELSE w.got)
  <1> DEFINE D == IF IsDir(v) THEN <<v>> \o w.dirs ELSE w.dirs
             G == IF HasCopy(v) /\ ~Decides(v) THEN w.got \cup {v} ELSE w.got
             C == Colls(v)
  <1>1. /\ w.todo \in Seq(WalkOps) /\ w.dirs \in Seq(util.dirs) /\ w.over \in BOOLEAN
        /\ w.sent \subseteq Things /\ w.got \subseteq Things /\ w.done \subseteq util.dirs
    BY PlaceTyped
  <1>2. v \in Entries(Head(w.dirs)) /\ util.tool # "preload"
    BY DEF Brings
  <1>3. v \in Things /\ v # Root
    BY <1>2, EntryInTree
  <1>4. CollsFacts(v)
    BY <1>2, <1>3, CollsAre
  <1>5. /\ D \in Seq(util.dirs)
        /\ IsDir(v) => Len(D) = Len(w.dirs) + 1 /\ D[1] = v /\ \A i \in 1..Len(w.dirs) : D[i + 1] = w.dirs[i]
        /\ IsDir(v) => \A i \in 2..Len(D) : D[i] = w.dirs[i - 1]
        /\ ~IsDir(v) => D = w.dirs
    <2>1. CASE IsDir(v)
      <3>1. v \in util.dirs /\ D = <<v>> \o w.dirs
        BY <2>1 DEF IsDir
      <3> HIDE DEF D
      <3>2. /\ D \in Seq(util.dirs) /\ Len(D) = Len(w.dirs) + 1 /\ D[1] = v /\ \A i \in 1..Len(w.dirs) : D[i + 1] = w.dirs[i]
            /\ \A i \in 2..Len(D) : D[i] = w.dirs[i - 1]
        <4>1. ASSUME NEW S, NEW t \in Seq(S), NEW x \in S, NEW y, y = <<x>> \o t
              PROVE  /\ y \in Seq(S) /\ Len(y) = Len(t) + 1 /\ y[1] = x /\ \A i \in 1..Len(t) : y[i + 1] = t[i]
                     /\ \A i \in 2..Len(y) : y[i] = t[i - 1]
          BY ONLY <4>1, PushOn
        <4>2. w.dirs \in Seq(util.dirs)
          BY <1>1
        <4>3. PICK t : t = w.dirs
          OBVIOUS
        <4>4. t \in Seq(util.dirs) /\ v \in util.dirs /\ D = <<v>> \o t
          BY ONLY <3>1, <4>2, <4>3
        <4>5. D \in Seq(util.dirs)
          BY ONLY <4>1, <4>4
        <4>6. Len(D) = Len(t) + 1
          BY ONLY <4>1, <4>4
        <4>7. D[1] = v
          BY ONLY <4>1, <4>4
        <4>8. \A i \in 1..Len(t) : D[i + 1] = t[i]
          BY ONLY <4>1, <4>4
        <4>9. \A i \in 2..Len(D) : D[i] = t[i - 1]
          BY ONLY <4>1, <4>4
        <4> QED
          BY ONLY <4>3, <4>5, <4>6, <4>7, <4>8, <4>9
      <3> QED
        BY ONLY <2>1, <3>2
    <2>2. CASE ~IsDir(v)
      BY <1>1, <2>2
    <2> QED
      BY <2>1, <2>2
  <1>6. u = [w EXCEPT !.todo = C, !.dirs = D, !.sent = @ \cup {v}, !.got = G]
    BY DEF Onward, InDir
  <1>7. C \in Seq(WalkOps) /\ G \subseteq Things
    BY <1>1, <1>3, <1>4 DEF CollsFacts
  <1> HIDE DEF C, D, G
  <1>8. /\ u \in Places /\ u.todo = C /\ u.dirs = D /\ u.over = w.over /\ u.sent = w.sent \cup {v} /\ u.got = G
        /\ u.done = w.done
    <2>1. w.sent \cup {v} \subseteq Things
      BY ONLY <1>1, <1>3
    <2>2. ASSUME NEW M, M = w.sent \cup {v}, M \subseteq Things, C \in Seq(WalkOps), D \in Seq(util.dirs), G \subseteq Things,
                 u = [w EXCEPT !.todo = C, !.dirs = D, !.sent = M, !.got = G]
          PROVE  /\ u \in Places /\ u.todo = C /\ u.dirs = D /\ u.over = w.over /\ u.sent = M /\ u.got = G /\ u.done = w.done
      BY ONLY <2>2, w \in Places DEF Places
    <2> QED
      BY ONLY <1>5, <1>6, <1>7, <2>1, <2>2
  <1>9. ~w.over /\ FlushPlace(w) /\ SentPlace(w)
    BY DEF PlaceOk
  <1>10. util' = util /\ outside \subseteq outside' /\ skipped \subseteq skipped'
    BY DEF Grows
  <1>11. \A i \in 1..Len(C) : C[i].kind \in Collectives \ {"entry"} /\ (C[i].kind = "ready" => i = 1)
    BY <1>4 DEF CollsFacts, C
  <1>12. Len(w.dirs) \in Nat /\ Len(C) \in Nat
    BY <1>1, <1>7
  <1>13. FlushPlace(u)'
    <2> SUFFICES ASSUME util.tool = "flush"
                 PROVE  /\ \A i \in 1..Len(D) : D[i] \in outside \/ (i = 1 /\ Len(C) = 1 /\ C[1].kind = "barrier")
                        /\ ~(Len(C) = 1 /\ C[1].kind = "header")
      BY <1>8, <1>10 DEF FlushPlace
    <2>1. \A i \in 1..Len(w.dirs) : w.dirs[i] \in outside
      BY <1>9 DEF FlushPlace
    <2>2. IF IsDir(v) THEN Len(C) = 1 /\ C[1].kind = "barrier" ELSE Len(C) = 3
      BY <1>4, OpFields DEF CollsFacts, C
    <2>3. CASE IsDir(v)
      <3>1. ASSUME NEW i \in 1..Len(D), i # 1 PROVE D[i] \in outside
        <4>1. i \in 2..Len(D) /\ i - 1 \in 1..Len(w.dirs)
          BY ONLY <1>5, <1>12, <2>3, <3>1
        <4> QED
          BY ONLY <1>5, <2>1, <2>3, <4>1
      <3> QED
        BY ONLY <2>2, <2>3, <3>1
    <2>4. CASE ~IsDir(v)
      BY ONLY <1>5, <2>1, <2>2, <2>4
    <2> QED
      BY <2>3, <2>4
  <1>14. SentPlace(u)'
    <2>1. /\ \A p : Entries(p)' = Entries(p)
          /\ \A p : HasCopy(p)' <=> HasCopy(p)
      BY <1>10, TreeStays DEF SameTree
    <2>2. /\ \A p \in w.sent : HasCopy(p) => p \in w.got \/ p \in skipped
          /\ \A d \in w.done : Entries(d) \subseteq w.sent \cup skipped
          /\ \A d \in (w.sent \cap util.dirs) \cup {Root} :
               d \in w.done \/ \E i \in 1..Len(w.dirs) : w.dirs[i] = d
      BY <1>2, <1>9 DEF SentPlace
    <2>3. ASSUME NEW p \in w.sent \cup {v}, HasCopy(p)
          PROVE  p \in G \/ p \in skipped' \/ (C # <<>> /\ C[1].kind = "ready" /\ C[1].value = p)
      <3>1. CASE p \in w.sent
        BY <1>10, <2>2, <2>3, <3>1 DEF G
      <3>2. CASE p = v /\ ~Decides(v)
        BY <2>3, <3>2 DEF G
      <3>3. CASE p = v /\ Decides(v)
        <4>1. C # <<>> /\ C[1].kind = "ready"
          BY <1>4, <3>3 DEF CollsFacts, C
        <4>2. 1 \in 1..Len(C)
          BY <1>7, <1>12, <4>1
        <4> QED
          BY <1>4, <3>3, <4>1, <4>2 DEF CollsFacts, C
      <3> QED
        BY <3>1, <3>2, <3>3
    <2>4. ASSUME NEW d \in ((w.sent \cup {v}) \cap util.dirs) \cup {Root}
          PROVE  d \in w.done \/ \E i \in 1..Len(D) : D[i] = d
      <3>1. CASE d = v /\ IsDir(v)
        <4>1. 1 \in 1..Len(D) /\ D[1] = d
          BY ONLY <1>5, <1>12, <3>1
        <4> QED
          BY <4>1
      <3>2. CASE d \in (w.sent \cap util.dirs) \cup {Root}
        <4>1. CASE d \in w.done
          BY <4>1
        <4>2. CASE \E i \in 1..Len(w.dirs) : w.dirs[i] = d
          <5>1. PICK i \in 1..Len(w.dirs) : w.dirs[i] = d
            BY <4>2
          <5>2. CASE IsDir(v)
            <6>1. i + 1 \in 1..Len(D) /\ D[i + 1] = d
              BY ONLY <1>5, <1>12, <5>1, <5>2
            <6> QED
              BY <6>1
          <5>3. CASE ~IsDir(v)
            BY ONLY <1>5, <5>1, <5>3
          <5> QED
            BY <5>2, <5>3
        <4> QED
          BY <2>2, <3>2, <4>1, <4>2
      <3> QED
        BY <3>1, <3>2 DEF IsDir
    <2>5. \A d \in w.done : Entries(d) \subseteq (w.sent \cup {v}) \cup skipped'
      BY <1>10, <2>2
    <2> QED
      BY ONLY <1>8, <1>10, <2>1, <2>3, <2>4, <2>5 DEF SentPlace
  <1>15. PlaceOk(u)'
    BY ONLY <1>2, <1>8, <1>9, <1>10, <1>11, <1>13, <1>14 DEF PlaceOk
  <1> QED
    BY <1>3, <1>8, <1>15 DEF C, D, G

\* What leaving a collective that brought v does to rank r.
Left(r, v) ==
    LET op == Head(ops[r])
        awaited == op.kind = "entry" /\ r # op.root
        gives_up == op.kind = "ready" /\ v = End
    IN  /\ util' = util /\ has' = has /\ outside' = outside /\ copied' = copied
        /\ ops' = [ops EXCEPT ![r] = IF awaited /\ v # End THEN EntryOps(r, v)
                                     ELSE IF gives_up THEN <<>> ELSE Tail(@)]
        /\ stack' = IF awaited /\ v = End THEN Returned(r) ELSE stack
        /\ skipped' = IF gives_up THEN skipped \cup {op.value} ELSE skipped

LEMMA LeftGrows ==
    ASSUME NEW r, NEW v, Left(r, v)
    PROVE  Grows
  BY DEF Left, Grows

\* The entries of xpn_flush.
LEMMA FlushShape ==
    ASSUME util \in Jobs, Walkable, NEW r, NEW p \in Things, p # Root, util.tool = "flush"
    PROVE  LET E == EntryOps(r, p)
           IN  /\ IsDir(p) => Len(E) = 3 /\ E[1].kind = "copy" /\ E[2].kind = "barrier" /\ E[3].kind = "list"
               /\ ~IsDir(p) => /\ Len(E) = 6 /\ E[1].kind = "creat" /\ E[2].kind = "ready" /\ E[3].kind = "barrier"
                               /\ E[4].kind = "open" /\ E[5].kind = "header" /\ E[6].kind = "copy" /\ E[5].value = p
  <1>1. Shape(r, p)
    BY EntryShape
  <1> QED
    BY <1>1, OpFields DEF Shape

LEMMA LeaveDeals ==
    ASSUME util \in Jobs, Walkable, WalkType, NEW r \in Ranks, NEW w \in Places, RankOk(r, w), PlaceOk(w),
           ops[r] # <<>>, Head(ops[r]).kind \in Collectives, w.todo # <<>>, NEW v, Left(r, v), NEW u \in Places,
           u.dirs = w.dirs, u.over = w.over, u.sent = w.sent,
           u.todo = (IF Head(w.todo).kind = "ready" /\ v = End THEN <<>> ELSE Tail(w.todo)),
           u.got = (IF Head(w.todo).kind = "ready" /\ v # End THEN w.got \cup {Head(w.todo).value} ELSE w.got)
    PROVE  RankOk(r, u)' /\ ops'[r] \in Seq(WalkOps) /\ stack' = stack
  <1> DEFINE op == Head(ops[r])
  <1>1. /\ Head(w.todo) = op /\ Spread(Tail(ops[r]), Tail(w.todo)) /\ Deals(r, w) /\ ~w.over
    BY HeadIsNextOp
  <1>2. PICK path \in Things, j \in Nat : DealsWith(r, w, path, j)
    BY <1>1 DEF Deals
  <1> DEFINE E == EntryOps(r, path)
  <1>3. AtEntry(r, path, j)
    BY <1>2, EntryKnown
  <1>4. /\ path # Root /\ EntryFacts(r, path) /\ stack[r] # <<>> /\ j + 1 \in 1..Len(E) /\ op = E[j + 1]
        /\ Tail(ops[r]) \in Seq(WalkOps) /\ Len(ops[r]) = Len(E) - j
    BY ONLY <1>3 DEF AtEntry
  <1>5. \A i \in 1..Len(ops[r]) : ops[r][i] = E[i + j] /\ i + j \in 1..Len(E)
    BY ONLY <1>3 DEF AtEntry
  <1>6. /\ op.kind \notin {"entry", "list", "copy", "spin"} /\ util.tool # "preload" /\ (util.tool = "flush" => j + 1 # 1)
        /\ op.kind = "ready" => Decides(path) /\ op.value = path
    <2>1. op.kind \in Collectives
      OBVIOUS
    <2>2. op.kind \notin {"list", "copy", "spin"}
      BY <2>1 DEF Collectives, Bcasts
    <2> QED
      BY ONLY <1>4, <2>1, <2>2 DEF EntryFacts
  <1>7. /\ Spread(ops[r], w.todo) /\ GotBy(r, w, path) /\ Lined(w.dirs, stack[r], IF IsDir(path) THEN 1 ELSE 0)
        /\ MadeBy(r, path, j) /\ Top(r).at = InLoopAt(r, Top(r).dir) /\ path \in Entries(Top(r).dir)
    BY <1>2, <1>6 DEF DealsWith
  <1> HIDE DEF op, E
  <1>8. Grows /\ util' = util /\ has' = has /\ outside' = outside /\ copied' = copied
    <2>1. Grows
      BY LeftGrows
    <2>2. util' = util /\ has' = has /\ outside' = outside /\ copied' = copied
      BY ONLY Left(r, v) DEF Left
    <2> QED
      BY <2>1, <2>2
  <1>9. stack' = stack /\ stack'[r] = stack[r] /\ Top(r)' = Top(r)
    BY <1>6 DEF Left, op, Top
  <1>10. ops'[r] = IF op.kind = "ready" /\ v = End THEN <<>> ELSE Tail(ops[r])
    BY <1>6 DEF Left, op, WalkType
  <1>11. \A i \in 1..Len(stack'[r]) : FrameOk(r, u, i)'
    <2>1. OnItsWay(r) = {}
      BY <1>6 DEF OnItsWay, op
    <2>2. Before(r, w) \subseteq Before(r, u)'
      BY ONLY <1>8, u.sent = w.sent DEF Before, Grows
    <2> QED
      BY <1>8, <1>9, <2>1, <2>2, SameFrames
  <1>12. LeftBehind(r)'
    BY <1>6, <1>8 DEF LeftBehind
  <1>13. Deciding(r) <=> \E i \in 1..Len(ops[r]) : E[i + j].kind = "ready"
    BY ONLY <1>5 DEF Deciding
  <1>14. CASE op.kind = "ready" /\ v = End
    <2>1. util.tool = "flush" /\ ~IsDir(path)
      BY <1>6, <1>14 DEF Decides
    <2>2. Deciding(r)
      <3>1. 1 \in 1..Len(ops[r]) /\ 1 + j = j + 1
        BY <1>4, RankTyped, TailOf
      <3> QED
        BY <1>4, <1>13, <1>14, <3>1
    <2>3. w.got = copied[r] /\ u.got = w.got /\ u.todo = <<>> /\ Lined(w.dirs, stack[r], 0)
      BY <1>1, <1>7, <1>14, <2>1, <2>2 DEF GotBy
    <2>4. Here(r, u, 0)'
      BY ONLY <1>8, <1>9, <2>3, u.dirs = w.dirs DEF Here, Lined
    <2>5. InLoop(r, u)'
      <3>1. Top(r)'.dir = Top(r).dir
        BY <1>9
      <3>2. ReadsDir(r, Top(r).dir)' <=> ReadsDir(r, Top(r).dir)
        BY <1>8, <3>1, TopDirKept
      <3>3. Top(r).at = "open" \/ (Top(r).at = "read" /\ ReadsDir(r, Top(r).dir))
        BY <1>7 DEF InLoopAt
      <3> QED
        BY ONLY <1>4, <1>9, <1>10, <1>14, <2>4, <3>2, <3>3 DEF InLoop
    <2>6. Phases(r, u)'
      BY ONLY <1>1, <2>5, u.over = w.over DEF Phases
    <2> QED
      BY ONLY <1>9, <1>10, <1>11, <1>12, <1>14, <2>6, EmptySeq DEF RankOk
  <1>15. CASE ~(op.kind = "ready" /\ v = End)
    <2>1. ops'[r] = Tail(ops[r]) /\ u.todo = Tail(w.todo)
      BY <1>1, <1>10, <1>15
    <2>2. (Copying(r)' <=> Copying(r)) /\ (Deciding(r)' => Deciding(r)) /\ (op.kind # "ready" => (Deciding(r)' <=> Deciding(r)))
      BY <1>6, <2>1, TailKinds DEF op
    <2>3. MadeBy(r, path, j + 1)'
      <3>1. HostOf(r)' = HostOf(r) /\ (Creates(r)' <=> Creates(r)) /\ MasterOf(path)' = MasterOf(path)
        BY <1>8, RolesStay DEF SameRoles
      <3>2. IsDir(path)' <=> IsDir(path)
        BY <1>8 DEF IsDir
      <3>3. util.tool = "flush" => j >= 1 /\ j + 1 >= 1
        BY <1>6
      <3> QED
        BY ONLY <1>7, <1>8, <2>2, <3>1, <3>2, <3>3 DEF MadeBy
    <2>4. GotBy(r, u, path)'
      <3>1. CASE op.kind # "ready"
        BY ONLY <1>1, <1>7, <1>8, <2>2, <3>1, u.got = (IF Head(w.todo).kind = "ready" /\ v # End THEN w.got \cup {Head(w.todo).value} ELSE w.got)
           DEF GotBy
      <3>2. CASE op.kind = "ready"
        <4>1. util.tool = "flush" /\ ~IsDir(path) /\ op.value = path
          BY <1>6, <3>2 DEF Decides
        <4>2. /\ Len(E) = 6 /\ E[1].kind = "creat" /\ E[2].kind = "ready" /\ E[3].kind = "barrier"
              /\ E[4].kind = "open" /\ E[5].kind = "header" /\ E[6].kind = "copy"
          BY <1>4, <4>1, FlushShape DEF E
        <4>3. j = 1 /\ Len(ops[r]) = 5
          <5>1. j + 1 \in 1..6
            BY <1>4, <4>2
          <5>2. j + 1 = 2
            BY <1>4, <3>2, <4>2, <5>1
          <5> QED
            BY <1>4, <4>2, <5>2
        <4>4. Deciding(r) /\ Copying(r)
          <5>1. 1 \in 1..Len(ops[r]) /\ 5 \in 1..Len(ops[r])
            BY <4>3
          <5>2. ops[r][1] = E[2] /\ ops[r][5] = E[6]
            BY <1>5, <4>3, <5>1
          <5> QED
            BY ONLY <4>2, <5>1, <5>2 DEF Deciding, Copying
        <4>5. ~Deciding(r)'
          <5>1. Len(ops'[r]) = 4 /\ \A i \in 1..Len(ops'[r]) : ops'[r][i] = ops[r][i + 1]
            BY <2>1, <4>3, RankTyped, TailOf
          <5>2. ASSUME NEW i \in 1..Len(ops'[r]) PROVE ops'[r][i].kind # "ready"
            <6>1. i \in 1..4 /\ i + 1 \in 1..Len(ops[r])
              BY <4>3, <5>1
            <6>2. ops'[r][i] = E[(i + 1) + 1]
              BY <1>5, <4>3, <5>1, <6>1
            <6> QED
              BY ONLY <4>2, <6>1, <6>2
          <5> QED
            BY ONLY <5>2 DEF Deciding
        <4>6. w.got = copied[r] /\ u.got = w.got \cup {path}
          BY <1>1, <1>7, <1>15, <3>2, <4>1, <4>4 DEF GotBy
        <4> QED
          BY ONLY <1>8, <2>2, <4>4, <4>5, <4>6 DEF GotBy
      <3> QED
        BY <3>1, <3>2
    <2>5. Deals(r, u)' \/ InLoop(r, u)'
      <3>1. Head(ops[r]).kind # "list"
        BY <1>6 DEF op
      <3>2. Spread(Tail(ops[r]), u.todo)
        BY ONLY <1>1, <2>1
      <3> QED
        BY <1>2, <1>8, <1>9, <2>1, <2>3, <2>4, <3>1, <3>2, OpDone
    <2>6. Phases(r, u)'
      BY ONLY <1>1, <2>5, u.over = w.over DEF Phases
    <2> QED
      BY ONLY <1>4, <1>9, <1>11, <1>12, <2>1, <2>6 DEF RankOk
  <1> QED
    BY <1>14, <1>15

LEMMA LeaveOut ==
    ASSUME util \in Jobs, Walkable, WalkType, NEW r \in Ranks, NEW w \in Places, RankOk(r, w), Out(r, w),
           ops[r] # <<>>, NEW v, Left(r, v), NEW u \in Places,
           u.over = TRUE, u.todo = <<>>, u.dirs = <<>>, u.got = w.got
    PROVE  RankOk(r, u)' /\ ops'[r] \in Seq(WalkOps) /\ stack' = stack
  <1>1. ops[r] = <<Barrier, Local("exit", Root)>> /\ stack[r] = <<>> /\ Here(r, w, 0)
    BY DEF Out
  <1>2. Head(ops[r]).kind = "barrier" /\ Tail(ops[r]) = <<Local("exit", Root)>>
    BY <1>1, OpFields
  <1>3. util' = util /\ copied' = copied /\ skipped' = skipped /\ stack' = stack
    BY <1>2 DEF Left
  <1>4. ops'[r] = <<Local("exit", Root)>>
    BY <1>2 DEF Left, WalkType
  <1>5. ops'[r] \in Seq(WalkOps)
    <2>1. Root \in Things
      BY TreeWalkAssumption DEF Things
    <2>2. Local("exit", Root) \in WalkOps
      BY <2>1, OpTypes
    <2> QED
      BY <1>4, <2>2, SingletonSeq
  <1>6. Len(stack'[r]) = 0
    BY <1>1, <1>3
  <1>7. Gone(r, u)'
    <2>1. util.tool # "preload" => Lined(u.dirs, stack'[r], 0)
      BY <1>6 DEF Lined
    <2>2. util.tool # "preload" => w.got = copied[r]
      BY <1>1 DEF Here
    <2>3. Here(r, u, 0)'
      BY ONLY <1>3, <2>1, <2>2, u.todo = <<>>, u.got = w.got DEF Here
    <2> QED
      BY ONLY <1>1, <1>3, <1>4, <2>3 DEF Gone, Ended, Local
  <1>8. LeftBehind(r)'
    <2>1. \A d : Entries(d)' = Entries(d)
      BY <1>3, TreeStays DEF SameTree
    <2>2. LeftBehind(r)
      BY DEF RankOk
    <2>3. \A d : ops[r] # <<Local("list", d)>>
      BY <1>1
    <2> QED
      BY ONLY <1>3, <2>1, <2>2, <2>3 DEF LeftBehind
  <1> QED
    BY <1>3, <1>5, <1>6, <1>7, <1>8 DEF RankOk, Phases

LEMMA LeaveEntry ==
    ASSUME util \in Jobs, Walkable, WalkType, NEW r \in Ranks, NEW w \in Places, RankOk(r, w), PlaceOk(w),
           ops[r] # <<>>, Head(ops[r]).kind = "entry", NEW v, v # End, v \in Entries(Top(r).dir),
           r = Head(ops[r]).root => v = Head(ops[r]).value, Left(r, v), NEW u \in Places,
           u.todo = Colls(v), u.dirs = (IF IsDir(v) THEN <<v>> \o w.dirs ELSE w.dirs), u.over = w.over,
           u.sent = w.sent \cup {v}, u.got = (IF HasCopy(v) /\ ~Decides(v) THEN w.got \cup {v} ELSE w.got)
    PROVE  RankOk(r, u)' /\ ops'[r] \in Seq(WalkOps) /\ stack' = stack
  <1> DEFINE E == EntryOps(r, v)
             op == Head(ops[r])
  <1>1. ~w.over /\ (SendsEntry(r, w) \/ Awaits(r, w) \/ SendsEnd(r, w))
    BY WhatNext, OpFields DEF RankOk
  <1>2. v \in Things /\ v # Root
    BY EntryInTree
  <1>3. EntryFacts(r, v) /\ E \in Seq(WalkOps) /\ Len(E) \in 1..6
    <2>1. EntryFacts(r, v)
      BY <1>2, EntryIs
    <2> QED
      BY ONLY <2>1 DEF EntryFacts
  <1>4. /\ util' = util /\ has' = has /\ outside' = outside /\ copied' = copied /\ skipped' = skipped /\ stack' = stack /\ Grows
    <2>1. Grows
      BY LeftGrows
    <2>2. util' = util /\ has' = has /\ outside' = outside /\ copied' = copied /\ skipped' = skipped /\ stack' = stack
      BY DEF Left
    <2> QED
      BY <2>1, <2>2
  <1>5. stack[r] # <<>> /\ Here(r, w, 0)
    BY <1>1 DEF SendsEntry, Awaits, SendsEnd
  <1>6. /\ ops'[r] = E /\ Top(r).at = InLoopAt(r, Top(r).dir) /\ util.tool # "preload"
        /\ OnItsWay(r) \subseteq {v}
    <2>1. CASE SendsEntry(r, w)
      <3>1. PICK p \in Entries(Top(r).dir) : ops[r] = <<Entry(Top(r).dir, p)>> \o EntryOps(r, p)
        BY <2>1 DEF SendsEntry
      <3>2. p \in Things /\ p # Root
        BY <3>1, EntryInTree
      <3>3. Entry(Top(r).dir, p) \in WalkOps /\ EntryOps(r, p) \in Seq(WalkOps)
        BY <1>5, <3>2, EntryIs, OpTypes, RankTyped DEF EntryFacts, Things
      <3>4. op = Entry(Top(r).dir, p) /\ Tail(ops[r]) = EntryOps(r, p)
        BY ONLY <3>1, <3>3, PushOn
      <3>5. util.tool # "preload" /\ Top(r).at = "read" /\ ReadsDir(r, Top(r).dir)
        BY <2>1 DEF SendsEntry
      <3>6. op.root = MasterOf(Top(r).dir) /\ op.value = p
        BY <3>4, OpFields
      <3>7. r = op.root
        BY <3>5, <3>6 DEF ReadsDir
      <3>8. p = v
        BY <3>6, <3>7
      <3>9. ops'[r] = Tail(ops[r])
        BY <3>7 DEF Left, WalkType
      <3> QED
        BY ONLY <3>4, <3>5, <3>6, <3>8, <3>9 DEF InLoopAt, OnItsWay
    <2>2. CASE Awaits(r, w)
      <3>1. ops[r] = <<Entry(Top(r).dir, Root)>> /\ ~ReadsDir(r, Top(r).dir) /\ Top(r).at = "open"
        BY <2>2 DEF Awaits
      <3>2. op = Entry(Top(r).dir, Root)
        BY <3>1
      <3>3. op.root = MasterOf(Top(r).dir) /\ op.value = Root
        BY <3>2, OpFields
      <3>4. r # op.root /\ util.tool # "preload"
        BY <3>1, <3>3 DEF ReadsDir
      <3>5. ops'[r] = E
        BY <3>4 DEF Left, WalkType
      <3> QED
        BY ONLY <3>1, <3>3, <3>4, <3>5 DEF InLoopAt, OnItsWay
    <2>3. ~SendsEnd(r, w)
      <3> SUFFICES ASSUME SendsEnd(r, w) PROVE FALSE
        OBVIOUS
      <3>1. ops[r] = <<Entry(Top(r).dir, End)>> /\ ReadsDir(r, Top(r).dir) /\ util.tool # "preload"
        BY DEF SendsEnd
      <3>2. op = Entry(Top(r).dir, End)
        BY <3>1
      <3>3. op.root = MasterOf(Top(r).dir) /\ op.value = End
        BY <3>2, OpFields
      <3> QED
        BY <3>1, <3>3 DEF ReadsDir
    <2> QED
      BY <1>1, <2>1, <2>2, <2>3
  <1>7. w.todo = <<>> /\ Lined(w.dirs, stack[r], 0) /\ w.got = copied[r]
    BY <1>5, <1>6 DEF Here
  <1>8. Top(r)' = Top(r)
    BY <1>4 DEF Top
  <1>9. /\ InLoopAt(r, Top(r).dir)' = InLoopAt(r, Top(r).dir) /\ Entries(Top(r).dir)' = Entries(Top(r).dir)
    BY <1>4, <1>8, TopDirKept
  <1>10. /\ EntryOps(r, v)' = E
         /\ IsDir(v)' <=> IsDir(v)
         /\ Things' = Things
    BY <1>4, TreeStays DEF SameTree
  <1> HIDE DEF E, op
  <1>11. /\ Copying(r)' <=> HasCopy(v)
         /\ Deciding(r)' <=> Decides(v)
    <2>1. HasCopy(v) <=> \E i \in 1..Len(E) : E[i].kind \in {"copy", "spin"}
      BY ONLY <1>3 DEF EntryFacts, E
    <2>2. Decides(v) <=> \E i \in 1..Len(E) : E[i].kind = "ready"
      BY ONLY <1>3 DEF EntryFacts, E
    <2> QED
      BY ONLY <1>6, <2>1, <2>2 DEF Copying, Deciding
  <1>12. GotBy(r, u, v)'
    BY ONLY <1>4, <1>7, <1>11, u.got = (IF HasCopy(v) /\ ~Decides(v) THEN w.got \cup {v} ELSE w.got) DEF GotBy
  <1>13. MadeBy(r, v, 0)'
    <2>1. Creates(r)' <=> Creates(r)
      BY <1>4, RolesStay DEF SameRoles
    <2>2. Creates(r) => util.tool # "shrink"
      BY DEF Creates, Rebuilds
    <2> QED
      BY ONLY <1>4, <1>10, <1>11, <2>1, <2>2 DEF MadeBy, HasCopy
  <1>14. Spread(ops[r], u.todo)'
    <2>1. Spread(E, u.todo)
      BY <1>2, <1>6, CollsAre DEF E
    <2>2. ASSUME NEW t, t = ops'[r], Spread(t, u.todo) PROVE Spread(ops[r], u.todo)'
      BY ONLY <2>2 DEF Spread
    <2> QED
      BY ONLY <1>6, <2>1, <2>2
  <1>15. /\ IsDir(v) => Lined(u.dirs, stack[r], 1) /\ u.dirs[1] = v
         /\ ~IsDir(v) => Lined(u.dirs, stack[r], 0)
    <2>1. CASE ~IsDir(v)
      BY <1>7, <2>1
    <2>2. CASE IsDir(v)
      <3>1. w.dirs \in Seq(util.dirs) /\ v \in util.dirs
        BY <2>2, PlaceTyped DEF IsDir
      <3>2. PICK t : t = w.dirs
        OBVIOUS
      <3>3. t \in Seq(util.dirs) /\ u.dirs = <<v>> \o t
        BY <2>2, <3>1, <3>2
      <3>4. Len(u.dirs) = Len(t) + 1
        BY ONLY <3>1, <3>3, PushOn
      <3>5. u.dirs[1] = v
        BY ONLY <3>1, <3>3, PushOn
      <3>6. \A i \in 1..Len(t) : u.dirs[i + 1] = t[i]
        BY ONLY <3>1, <3>3, PushOn
      <3>7. Len(t) \in Nat /\ Len(t) = Len(stack[r]) + 0
        BY <1>7, <3>2, <3>3 DEF Lined
      <3>8. Len(stack[r]) \in Nat
        BY RankTyped
      <3>9. \A k \in 1..Len(stack[r]) : t[k] = stack[r][k].dir
        <4>1. \A i \in 1..Len(t) : \A k \in 1..Len(stack[r]) : i = k + 0 => t[i] = stack[r][k].dir
          BY <1>7, <3>2 DEF Lined
        <4> QED
          BY ONLY <3>7, <3>8, <4>1
      <3>10. Lined(u.dirs, stack[r], 1)
        BY ONLY <3>4, <3>6, <3>7, <3>8, <3>9 DEF Lined
      <3> QED
        BY <2>2, <3>5, <3>10
    <2> QED
      BY <2>1, <2>2
  <1>16. DealsWith(r, u, v, 0)'
    <2>1. After(ops[r], EntryOps(r, v), 0)' /\ (0 < Len(EntryOps(r, v)))'
      BY ONLY <1>3, <1>6, <1>10 DEF After
    <2>2. (IsDir(v) => u.dirs[1] = v)'
      BY ONLY <1>10, <1>15
    <2>3. Lined(u.dirs, stack[r], IF IsDir(v) THEN 1 ELSE 0)'
      BY ONLY <1>4, <1>10, <1>15 DEF Lined
    <2>4. (stack[r] # <<>> /\ v \in Entries(Top(r).dir) /\ Top(r).at = InLoopAt(r, Top(r).dir))'
      BY ONLY <1>4, <1>5, <1>6, <1>8, <1>9, v \in Entries(Top(r).dir)
    <2> QED
      BY ONLY <1>4, <1>12, <1>13, <1>14, <2>1, <2>2, <2>3, <2>4 DEF DealsWith
  <1>17. Phases(r, u)'
    <2>1. Deals(r, u)'
      BY <1>2, <1>10, <1>16 DEF Deals
    <2> QED
      BY ONLY <1>1, <2>1, u.over = w.over DEF Phases
  <1>18. \A i \in 1..Len(stack'[r]) : FrameOk(r, u, i)'
    <2>1. Before(r, w) \cup OnItsWay(r) \subseteq Before(r, u)'
      BY ONLY <1>4, <1>6, u.sent = w.sent \cup {v} DEF Before
    <2>2. stack'[r] = stack[r]
      BY <1>4
    <2> QED
      BY <1>4, <2>1, <2>2, SameFrames
  <1>19. LeftBehind(r)'
    BY ONLY <1>4, <1>6 DEF LeftBehind
  <1> QED
    BY ONLY <1>3, <1>4, <1>6, <1>17, <1>18, <1>19 DEF RankOk

LEMMA TailsLined ==
    ASSUME NEW S, NEW ds \in Seq(S), ds # <<>>, NEW st, NEW n \in Int, Lined(ds, st, n), Len(st) \in Nat
    PROVE  Lined(Tail(ds), st, n - 1)
  <1>1. /\ Len(ds) \in Nat \ {0} /\ Len(Tail(ds)) = Len(ds) - 1
        /\ \A i \in 1..Len(Tail(ds)) : Tail(ds)[i] = ds[i + 1]
    BY TailOf
  <1>2. Len(ds) = Len(st) + n /\ \A i \in 1..Len(ds) : \A k \in 1..Len(st) : i = k + n => ds[i] = st[k].dir
    BY DEF Lined
  <1>3. Len(Tail(ds)) = Len(st) + (n - 1)
    BY <1>1, <1>2
  <1>4. ASSUME NEW i \in 1..Len(Tail(ds)), NEW k \in 1..Len(st), i = k + (n - 1)
        PROVE  Tail(ds)[i] = st[k].dir
    <2>1. i + 1 \in 1..Len(ds) /\ i + 1 = k + n
      BY <1>1, <1>4
    <2> QED
      BY <1>1, <1>2, <2>1
  <1> QED
    BY <1>3, <1>4 DEF Lined

LEMMA LeaveEnd ==
    ASSUME util \in Jobs, Walkable, WalkType, NEW r \in Ranks, NEW w \in Places, RankOk(r, w), PlaceOk(w),
           ops[r] # <<>>, Head(ops[r]).kind = "entry", r = Head(ops[r]).root => End = Head(ops[r]).value,
           w.dirs # <<>>, Left(r, End), NEW u \in Places,
           u.todo = <<>>, u.dirs = Tail(w.dirs), u.over = w.over, u.sent = w.sent, u.got = w.got
    PROVE  RankOk(r, u)' /\ ops'[r] \in Seq(WalkOps) /\ stack' \in [Ranks -> Seq(Frames)]
  <1> DEFINE op == Head(ops[r])
  <1>1. ~w.over /\ (SendsEntry(r, w) \/ Awaits(r, w) \/ SendsEnd(r, w))
    BY WhatNext, OpFields DEF RankOk
  <1>2. /\ util' = util /\ has' = has /\ outside' = outside /\ copied' = copied /\ skipped' = skipped /\ Grows
    <2>1. Grows
      BY LeftGrows
    <2>2. util' = util /\ has' = has /\ outside' = outside /\ copied' = copied /\ skipped' = skipped
      BY DEF Left
    <2> QED
      BY <2>1, <2>2
  <1>3. stack[r] # <<>> /\ Here(r, w, 0) /\ stack[r] \in Seq(Frames) /\ Len(stack[r]) \in Nat \ {0}
    BY <1>1, RankTyped DEF SendsEntry, Awaits, SendsEnd
  <1>4. w.dirs \in Seq(util.dirs)
    BY PlaceTyped
  <1>5. ~SendsEntry(r, w)
    <2> SUFFICES ASSUME SendsEntry(r, w) PROVE FALSE
      OBVIOUS
    <2>1. PICK p \in Entries(Top(r).dir) : ops[r] = <<Entry(Top(r).dir, p)>> \o EntryOps(r, p)
      BY DEF SendsEntry
    <2>2. p \in Things /\ p # Root /\ p # End
      BY <2>1, EntryInTree
    <2>3. Entry(Top(r).dir, p) \in WalkOps /\ EntryOps(r, p) \in Seq(WalkOps)
      BY <1>3, <2>2, EntryIs, OpTypes, RankTyped DEF EntryFacts, Things
    <2>4. op = Entry(Top(r).dir, p)
      BY ONLY <2>1, <2>3, PushOn
    <2>5. util.tool # "preload" /\ ReadsDir(r, Top(r).dir)
      BY DEF SendsEntry
    <2>6. op.root = MasterOf(Top(r).dir) /\ op.value = p
      BY <2>4, OpFields
    <2> QED
      BY <2>2, <2>5, <2>6 DEF ReadsDir
  <1>6. \E p : ops[r] = <<Entry(Top(r).dir, p)>> /\ (p = Root \/ p = End)
    BY <1>1, <1>5 DEF Awaits, SendsEnd
  <1>7. op.value \in {Root, End} /\ Tail(ops[r]) = <<>>
    <2>1. PICK p : ops[r] = <<Entry(Top(r).dir, p)>> /\ (p = Root \/ p = End)
      BY <1>6
    <2>2. op = Entry(Top(r).dir, p) /\ Tail(ops[r]) = <<>>
      BY <2>1
    <2> QED
      BY <2>1, <2>2, OpFields
  <1>8. ops'[r] = <<>> /\ ops'[r] \in Seq(WalkOps)
    <2>1. ops'[r] = Tail(ops[r])
      BY DEF Left, WalkType
    <2> QED
      BY ONLY <1>7, <2>1, EmptySeq
  <1>9. OnItsWay(r) = {} /\ OnItsWay(r)' = {} /\ Before(r, w) \subseteq Before(r, u)'
    BY ONLY <1>2, <1>7, <1>8, u.sent = w.sent DEF OnItsWay, Before
  <1>10. util.tool # "preload"
    BY <1>1, <1>5 DEF Awaits, SendsEnd, ReadsDir
  <1>11. Lined(u.dirs, stack[r], -1) /\ w.got = copied[r]
    <2>1. Lined(w.dirs, stack[r], 0) /\ w.got = copied[r]
      BY <1>3, <1>10 DEF Here
    <2>2. Lined(Tail(w.dirs), stack[r], 0 - 1)
      BY <1>3, <1>4, <2>1, TailsLined
    <2> QED
      BY <2>1, <2>2
  <1> HIDE DEF op
  <1>12. CASE Awaits(r, w)
    <2>1. stack' = Returned(r)
      <3>1. ops[r] = <<Entry(Top(r).dir, Root)>> /\ ~ReadsDir(r, Top(r).dir)
        BY <1>12 DEF Awaits
      <3>2. op = Entry(Top(r).dir, Root)
        BY <3>1 DEF op
      <3>3. op.root = MasterOf(Top(r).dir)
        BY <3>2, OpFields
      <3>4. r # op.root
        BY <3>1, <3>3 DEF ReadsDir
      <3> QED
        BY <3>4 DEF Left, op
    <2>2. Popped(r, u) /\ stack'[r] = Tail(stack[r])
      BY <1>2, <1>3, <1>9, <1>10, <2>1, ReturnKeeps DEF RankOk
    <2>3. Here(r, u, 0)'
      <3>1. Lined(u.dirs, Tail(stack[r]), (-1) + 1)
        BY <1>3, <1>11, LinedTail
      <3>2. Lined(u.dirs, stack'[r], 0)
        BY <2>2, <3>1
      <3> QED
        BY ONLY <1>2, <1>11, <3>2, u.todo = <<>>, u.got = w.got DEF Here
    <2>4. InLoop(r, u)' \/ Out(r, u)'
      <3>1. CASE stack'[r] = <<>>
        BY ONLY <1>8, <2>3, <3>1 DEF Out
      <3>2. CASE stack'[r] # <<>>
        BY ONLY <1>8, <2>2, <2>3, <3>2 DEF InLoop, Popped
      <3> QED
        BY <3>1, <3>2
    <2>5. RankOk(r, u)'
      BY ONLY <1>1, <2>2, <2>4, u.over = w.over DEF RankOk, Phases, Popped
    <2> QED
      BY <1>8, <2>2, <2>5 DEF Popped
  <1>13. CASE SendsEnd(r, w)
    <2>1. Top(r).at = "close" /\ ReadsDir(r, Top(r).dir) /\ ops[r] = <<Entry(Top(r).dir, End)>>
      BY <1>13 DEF SendsEnd
    <2>2. stack' = stack
      <3>1. op = Entry(Top(r).dir, End)
        BY <2>1 DEF op
      <3>2. op.root = MasterOf(Top(r).dir)
        BY <3>1, OpFields
      <3>3. r = op.root
        BY <1>10, <2>1, <3>2 DEF ReadsDir
      <3> QED
        BY <3>3 DEF Left, op
    <2>3. Top(r)' = Top(r) /\ stack'[r] = stack[r]
      BY <2>2 DEF Top
    <2>4. ReadsDir(r, Top(r).dir)' <=> ReadsDir(r, Top(r).dir)
      BY <1>2, <2>3, TopDirKept
    <2>5. Here(r, u, -1)'
      BY ONLY <1>2, <1>11, <2>3, u.todo = <<>>, u.got = w.got DEF Here, Lined
    <2>6. Closes(r, u)'
      BY ONLY <1>3, <1>8, <2>1, <2>3, <2>4, <2>5 DEF Closes
    <2>7. \A i \in 1..Len(stack'[r]) : FrameOk(r, u, i)'
      BY <1>2, <1>9, <2>3, SameFrames
    <2>8. LeftBehind(r)'
      BY ONLY <1>2, <1>10 DEF LeftBehind
    <2>9. RankOk(r, u)'
      BY ONLY <1>1, <2>6, <2>7, <2>8, u.over = w.over DEF RankOk, Phases
    <2> QED
      BY <1>8, <2>2, <2>9 DEF WalkType
  <1> QED
    BY <1>1, <1>5, <1>12, <1>13

LEMMA RootSendsEnd ==
    ASSUME util \in Jobs, Walkable, WalkType, NEW m \in Ranks, NEW w \in Places, RankOk(m, w),
           ops[m] # <<>>, Head(ops[m]).kind = "entry", m = Head(ops[m]).root, Head(ops[m]).value = End
    PROVE  Entries(Top(m).dir) \subseteq w.sent \cup skipped
  <1> DEFINE op == Head(ops[m])
  <1>1. SendsEntry(m, w) \/ Awaits(m, w) \/ SendsEnd(m, w)
    BY WhatNext, OpFields DEF RankOk
  <1>2. stack[m] # <<>>
    BY <1>1 DEF SendsEntry, Awaits, SendsEnd
  <1>3. ~SendsEntry(m, w)
    <2> SUFFICES ASSUME SendsEntry(m, w) PROVE FALSE
      OBVIOUS
    <2>1. PICK p \in Entries(Top(m).dir) : ops[m] = <<Entry(Top(m).dir, p)>> \o EntryOps(m, p)
      BY DEF SendsEntry
    <2>2. p \in Things /\ p # Root /\ p # End
      BY <2>1, EntryInTree
    <2>3. Entry(Top(m).dir, p) \in WalkOps /\ EntryOps(m, p) \in Seq(WalkOps)
      BY <1>2, <2>2, EntryIs, OpTypes, RankTyped DEF EntryFacts, Things
    <2>4. op = Entry(Top(m).dir, p)
      BY ONLY <2>1, <2>3, PushOn
    <2> QED
      BY <2>2, <2>4, OpFields
  <1>4. ~Awaits(m, w)
    <2> SUFFICES ASSUME Awaits(m, w) PROVE FALSE
      OBVIOUS
    <2>1. ops[m] = <<Entry(Top(m).dir, Root)>> /\ ~ReadsDir(m, Top(m).dir)
      BY DEF Awaits
    <2>2. op = Entry(Top(m).dir, Root)
      BY <2>1
    <2> QED
      BY <2>1, <2>2, OpFields DEF ReadsDir
  <1>5. Top(m).at = "close" /\ util.tool # "preload"
    BY <1>1, <1>3, <1>4 DEF SendsEnd
  <1>6. Top(m) = stack[m][1] /\ 1 \in 1..Len(stack[m])
    BY <1>2, RankTyped
  <1>7. FrameOk(m, w, 1)
    BY <1>6 DEF RankOk
  <1>8. OnItsWay(m) = {}
    BY DEF OnItsWay
  <1>9. Before(m, w) = w.sent \cup skipped
    BY <1>5 DEF Before
  <1> QED
    BY ONLY <1>5, <1>6, <1>7, <1>8, <1>9 DEF FrameOk

\* The ranks whose next collective but one is a header have the barrier before them.
LEMMA HeaderAhead ==
    ASSUME util \in Jobs, Walkable, WalkType, NEW s \in Ranks, NEW w \in Places, RankOk(s, w), PlaceOk(w), util.tool = "flush",
           ops[s] # <<>>, Head(ops[s]).kind \in Collectives, w.todo # <<>>, Tail(w.todo) # <<>>, Head(Tail(w.todo)).kind = "header"
    PROVE  /\ Head(ops[s]).kind = "barrier"
           /\ \E path \in Things, j \in Nat :
                DealsWith(s, w, path, j) /\ j >= 1 /\ ~IsDir(path) /\ path = Head(Tail(w.todo)).value
  <1> DEFINE t == Tail(w.todo)
             o == Tail(ops[s])
  <1>1. /\ Head(w.todo) = Head(ops[s]) /\ Spread(o, t) /\ Deals(s, w)
    BY HeadIsNextOp
  <1>2. PICK path \in Things, j \in Nat : DealsWith(s, w, path, j)
    BY <1>1 DEF Deals
  <1> DEFINE E == EntryOps(s, path)
  <1>3. AtEntry(s, path, j)
    BY <1>2, EntryKnown
  <1>4. /\ path # Root /\ EntryFacts(s, path) /\ j + 1 \in 1..Len(E) /\ Head(ops[s]) = E[j + 1]
        /\ Len(ops[s]) = Len(E) - j
    BY ONLY <1>3 DEF AtEntry
  <1>5. \A i \in 1..Len(ops[s]) : ops[s][i] = E[i + j] /\ i + j \in 1..Len(E)
    BY ONLY <1>3 DEF AtEntry
  <1>6. /\ ops[s] \in Seq(WalkOps) /\ o \in Seq(WalkOps) /\ Len(ops[s]) \in Nat \ {0} /\ Len(o) = Len(ops[s]) - 1
        /\ \A i \in 1..Len(o) : o[i] = ops[s][i + 1]
    BY RankTyped, TailOf
  <1>7. /\ t \in Seq(WalkOps) /\ Len(t) \in Nat \ {0} /\ Head(t) = t[1]
    <2>1. w.todo \in Seq(WalkOps)
      BY PlaceTyped
    <2>2. t \in Seq(WalkOps)
      BY <2>1, TailOf
    <2> QED
      BY <2>2, TailOf
  <1>8. /\ IsDir(path) => Len(E) = 3 /\ E[1].kind = "copy" /\ E[2].kind = "barrier" /\ E[3].kind = "list"
        /\ ~IsDir(path) => /\ Len(E) = 6 /\ E[1].kind = "creat" /\ E[2].kind = "ready" /\ E[3].kind = "barrier"
                           /\ E[4].kind = "open" /\ E[5].kind = "header" /\ E[6].kind = "copy" /\ E[5].value = path
    BY <1>4, FlushShape
  <1> HIDE DEF t, o, E
  <1>9. PICK i \in 1..Len(o) : o[i] = t[1]
    <2>1. 1 \in 1..Len(t)
      BY <1>7
    <2> QED
      BY ONLY <1>1, <2>1 DEF Spread
  <1>10. i + 1 \in 1..Len(ops[s]) /\ i \in Nat
    BY <1>6, <1>9
  <1>11. o[i] = E[(i + 1) + j] /\ (i + 1) + j \in 1..Len(E)
    BY ONLY <1>5, <1>6, <1>9, <1>10
  <1>12. E[(i + 1) + j].kind = "header"
    BY <1>7, <1>9, <1>11 DEF t
  <1>13. ~IsDir(path)
    <2> SUFFICES ASSUME IsDir(path) PROVE FALSE
      OBVIOUS
    <2>1. (i + 1) + j \in 1..3
      BY <1>8, <1>11
    <2> QED
      BY ONLY <1>8, <1>12, <2>1, IsDir(path)
  <1>14. (i + 1) + j = 5
    <2>1. (i + 1) + j \in 1..6
      BY <1>8, <1>11, <1>13
    <2> QED
      BY ONLY <1>8, <1>12, <1>13, <2>1
  <1>15. path = Head(t).value
    BY ONLY <1>7, <1>8, <1>9, <1>11, <1>13, <1>14
  <1>16. i \in Nat /\ i >= 1 /\ j <= 3
    BY <1>10, <1>14, <1>9
  <1>17. j = 1 \/ j = 2
    <2>1. E[j + 1].kind \in Collectives
      BY <1>4
    <2>2. j # 0 /\ j # 3
      BY <1>8, <1>13, <2>1 DEF Collectives, Bcasts
    <2> QED
      BY <1>16, <2>2
  <1>18. j # 1
    <2> SUFFICES ASSUME j = 1 PROVE FALSE
      OBVIOUS
    <2>1. Len(o) = 4 /\ o # <<>> /\ Head(o) = o[1] /\ 1 \in 1..Len(o) /\ 2 \in 1..Len(ops[s])
      <3>1. Len(E) = 6
        BY ONLY <1>8, <1>13
      <3>2. ASSUME NEW n, NEW m, n = 6 - 1, m = n - 1 PROVE n = 5 /\ m = 4
        BY ONLY <3>2
      <3>3. Len(ops[s]) = 5 /\ Len(o) = 4
        BY ONLY <1>4, <1>6, <3>1, <3>2, j = 1
      <3>4. o # <<>>
        <4>1. ASSUME NEW x, x = <<>> PROVE Len(x) = 0
          BY ONLY <4>1
        <4>2. Len(o) \in Nat /\ Len(o) > 0
          BY ONLY <3>3
        <4>3. ASSUME NEW n \in Nat, n > 0 PROVE n # 0
          BY ONLY <4>3
        <4> QED
          BY ONLY <4>1, <4>2, <4>3
      <3>5. Head(o) = o[1]
        BY ONLY <1>6, <3>4, TailOf
      <3> QED
        BY ONLY <3>3, <3>4, <3>5
    <2>2. o[1] = E[3]
      BY ONLY <1>5, <1>6, <2>1, j = 1
    <2>3. Head(o).kind = "barrier"
      BY ONLY <1>8, <1>13, <2>1, <2>2
    <2>4. Head(o).kind \in Collectives
      BY ONLY <2>3 DEF Collectives, Bcasts
    <2>5. Head(t) = Head(o)
      BY ONLY <1>1, <1>6, <1>7, <2>1, <2>4, SpreadTail
    <2> QED
      BY <2>3, <2>5 DEF t
  <1>19. Head(ops[s]).kind = "barrier"
    BY ONLY <1>4, <1>8, <1>13, <1>17, <1>18
  <1> QED
    BY <1>2, <1>13, <1>15, <1>17, <1>19 DEF t

\* Rank 0 makes the directory before the barrier that all wait for.
LEMMA DirAhead ==
    ASSUME util \in Jobs, Walkable, WalkType, NEW s \in Ranks, s = 0, NEW w \in Places, RankOk(s, w), PlaceOk(w), util.tool = "flush",
           ops[s] # <<>>, Head(ops[s]).kind \in Collectives, Len(w.todo) = 1, w.todo[1].kind = "barrier"
    PROVE  w.dirs[1] \in outside
  <1> DEFINE t == Tail(w.todo)
             o == Tail(ops[s])
  <1>0. w.todo \in Seq(WalkOps) /\ w.todo # <<>> /\ Head(w.todo) = w.todo[1] /\ Len(t) = 0
    BY PlaceTyped
  <1>1. /\ Head(w.todo) = Head(ops[s]) /\ Spread(o, t) /\ Deals(s, w)
    BY <1>0, HeadIsNextOp
  <1>2. PICK path \in Things, j \in Nat : DealsWith(s, w, path, j)
    BY <1>1 DEF Deals
  <1> DEFINE E == EntryOps(s, path)
  <1>3. AtEntry(s, path, j)
    BY <1>2, EntryKnown
  <1>4. /\ path # Root /\ EntryFacts(s, path) /\ j + 1 \in 1..Len(E) /\ Head(ops[s]) = E[j + 1]
        /\ Len(ops[s]) = Len(E) - j
    BY ONLY <1>3 DEF AtEntry
  <1>5. \A i \in 1..Len(ops[s]) : ops[s][i] = E[i + j] /\ i + j \in 1..Len(E)
    BY ONLY <1>3 DEF AtEntry
  <1>6. /\ ops[s] \in Seq(WalkOps) /\ o \in Seq(WalkOps) /\ Len(ops[s]) \in Nat \ {0} /\ Len(o) = Len(ops[s]) - 1
        /\ \A i \in 1..Len(o) : o[i] = ops[s][i + 1]
    BY RankTyped, TailOf
  <1>8. /\ IsDir(path) => Len(E) = 3 /\ E[1].kind = "copy" /\ E[2].kind = "barrier" /\ E[3].kind = "list"
        /\ ~IsDir(path) => /\ Len(E) = 6 /\ E[1].kind = "creat" /\ E[2].kind = "ready" /\ E[3].kind = "barrier"
                           /\ E[4].kind = "open" /\ E[5].kind = "header" /\ E[6].kind = "copy" /\ E[5].value = path
    BY <1>4, FlushShape
  <1> HIDE DEF t, o, E
  <1>9. E[j + 1].kind = "barrier"
    BY <1>0, <1>1, <1>4
  <1>10. IsDir(path)
    <2> SUFFICES ASSUME ~IsDir(path) PROVE FALSE
      OBVIOUS
    <2>1. j + 1 \in 1..6
      BY <1>4, <1>8
    <2>2. j = 2
      BY ONLY <1>8, <1>9, <2>1, ~IsDir(path), j \in Nat
    <2>3. Len(ops[s]) = 4 /\ 3 \in 1..Len(ops[s]) /\ Len(o) = 3 /\ 2 \in 1..Len(o)
      <3>1. Len(E) = 6
        BY ONLY <1>8, ~IsDir(path)
      <3>2. ASSUME NEW n, NEW m, n = 6 - 2, m = n - 1 PROVE n = 4 /\ m = 3
        BY ONLY <3>2
      <3>3. Len(ops[s]) = 4 /\ Len(o) = 3
        BY ONLY <1>4, <1>6, <2>2, <3>1, <3>2
      <3> QED
        BY ONLY <3>3
    <2>4. o[2] = E[5]
      BY ONLY <1>5, <1>6, <2>2, <2>3
    <2>5. o[2].kind \in Collectives
      BY ONLY <1>8, <2>4, ~IsDir(path) DEF Collectives, Bcasts
    <2>6. \E k \in 1..Len(t) : TRUE
      BY ONLY <1>1, <2>3, <2>5 DEF Spread
    <2> QED
      BY ONLY <1>0, <2>6
  <1>11. j >= 1
    <2>1. j # 0
      BY ONLY <1>8, <1>9, <1>10
    <2> QED
      BY <2>1
  <1>12. w.dirs[1] = path /\ MadeBy(s, path, j)
    BY <1>2, <1>10 DEF DealsWith
  <1> QED
    BY <1>10, <1>11, <1>12 DEF MadeBy

\* The ranks in a collective that nobody has left are at the same place.
LEMMA InsideNow ==
    ASSUME util \in Jobs, Walkable, WalkType, NEW T, Track(T), NEW k \in 1..Len(net), ~Came(k), NEW m \in net[k].in
    PROVE  /\ m \in Ranks /\ passed[m] = k - 1 /\ inside[m] /\ ops[m] # <<>> /\ Head(ops[m]).kind \in Collectives
           /\ T[k - 1] \in Places /\ RankOk(m, T[k - 1]) /\ PlaceOk(T[k - 1])
           /\ Agree(Head(ops[m]), net[k])
           /\ Head(ops[m]).kind = "entry" /\ m = Head(ops[m]).root => net[k].value = Head(ops[m]).value
  <1>1. NetOk(T, k)
    BY DEF Track
  <1>2. m \in Ranks /\ (passed[m] >= k \/ (passed[m] = k - 1 /\ inside[m]))
    BY <1>1 DEF NetOk
  <1>3. passed[m] = k - 1 /\ inside[m]
    BY <1>2 DEF Came
  <1>4. /\ passed[m] \in 0..Len(net) /\ T[passed[m]] \in Places /\ RankNet(m)
        /\ RankOk(m, T[passed[m]]) /\ PlaceOk(T[passed[m]]) /\ Len(net) \in Nat
    BY <1>2, TrackAt
  <1>5. passed[m] + 1 = k /\ passed[m] < Len(net)
    BY <1>3, <1>4
  <1>6. /\ ops[m] # <<>> /\ Head(ops[m]).kind \in Collectives
        /\ Head(ops[m]).kind = "entry" /\ m = Head(ops[m]).root => net[k].value = Head(ops[m]).value
    BY ONLY <1>3, <1>4, <1>5 DEF RankNet
  <1>7. Agree(Head(ops[m]), net[k])
    BY <1>2, <1>5, <1>6, MeetAt
  <1> QED
    BY ONLY <1>2, <1>3, <1>4, <1>6, <1>7

\* The first rank that leaves a collective brings what the walk goes on from.
LEMMA BringsOn ==
    ASSUME util \in Jobs, Walkable, WalkType, NEW T, Track(T), NEW k \in 1..Len(net), ~Came(k), NEW r \in net[k].in,
           Over(r, net[k]), NEW v, v = net[k].value, NEW w, w = T[k - 1], Left(r, v)
    PROVE  Brings(w, v)
  <1> DEFINE c == net[k]
             op == Head(ops[r])
  <1>1. /\ r \in Ranks /\ ops[r] # <<>> /\ op.kind \in Collectives
        /\ w \in Places /\ RankOk(r, w) /\ PlaceOk(w) /\ Agree(op, c)
    BY InsideNow
  <1>2. NetOk(T, k)
    BY DEF Track
  <1>3. Agree(NextOp(w), c)
    BY <1>2 DEF NetOk
  <1>4. skipped \subseteq skipped'
    BY LeftGrows DEF Grows
  <1>5. ASSUME w.todo = <<>>, w.dirs # <<>>
        PROVE  /\ v \in Entries(Head(w.dirs)) \cup {End} /\ util.tool # "preload"
               /\ v = End => Entries(Head(w.dirs)) \subseteq w.sent \cup skipped'
    <2>1. NextOp(w) = Entry(Head(w.dirs), Root)
      BY <1>5 DEF NextOp
    <2>2. c.kind = "entry"
      BY <1>3, <2>1, OpFields DEF Agree
    <2>3. c.root \in c.in
      BY <2>2 DEF Over, Bcasts
    <2>4. v \in Entries(Head(w.dirs)) \cup {End}
      BY <1>2, <2>2, <2>3 DEF NetOk
    <2>5. util.tool # "preload"
      BY <1>1, <1>5 DEF PlaceOk
    <2>6. ASSUME v = End PROVE Entries(Head(w.dirs)) \subseteq w.sent \cup skipped'
      <3>1. PICK m \in c.in : m = c.root
        BY <2>3
      <3>2. /\ m \in Ranks /\ ops[m] # <<>> /\ Head(ops[m]).kind \in Collectives /\ RankOk(m, w)
            /\ Agree(Head(ops[m]), c)
            /\ Head(ops[m]).kind = "entry" /\ m = Head(ops[m]).root => c.value = Head(ops[m]).value
        BY InsideNow
      <3>3. Head(ops[m]).kind = "entry" /\ m = Head(ops[m]).root
        BY ONLY <2>2, <3>1, <3>2 DEF Agree
      <3>4. Head(ops[m]).value = End
        BY <2>6, <3>2, <3>3
      <3>5. Entries(Top(m).dir) \subseteq w.sent \cup skipped
        BY <1>1, <3>2, <3>3, <3>4, RootSendsEnd
      <3>6. Head(w.dirs) = Top(m).dir
        BY <1>1, <3>2, <3>3, HeadIsNextOp
      <3> QED
        BY ONLY <1>4, <3>5, <3>6
    <2> QED
      BY <2>4, <2>5, <2>6
  <1>6. w.todo # <<>> => Head(w.todo) = op /\ Deals(r, w)
    BY <1>1, HeadIsNextOp
  <1>7. ASSUME w.todo # <<>>, Head(w.todo).kind = "ready"
        PROVE  Head(w.todo).value \in Things /\ (v = End => Head(w.todo).value \in skipped')
    <2>1. PICK path \in Things, j \in Nat : DealsWith(r, w, path, j)
      BY <1>6, <1>7 DEF Deals
    <2>2. AtEntry(r, path, j)
      BY <1>1, <2>1, EntryKnown
    <2>3. EntryFacts(r, path) /\ j + 1 \in 1..Len(EntryOps(r, path)) /\ op = EntryOps(r, path)[j + 1]
      BY ONLY <2>2 DEF AtEntry
    <2>4. op.value = path
      BY ONLY <1>6, <1>7, <2>3 DEF EntryFacts
    <2>5. v = End => op.value \in skipped'
      BY <1>6, <1>7 DEF Left
    <2> QED
      BY <1>6, <1>7, <2>1, <2>4, <2>5
  <1>8. ASSUME util.tool = "flush", Len(w.todo) = 1, w.todo[1].kind = "barrier" PROVE w.dirs[1] \in outside
    <2>1. w.todo \in Seq(WalkOps) /\ w.todo # <<>> /\ Head(w.todo) = w.todo[1]
      BY <1>1, <1>8, PlaceTyped
    <2>2. c.kind = "barrier"
      BY <1>3, <1>8, <2>1 DEF NextOp, Agree
    <2>3. c.in = Ranks
      BY <2>2 DEF Over, Bcasts
    <2>4. 0 \in Ranks
      BY TreeWalkAssumption DEF Ranks
    <2>5. PICK m \in c.in : m = 0
      BY <2>3, <2>4
    <2>6. m \in Ranks /\ ops[m] # <<>> /\ Head(ops[m]).kind \in Collectives /\ RankOk(m, w)
      BY InsideNow
    <2> QED
      BY <1>1, <1>8, <2>5, <2>6, DirAhead
  <1>9. ASSUME util.tool = "flush", w.todo # <<>>, Tail(w.todo) # <<>>, Head(Tail(w.todo)).kind = "header"
        PROVE  Head(Tail(w.todo)).value \in outside
    <2> DEFINE h == Head(Tail(w.todo)).value
    <2>1. /\ op.kind = "barrier"
          /\ \E path \in Things, j \in Nat :
               DealsWith(r, w, path, j) /\ j >= 1 /\ ~IsDir(path) /\ path = h
      BY <1>1, <1>9, HeaderAhead
    <2>2. c.in = Ranks
      BY <1>1, <2>1 DEF Over, Bcasts, Agree
    <2>3. h \in Things /\ ~IsDir(h)
      BY <2>1
    <2> HIDE DEF h
    <2>4. MasterOf(h) \in Ranks
      <3>1. HashOf(h) \in Nat /\ Len(util.hosts) \in Nat \ {0}
        BY <2>3, TreeWalkAssumption DEF Things
      <3>2. MasterOf(h) = HashOf(h) % Len(util.hosts)
        BY <1>9 DEF MasterOf, Rebuilds, Size
      <3> QED
        BY ONLY <3>1, <3>2 DEF Ranks
    <2>5. PICK m \in c.in : m = MasterOf(h)
      BY <2>2, <2>4
    <2>6. m \in Ranks /\ ops[m] # <<>> /\ Head(ops[m]).kind \in Collectives /\ RankOk(m, w)
      BY InsideNow
    <2>7. PICK path \in Things, j \in Nat : DealsWith(m, w, path, j) /\ j >= 1 /\ ~IsDir(path) /\ path = h
      BY <1>1, <1>9, <2>6, HeaderAhead DEF h
    <2>8. MadeBy(m, path, j)
      BY <2>7 DEF DealsWith
    <2> QED
      BY <1>9, <2>5, <2>7, <2>8 DEF MadeBy, h
  <1> QED
    BY <1>5, <1>7, <1>8, <1>9 DEF Brings

LEMMA OnwardOk ==
    ASSUME util \in Jobs, Walkable, NEW w \in Places, PlaceOk(w), NEW v, Brings(w, v), Grows, NEW u, u = Onward(w, v)
    PROVE  u \in Places /\ PlaceOk(u)'
  <1>1. CASE w.todo # <<>>
    BY <1>1, OnwardInTodo
  <1>2. CASE w.todo = <<>> /\ w.dirs = <<>>
    BY <1>2, OnwardOver
  <1>3. CASE w.todo = <<>> /\ w.dirs # <<>> /\ v = End
    BY <1>3, OnwardEnd
  <1>4. CASE w.todo = <<>> /\ w.dirs # <<>> /\ v # End
    BY <1>4, OnwardEntry
  <1> QED
    BY <1>1, <1>2, <1>3, <1>4

\* What becomes of a place when the collective brings v.
WentOn(w, v, u) ==
    /\ w.todo # <<>> =>
         /\ u.dirs = w.dirs /\ u.over = w.over /\ u.sent = w.sent
         /\ u.todo = (IF Head(w.todo).kind = "ready" /\ v = End THEN <<>> ELSE Tail(w.todo))
         /\ u.got = (IF Head(w.todo).kind = "ready" /\ v # End THEN w.got \cup {Head(w.todo).value} ELSE w.got)
    /\ w.todo = <<>> /\ w.dirs # <<>> /\ v = End =>
         u.todo = <<>> /\ u.dirs = Tail(w.dirs) /\ u.over = w.over /\ u.sent = w.sent /\ u.got = w.got
    /\ w.todo = <<>> /\ w.dirs # <<>> /\ v # End =>
         /\ u.todo = Colls(v) /\ u.dirs = (IF IsDir(v) THEN <<v>> \o w.dirs ELSE w.dirs) /\ u.over = w.over
         /\ u.sent = w.sent \cup {v} /\ u.got = (IF HasCopy(v) /\ ~Decides(v) THEN w.got \cup {v} ELSE w.got)
    /\ w.todo = <<>> /\ w.dirs = <<>> =>
         u.over = TRUE /\ u.todo = <<>> /\ u.dirs = <<>> /\ u.sent = w.sent /\ u.got = w.got

LEMMA OnwardFields ==
    ASSUME NEW w \in Places, NEW v, NEW u, u = Onward(w, v)
    PROVE  WentOn(w, v, u)
  <1>1. ASSUME w.todo # <<>>
        PROVE  /\ u.dirs = w.dirs /\ u.over = w.over /\ u.sent = w.sent
               /\ u.todo = (IF Head(w.todo).kind = "ready" /\ v = End THEN <<>> ELSE Tail(w.todo))
               /\ u.got = (IF Head(w.todo).kind = "ready" /\ v # End THEN w.got \cup {Head(w.todo).value} ELSE w.got)
    <2>1. CASE Head(w.todo).kind = "ready" /\ v = End
      <3>1. u = [w EXCEPT !.todo = <<>>]
        BY <1>1, <2>1 DEF Onward, InTodo
      <3> QED
        BY ONLY <2>1, <3>1, w \in Places DEF Places
    <2>2. CASE Head(w.todo).kind = "ready" /\ v # End
      <3>1. u = [w EXCEPT !.todo = Tail(w.todo), !.got = w.got \cup {Head(w.todo).value}]
        BY <1>1, <2>2 DEF Onward, InTodo
      <3> QED
        BY ONLY <2>2, <3>1, w \in Places DEF Places
    <2>3. CASE Head(w.todo).kind # "ready"
      <3>1. u = [w EXCEPT !.todo = Tail(w.todo)]
        BY <1>1, <2>3 DEF Onward, InTodo
      <3> QED
        BY ONLY <2>3, <3>1, w \in Places DEF Places
    <2> QED
      BY <2>1, <2>2, <2>3
  <1>2. ASSUME w.todo = <<>>, w.dirs # <<>>, v = End
        PROVE  u.todo = <<>> /\ u.dirs = Tail(w.dirs) /\ u.over = w.over /\ u.sent = w.sent /\ u.got = w.got
    <2>1. u = [w EXCEPT !.dirs = Tail(w.dirs), !.done = w.done \cup {Head(w.dirs)}]
      BY <1>2 DEF Onward, InDir
    <2> QED
      BY ONLY <1>2, <2>1, w \in Places DEF Places
  <1>3. ASSUME w.todo = <<>>, w.dirs # <<>>, v # End
        PROVE  /\ u.todo = Colls(v) /\ u.dirs = (IF IsDir(v) THEN <<v>> \o w.dirs ELSE w.dirs) /\ u.over = w.over
               /\ u.sent = w.sent \cup {v} /\ u.got = (IF HasCopy(v) /\ ~Decides(v) THEN w.got \cup {v} ELSE w.got)
    <2> DEFINE D == IF IsDir(v) THEN <<v>> \o w.dirs ELSE w.dirs
               G == IF HasCopy(v) /\ ~Decides(v) THEN w.got \cup {v} ELSE w.got
    <2>1. u = [w EXCEPT !.todo = Colls(v), !.dirs = D, !.sent = w.sent \cup {v}, !.got = G]
      BY <1>3 DEF Onward, InDir
    <2> HIDE DEF D, G
    <2>2. u.todo = Colls(v) /\ u.dirs = D /\ u.over = w.over /\ u.sent = w.sent \cup {v} /\ u.got = G
      BY ONLY <2>1, w \in Places DEF Places
    <2> QED
      BY ONLY <2>2 DEF D, G
  <1>4. ASSUME w.todo = <<>>, w.dirs = <<>>
        PROVE  u.over = TRUE /\ u.todo = <<>> /\ u.dirs = <<>> /\ u.sent = w.sent /\ u.got = w.got
    <2>1. u = [w EXCEPT !.over = TRUE]
      BY <1>4 DEF Onward
    <2> QED
      BY ONLY <1>4, <2>1, w \in Places DEF Places
  <1> QED
    BY ONLY <1>1, <1>2, <1>3, <1>4 DEF WentOn

\* A rank that leaves a collective is where the walk goes on.
LEMMA LeaveRank ==
    ASSUME util \in Jobs, Walkable, WalkType, NEW r \in Ranks, NEW w \in Places, RankOk(r, w), PlaceOk(w),
           ops[r] # <<>>, Head(ops[r]).kind \in Collectives, NEW v, Left(r, v), NEW u \in Places, u = Onward(w, v),
           Head(ops[r]).kind = "entry" =>
             v \in Entries(Head(w.dirs)) \cup {End} /\ (r = Head(ops[r]).root => v = Head(ops[r]).value)
    PROVE  RankOk(r, u)' /\ ops'[r] \in Seq(WalkOps) /\ stack' \in [Ranks -> Seq(Frames)]
  <1>1. /\ ~w.over
        /\ Head(ops[r]).kind = "entry" =>
             /\ w.todo = <<>> /\ w.dirs # <<>> /\ Head(w.dirs) = Top(r).dir /\ stack[r] # <<>>
        /\ Head(ops[r]).kind # "entry" /\ w.todo = <<>> => Out(r, w)
        /\ Agree(NextOp(w), Head(ops[r]))
    BY HeadIsNextOp
  <1>2. stack \in [Ranks -> Seq(Frames)] /\ WentOn(w, v, u)
    BY OnwardFields DEF WalkType
  <1>3. CASE w.todo # <<>>
    <2>0. /\ u.dirs = w.dirs /\ u.over = w.over /\ u.sent = w.sent
          /\ u.todo = (IF Head(w.todo).kind = "ready" /\ v = End THEN <<>> ELSE Tail(w.todo))
          /\ u.got = (IF Head(w.todo).kind = "ready" /\ v # End THEN w.got \cup {Head(w.todo).value} ELSE w.got)
      BY ONLY <1>2, <1>3 DEF WentOn
    <2>1. RankOk(r, u)' /\ ops'[r] \in Seq(WalkOps) /\ stack' = stack
      BY <1>3, <2>0, LeaveDeals
    <2> QED
      BY <1>2, <2>1
  <1>4. CASE w.todo = <<>> /\ Head(ops[r]).kind # "entry"
    <2>1. Out(r, w) /\ w.dirs = <<>>
      <3>1. Out(r, w)
        BY <1>1, <1>4
      <3>2. w.dirs # <<>> => NextOp(w).kind = "entry"
        BY <1>4, OpFields DEF NextOp
      <3> QED
        BY <1>1, <1>4, <3>1, <3>2 DEF Agree
    <2>3. u.over = TRUE /\ u.todo = <<>> /\ u.dirs = <<>> /\ u.got = w.got
      BY ONLY <1>2, <1>4, <2>1 DEF WentOn
    <2>2. RankOk(r, u)' /\ ops'[r] \in Seq(WalkOps) /\ stack' = stack
      BY <1>4, <2>1, <2>3, LeaveOut
    <2> QED
      BY <1>2, <2>2
  <1>5. CASE Head(ops[r]).kind = "entry" /\ v = End
    <2>1. Left(r, End) /\ (r = Head(ops[r]).root => End = Head(ops[r]).value) /\ w.dirs # <<>>
      BY <1>1, <1>5
    <2>2. u.todo = <<>> /\ u.dirs = Tail(w.dirs) /\ u.over = w.over /\ u.sent = w.sent /\ u.got = w.got
      BY ONLY <1>1, <1>2, <1>5 DEF WentOn
    <2> QED
      BY <1>5, <2>1, <2>2, LeaveEnd
  <1>6. CASE Head(ops[r]).kind = "entry" /\ v # End
    <2>1. v \in Entries(Top(r).dir) /\ (r = Head(ops[r]).root => v = Head(ops[r]).value)
      BY <1>1, <1>6
    <2>2. /\ u.todo = Colls(v) /\ u.dirs = (IF IsDir(v) THEN <<v>> \o w.dirs ELSE w.dirs) /\ u.over = w.over
          /\ u.sent = w.sent \cup {v} /\ u.got = (IF HasCopy(v) /\ ~Decides(v) THEN w.got \cup {v} ELSE w.got)
      BY ONLY <1>1, <1>2, <1>6 DEF WentOn
    <2>3. RankOk(r, u)' /\ ops'[r] \in Seq(WalkOps) /\ stack' = stack
      BY <1>6, <2>1, <2>2, LeaveEntry
    <2> QED
      BY <1>2, <2>3
  <1> QED
    BY <1>3, <1>4, <1>5, <1>6

LEMMA LeaveTracks ==
    ASSUME util \in Jobs, Walkable, WalkType, NEW T, Track(T), NEW r \in Ranks, NEW k, k = passed[r] + 1, inside[r],
           Over(r, net[k]), NEW v, v = net[k].value, Left(r, v),
           inside' = [inside EXCEPT ![r] = FALSE], passed' = [passed EXCEPT ![r] = k], net' = net,
           NEW L, L = Len(net), NEW w, w = T[k - 1], NEW u, u = Onward(w, v), NEW U, U = [T EXCEPT ![k] = u]
    PROVE  Track(U)' /\ ops'[r] \in Seq(WalkOps) /\ stack' \in [Ranks -> Seq(Frames)] /\ Head(ops[r]) \in WalkOps
  <1>1. /\ L \in Nat /\ passed[r] \in 0..L /\ w \in Places /\ RankNet(r) /\ RankOk(r, w) /\ PlaceOk(w) /\ k - 1 = passed[r]
    <2>1. /\ L \in Nat /\ passed[r] \in 0..L /\ T[passed[r]] \in Places /\ RankNet(r)
          /\ RankOk(r, T[passed[r]]) /\ PlaceOk(T[passed[r]])
      BY TrackAt
    <2>2. k - 1 = passed[r]
      BY <2>1
    <2> QED
      BY ONLY <2>1, <2>2, w = T[k - 1]
  <1>2. /\ k \in 1..L /\ ops[r] # <<>> /\ Head(ops[r]).kind \in Collectives
        /\ Head(ops[r]).kind = "entry" /\ r = Head(ops[r]).root => v = Head(ops[r]).value
    <2>1. /\ passed[r] < L /\ ops[r] # <<>> /\ Head(ops[r]).kind \in Collectives
          /\ Head(ops[r]).kind = "entry" /\ r = Head(ops[r]).root => v = Head(ops[r]).value
      BY <1>1 DEF RankNet
    <2> QED
      BY <1>1, <2>1
  <1>3. /\ T \in [0..L -> Places] /\ T[0] = WalkStart /\ \A n \in 1..L : NetOk(T, n)
        /\ \A n \in 0..L : n = 0 \/ Came(n) => PlaceOk(T[n])
    BY DEF Track
  <1>4. /\ Agree(NextOp(w), net[k]) /\ r \in net[k].in /\ (Came(k) => T[k] = u)
        /\ net[k].kind = "entry" /\ net[k].root \in net[k].in => v \in Entries(Head(w.dirs)) \cup {End}
    <2>1. NetOk(T, k)
      BY <1>2, <1>3
    <2>2. r \in net[k].in
      BY <1>1, <2>1 DEF NetOk
    <2> QED
      BY ONLY <2>1, <2>2, w = T[k - 1], u = Onward(w, v), v = net[k].value DEF NetOk
  <1>5. Grows /\ util' = util
    BY LeftGrows DEF Left
  <1>6. u \in Places /\ PlaceOk(u)'
    <2>1. CASE Came(k)
      <3>1. k \in 0..L
        BY <1>1, <1>2
      <3>2. u \in Places /\ PlaceOk(u)
        BY <1>3, <1>4, <2>1, <3>1
      <3> QED
        BY <1>5, <3>2, PlaceStays
    <2>2. CASE ~Came(k)
      <3>1. Brings(w, v)
        BY <1>2, <1>4, <2>2, BringsOn
      <3> QED
        BY <1>1, <1>5, <3>1, OnwardOk
    <2> QED
      BY <2>1, <2>2
  <1>7. net[k].kind \in Bcasts => net[k].root \in net[k].in
    BY DEF Over
  <1>8. Agree(Head(ops[r]), net[k])
    BY <1>1, <1>2, MeetAt
  <1>9. RankOk(r, u)' /\ ops'[r] \in Seq(WalkOps) /\ stack' \in [Ranks -> Seq(Frames)]
    <2>1. Head(ops[r]).kind = "entry" =>
            v \in Entries(Head(w.dirs)) \cup {End} /\ (r = Head(ops[r]).root => v = Head(ops[r]).value)
      BY <1>2, <1>4, <1>7, <1>8 DEF Agree, Bcasts
    <2> QED
      BY <1>1, <1>2, <1>6, <2>1, LeaveRank
  <1>10. ~Came(k) => k = L
    <2> SUFFICES ASSUME ~Came(k), k # L PROVE FALSE
      OBVIOUS
    <2>1. k + 1 \in 1..L /\ (k + 1) - 1 = k
      BY <1>1, <1>2
    <2>2. NetOk(T, k + 1)
      BY <1>3, <2>1
    <2>3. PICK s \in Ranks : passed[s] >= k + 1 \/ passed[s] = k
      BY ONLY <2>1, <2>2 DEF NetOk
    <2>4. passed[s] >= k
      <3>1. passed[s] \in Nat
        BY <2>3, RankTyped
      <3> QED
        BY ONLY <1>1, <1>2, <2>3, <3>1
    <2> QED
      BY <2>3, <2>4 DEF Came
  <1>11. /\ U \in [0..L -> Places] /\ U[k] = u /\ \A n \in 0..L : n # k => U[n] = T[n]
    BY <1>1, <1>2, <1>3, <1>6
  <1>12. \A n \in 0..L : n # L \/ Came(n) => U[n] = T[n]
    BY ONLY <1>4, <1>10, <1>11
  <1>13. /\ Ranks' = Ranks /\ Places' = Places /\ WalkStart' = WalkStart
         /\ \A d : Entries(d)' = Entries(d)
         /\ \A p : NextOp(p)' = NextOp(p)
         /\ \A p, x : Onward(p, x)' = Onward(p, x)
    BY <1>5, RolesStay, TreeStays, SetsStay DEF SameRoles, SameTree, SameSets
  <1>14. /\ passed'[r] = k /\ inside'[r] = FALSE
         /\ \A s \in Ranks \ {r} : passed'[s] = passed[s] /\ inside'[s] = inside[s]
    BY DEF WalkType
  <1>15. \A s \in Ranks : passed[s] \in Nat /\ passed'[s] \in Nat
    BY <1>1, <1>2, <1>14, RankTyped
  <1>16. \A n \in 0..L : Came(n)' <=> Came(n) \/ n = k
    <2> SUFFICES ASSUME NEW n \in 0..L PROVE (\E s \in Ranks : passed'[s] >= n) <=> (\E s \in Ranks : passed[s] >= n) \/ n = k
      BY <1>13 DEF Came
    <2>1. ASSUME NEW s \in Ranks, passed'[s] >= n PROVE (\E x \in Ranks : passed[x] >= n) \/ n = k
      <3>1. CASE s # r
        BY <1>14, <2>1, <3>1
      <3>2. CASE s = r
        <4>1. k >= n
          BY <1>14, <2>1, <3>2
        <4>2. n = k \/ passed[r] >= n
          BY ONLY <1>1, <1>2, <4>1, n \in 0..L
        <4> QED
          BY <4>2
      <3> QED
        BY <3>1, <3>2
    <2>2. ASSUME NEW s \in Ranks, passed[s] >= n PROVE \E x \in Ranks : passed'[x] >= n
      <3>1. CASE s # r
        BY <1>14, <2>2, <3>1
      <3>2. CASE s = r
        <4>1. k >= n
          BY ONLY <1>1, <1>2, <2>2, <3>2, n \in 0..L
        <4> QED
          BY <1>14, <4>1
      <3> QED
        BY <3>1, <3>2
    <2>3. n = k => \E x \in Ranks : passed'[x] >= n
      <3>1. k >= k
        BY <1>2
      <3> QED
        BY <1>14, <3>1
    <2> QED
      BY <2>1, <2>2, <2>3
  <1>17. ASSUME NEW n \in 1..L PROVE NetOk(U, n)'
    <2>1. NetOk(T, n)
      BY <1>3
    <2>2. n \in 0..L /\ n - 1 \in 0..L /\ n - 1 # L
      BY <1>1
    <2>3. U[n - 1] = T[n - 1]
      BY ONLY <1>12, <2>2
    <2>4. {s \in Ranks : passed[s] >= n \/ (passed[s] = n - 1 /\ inside[s])}'
          = {s \in Ranks : passed[s] >= n \/ (passed[s] = n - 1 /\ inside[s])}
      <3>1. ASSUME NEW s \in Ranks
            PROVE (passed'[s] >= n \/ (passed'[s] = n - 1 /\ inside'[s])) <=> (passed[s] >= n \/ (passed[s] = n - 1 /\ inside[s]))
        <4>1. CASE s # r
          BY <1>14, <4>1
        <4>2. CASE s = r
          <5>1. ASSUME NEW p \in Nat, p = k - 1, k \in 1..L, L \in Nat
                PROVE (k >= n \/ (k = n - 1 /\ FALSE)) <=> (p >= n \/ p = n - 1)
            BY ONLY <5>1, n \in 1..L
          <5> QED
            BY <1>1, <1>2, <1>14, <1>15, <4>2, <5>1
        <4> QED
          BY <4>1, <4>2
      <3> QED
        BY ONLY <1>13, <3>1
    <2>5. CASE n = k
      <3>1. U[n] = Onward(U[n - 1], v)
        BY <1>11, <2>3, <2>5
      <3>2. net[n].kind \in Bcasts => net[n].root \in net[n].in
        BY <1>7, <2>5
      <3> QED
        BY ONLY <1>13, <2>1, <2>3, <2>4, <2>5, <3>1, <3>2, net' = net, v = net[k].value DEF NetOk, Agree
    <2>6. CASE n # k
      <3>1. U[n] = T[n]
        BY <1>11, <2>2, <2>6
      <3>2. Came(n)' <=> Came(n)
        BY <1>16, <2>2, <2>6
      <3> QED
        BY ONLY <1>13, <2>1, <2>3, <2>4, <3>1, <3>2, net' = net DEF NetOk, Agree
    <2> QED
      BY <2>5, <2>6
  <1>18. ASSUME NEW n \in 0..L, n = 0 \/ Came(n)' PROVE PlaceOk(U[n])'
    <2>1. CASE n = k
      BY <1>6, <1>11, <2>1
    <2>2. CASE n # k
      <3>1. U[n] = T[n] /\ PlaceOk(T[n])
        BY <1>3, <1>11, <1>16, <1>18, <2>2
      <3>2. ASSUME NEW x, PlaceOk(x) PROVE PlaceOk(x)'
        BY <1>5, <3>2, PlaceStays
      <3> QED
        BY ONLY <3>1, <3>2
    <2> QED
      BY <2>1, <2>2
  <1>19. ASSUME NEW s \in Ranks
         PROVE  RankNet(s)' /\ \A n \in 0..L : n = passed'[s] => RankOk(s, U[n])'
    <2>1. CASE s = r
      <3>1. RankNet(s)'
        <4>1. k <= L
          BY <1>1, <1>2
        <4> QED
          BY ONLY <1>14, <2>1, <4>1, net' = net, L = Len(net) DEF RankNet
      <3> QED
        BY <1>9, <1>11, <1>14, <2>1, <3>1
    <2>2. CASE s # r
      <3>1. SameRank(s)
        <4>1. ops'[s] = ops[s] /\ copied' = copied /\ (stack' = stack \/ stack' = Returned(r))
          BY <2>2 DEF Left, WalkType
        <4>2. stack'[s] = stack[s]
          BY <2>2, <4>1 DEF Returned, WalkType
        <4> QED
          BY <4>1, <4>2 DEF SameRank
      <3>2. passed[s] \in 0..L /\ RankNet(s) /\ RankOk(s, T[passed[s]]) /\ passed'[s] = passed[s] /\ inside'[s] = inside[s]
        BY <1>14, <2>2, TrackAt
      <3>3. RankNet(s)'
        BY ONLY <3>1, <3>2, net' = net DEF RankNet, SameRank
      <3>4. Came(passed[s])
        BY <3>2 DEF Came
      <3>5. U[passed[s]] = T[passed[s]]
        BY ONLY <1>12, <3>2, <3>4
      <3>6. ASSUME NEW n, n = passed[s], RankOk(s, T[n]) PROVE RankOk(s, T[n])'
        BY <1>5, <3>1, <3>6, RankStays
      <3> QED
        BY ONLY <3>2, <3>3, <3>5, <3>6
    <2> QED
      BY <2>1, <2>2
  <1>20. Track(U)'
    <2>1. U[0] = WalkStart
      BY <1>1, <1>2, <1>3, <1>11
    <2> QED
      BY ONLY <1>11, <1>13, <1>17, <1>18, <1>19, <2>1, net' = net, L = Len(net) DEF Track
  <1>21. Head(ops[r]) \in WalkOps
    BY <1>2, RankTyped, TailOf
  <1> QED
    BY <1>9, <1>20, <1>21

LEMMA LeaveKeeps ==
    ASSUME util \in Jobs, Walkable, WalkType, NEW T, Track(T), NEW r \in Ranks, Leave(r)
    PROVE  WalkType' /\ \E U : Track(U)'
  <1> DEFINE op == Head(ops[r])
  <1>1. PICK k : k = passed[r] + 1
    OBVIOUS
  <1>2. PICK v : v = net[k].value
    OBVIOUS
  <1>3. PICK w : w = T[k - 1]
    OBVIOUS
  <1>4. PICK u : u = Onward(w, v)
    OBVIOUS
  <1>5. PICK L : L = Len(net)
    OBVIOUS
  <1>6. PICK U : U = [T EXCEPT ![k] = u]
    OBVIOUS
  <1>7. /\ ops[r] # <<>> /\ inside[r] /\ Over(r, net[k]) /\ util' = util /\ net' = net /\ UNCHANGED disks
        /\ inside' = [inside EXCEPT ![r] = FALSE] /\ passed' = [passed EXCEPT ![r] = @ + 1]
    BY <1>1 DEF Leave, Doing
  <1>8. passed' = [passed EXCEPT ![r] = k] /\ passed[r] \in Nat
    BY <1>1, <1>7, RankTyped DEF WalkType
  <1>9. Left(r, v)
    BY <1>1, <1>2 DEF Leave, Left, disks
  <1>10. Track(U)' /\ ops'[r] \in Seq(WalkOps) /\ stack' \in [Ranks -> Seq(Frames)] /\ Head(ops[r]) \in WalkOps
    BY <1>1, <1>2, <1>3, <1>4, <1>5, <1>6, <1>7, <1>8, <1>9, LeaveTracks
  <1>11. skipped' \subseteq Things
    <2>2. op.kind = "ready" => op.value \in Things
      <3> SUFFICES ASSUME op.kind = "ready" PROVE op.value \in Things
        OBVIOUS
      <3>1. RankOk(r, T[passed[r]]) /\ PlaceOk(T[passed[r]]) /\ T[passed[r]] \in Places
        BY TrackAt
      <3>2. PICK x : x = T[passed[r]]
        OBVIOUS
      <3>3. Deals(r, x)
        BY <1>7, <3>1, <3>2, WhatNext, OpFields DEF RankOk, Deals
      <3>4. PICK path \in Things, j \in Nat : DealsWith(r, x, path, j)
        BY <3>3 DEF Deals
      <3>5. AtEntry(r, path, j)
        BY <1>7, <3>1, <3>2, <3>4, EntryKnown
      <3>6. EntryFacts(r, path) /\ j + 1 \in 1..Len(EntryOps(r, path)) /\ op = EntryOps(r, path)[j + 1]
        BY ONLY <3>5 DEF AtEntry
      <3>7. op.value = path
        BY ONLY <3>6, op.kind = "ready" DEF EntryFacts
      <3> QED
        BY <3>4, <3>7
    <2> QED
      BY <1>9, <2>2 DEF Left, WalkType
  <1>12. ops' \in [Ranks -> Seq(WalkOps)]
    <2>1. PICK o : ops' = [ops EXCEPT ![r] = o]
      BY <1>9 DEF Left
    <2> QED
      BY <1>10, <2>1 DEF WalkType
  <1>13. WalkType'
    <2>1. Ranks' = Ranks /\ Frames' = Frames /\ WalkOps' = WalkOps /\ Meetings' = Meetings /\ Things' = Things
      BY <1>7, RolesStay, TreeStays, SetsStay DEF SameRoles, SameTree, SameSets
    <2>2. passed' \in [Ranks -> Nat] /\ inside' \in [Ranks -> BOOLEAN]
      BY <1>1, <1>7, <1>8 DEF WalkType
    <2> QED
      BY <1>7, <1>10, <1>11, <1>12, <2>1, <2>2 DEF WalkType, disks
  <1> QED
    BY <1>10, <1>13

-----------------------------------------------------------------------------
(* The invariant.                                                            *)

LEMMA TrackMeets ==
    ASSUME util \in Jobs, Walkable, WalkType, NEW T, Track(T)
    PROVE  WalksMeet
  <1> SUFFICES ASSUME NEW r \in Ranks, inside[r] PROVE Agree(Head(ops[r]), net[passed[r] + 1])
    BY DEF WalksMeet
  <1>1. RankNet(r)
    BY TrackAt
  <1>2. passed[r] < Len(net) /\ ops[r] # <<>> /\ Head(ops[r]).kind \in Collectives
    BY <1>1 DEF RankNet
  <1> QED
    BY <1>2, MeetAt

\* The steps that rank r makes of its own, apart from the failure of opendir.
OwnStep(r) ==
    \/ Opendir(r) \/ EndOfDir(r) \/ Closedir(r) \/ AwaitEntry(r) \/ LastBarrier(r)
    \/ (\E path \in util.files \cup util.dirs : ReadEntry(r, path) \/ StatFails(r, path))
    \/ Descend(r) \/ FlushCreat(r) \/ FlushOpen(r)

LEMMA OwnStepKeeps ==
    ASSUME util \in Jobs, Walkable, WalkType, NEW r \in Ranks, NEW w \in Places, RankOk(r, w), PlaceOk(w), OwnStep(r)
    PROVE  Goes(r, w) /\ missed' = missed
  <1>1. CASE Opendir(r)
    BY <1>1, OpendirKeeps DEF Opendir, disks
  <1>2. CASE EndOfDir(r)
    BY <1>2, EndOfDirKeeps DEF EndOfDir, disks
  <1>3. CASE Closedir(r)
    BY <1>3, ClosedirKeeps DEF Closedir, disks
  <1>4. CASE AwaitEntry(r)
    BY <1>4, AwaitEntryKeeps DEF AwaitEntry, disks
  <1>5. CASE LastBarrier(r)
    BY <1>5, LastBarrierKeeps DEF LastBarrier, disks
  <1>6. ASSUME NEW path, ReadEntry(r, path) PROVE Goes(r, w) /\ missed' = missed
    BY <1>6, ReadEntryKeeps DEF ReadEntry, disks
  <1>7. ASSUME NEW path, StatFails(r, path) PROVE Goes(r, w) /\ missed' = missed
    BY <1>7, StatFailsKeeps DEF StatFails, disks
  <1>8. CASE Descend(r)
    BY <1>8, DescendKeeps DEF Descend, disks
  <1>9. CASE FlushCreat(r)
    BY <1>9, FlushCreatKeeps
  <1>10. CASE FlushOpen(r)
    BY <1>10, FlushOpenKeeps DEF FlushOpen, disks
  <1> QED
    BY <1>1, <1>2, <1>3, <1>4, <1>5, <1>6, <1>7, <1>8, <1>9, <1>10 DEF OwnStep

LEMMA OwnStepIs ==
    ASSUME NEW r, OwnStep(r) \/ OpendirFails(r) \/ Copy(r)
    PROVE  /\ ~aborted /\ r \in Ranks /\ util' = util /\ UNCHANGED comm
           /\ ops[r] = <<>> \/ Head(ops[r]).kind \notin Collectives
  <1>1. Listing(r) => ~aborted /\ r \in Ranks /\ ops[r] = <<>>
    BY DEF Listing
  <1>2. \A kinds : Doing(r, kinds) => ~aborted /\ r \in Ranks /\ ops[r] # <<>> /\ Head(ops[r]).kind \in kinds
    BY DEF Doing
  <1>3. "list" \notin Collectives /\ "creat" \notin Collectives /\ "open" \notin Collectives /\ "copy" \notin Collectives
    BY DEF Collectives, Bcasts
  <1>4. ASSUME Opendir(r) \/ EndOfDir(r) \/ Closedir(r) \/ AwaitEntry(r) \/ LastBarrier(r) \/ OpendirFails(r)
        PROVE  Listing(r) /\ util' = util /\ UNCHANGED comm
    BY <1>4 DEF Opendir, EndOfDir, Closedir, AwaitEntry, LastBarrier, OpendirFails, At
  <1>5. ASSUME \E path \in util.files \cup util.dirs : ReadEntry(r, path) \/ StatFails(r, path)
        PROVE  Listing(r) /\ util' = util /\ UNCHANGED comm
    BY <1>5 DEF ReadEntry, StatFails, At
  <1>6. Descend(r) => Doing(r, {"list"}) /\ util' = util /\ UNCHANGED comm
    BY DEF Descend
  <1>7. FlushCreat(r) => Doing(r, {"creat"}) /\ util' = util /\ UNCHANGED comm
    BY DEF FlushCreat
  <1>8. FlushOpen(r) => Doing(r, {"open"}) /\ util' = util /\ UNCHANGED comm
    BY DEF FlushOpen
  <1>9. Copy(r) => Doing(r, {"copy"}) /\ util' = util /\ UNCHANGED comm
    BY DEF Copy
  <1> QED
    BY <1>1, <1>2, <1>3, <1>4, <1>5, <1>6, <1>7, <1>8, <1>9 DEF OwnStep

LEMMA OwnStepTracks ==
    ASSUME util \in Jobs, Walkable, WalkType, NEW T, Track(T), NEW r \in Ranks,
           OwnStep(r) \/ OpendirFails(r) \/ Copy(r),
           \A w \in Places : RankOk(r, w) /\ PlaceOk(w) => Goes(r, w)
    PROVE  WalkType' /\ Track(T)'
  <1>1. /\ passed[r] \in 0..Len(net) /\ T[passed[r]] \in Places /\ RankNet(r)
        /\ RankOk(r, T[passed[r]]) /\ PlaceOk(T[passed[r]])
    BY TrackAt
  <1>2. PICK k \in 0..Len(net) : k = passed[r]
    BY <1>1
  <1>3. PICK w : w = T[k]
    OBVIOUS
  <1>4. Goes(r, w)
    BY <1>1, <1>2, <1>3
  <1>5. UNCHANGED comm /\ (ops[r] = <<>> \/ Head(ops[r]).kind \notin Collectives)
    BY OwnStepIs
  <1>6. ~inside[r]
    BY <1>1, <1>5 DEF RankNet
  <1>7. WalkType' /\ Grows /\ (\A s \in Ranks \ {r} : SameRank(s)) /\ RankOk(r, w)'
    BY ONLY <1>4 DEF Goes
  <1>8. RankOk(r, T[k])'
    BY ONLY <1>3, <1>7
  <1> QED
    BY <1>2, <1>5, <1>6, <1>7, <1>8, AloneKeeps

\* A rank that aborts leaves the others where they are.
LEMMA AbortMeets ==
    ASSUME util \in Jobs, Walkable, WalkType, NEW T, Track(T), NEW r \in Ranks, ~torn,
           OpendirFails(r) \/ Copy(r)
    PROVE  WalksMeet'
  <1>1. util' = util /\ UNCHANGED comm /\ (ops[r] = <<>> \/ Head(ops[r]).kind \notin Collectives)
    BY OwnStepIs
  <1>2. RankNet(r)
    BY TrackAt
  <1>3. ~inside[r]
    BY <1>1, <1>2 DEF RankNet
  <1>4. WalksMeet
    BY TrackMeets
  <1>5. \A s \in Ranks \ {r} : ops'[s] = ops[s]
    BY DEF OpendirFails, Copy, Done, WalkType
  <1>6. passed' = passed /\ inside' = inside /\ net' = net
    BY <1>1 DEF comm
  <1>7. Ranks' = Ranks
    BY <1>1, RolesStay DEF SameRoles
  <1> QED
    BY ONLY <1>3, <1>4, <1>5, <1>6, <1>7, Walkable, ~torn DEF WalksMeet, Agree

LEMMA NothingKeeps ==
    ASSUME Grows, UNCHANGED comm, NEW T, Track(T), \A s \in Ranks : SameRank(s)
    PROVE  Track(T)'
  <1>0. SameRoles /\ SameTree /\ SameSets
    BY RolesStay, TreeStays, SetsStay DEF Grows
  <1>1. /\ Ranks' = Ranks /\ Places' = Places /\ WalkStart' = WalkStart /\ \A p : Entries(p)' = Entries(p)
        /\ \A w : NextOp(w)' = NextOp(w)
        /\ \A w, v : Onward(w, v)' = Onward(w, v)
    BY <1>0 DEF SameRoles, SameTree, SameSets
  <1>2. passed' = passed /\ inside' = inside /\ net' = net
    BY DEF comm
  <1>3. T \in [0..Len(net) -> Places] /\ T[0] = WalkStart
    BY DEF Track
  <1>4. \A n : Came(n)' <=> Came(n)
    BY ONLY <1>1, <1>2 DEF Came
  <1>5. \A n \in 1..Len(net) : NetOk(T, n)'
    <2> SUFFICES ASSUME NEW n \in 1..Len(net) PROVE NetOk(T, n)'
      OBVIOUS
    <2>1. NetOk(T, n)
      BY DEF Track
    <2>2. {s \in Ranks : passed[s] >= n \/ (passed[s] = n - 1 /\ inside[s])}'
          = {s \in Ranks : passed[s] >= n \/ (passed[s] = n - 1 /\ inside[s])}
      BY ONLY <1>1, <1>2
    <2> QED
      BY ONLY <1>1, <1>2, <1>4, <2>1, <2>2 DEF NetOk, Agree
  <1>6. \A n \in 0..Len(net) : n = 0 \/ Came(n)' => PlaceOk(T[n])'
    <2>1. \A n \in 0..Len(net) : n = 0 \/ Came(n) => PlaceOk(T[n])
      BY DEF Track
    <2> QED
      BY <1>4, <2>1, PlaceStays
  <1>7. ASSUME NEW s \in Ranks
        PROVE  RankNet(s)' /\ \A n \in 0..Len(net) : n = passed[s] => RankOk(s, T[n])'
    <2>1. RankNet(s) /\ \A n \in 0..Len(net) : n = passed[s] => RankOk(s, T[n])
      BY DEF Track
    <2>2. SameRank(s)
      OBVIOUS
    <2>3. RankNet(s)'
      BY ONLY <1>2, <2>1, <2>2 DEF RankNet, SameRank
    <2> QED
      BY <2>1, <2>2, <2>3, RankStays
  <1> QED
    BY <1>1, <1>2, <1>3, <1>5, <1>6, <1>7 DEF Track

LEMMA WalkStutters ==
    ASSUME WalkInv, UNCHANGED walkVars
    PROVE  WalkInv'
  <1>1. /\ util' = util /\ stack' = stack /\ ops' = ops /\ UNCHANGED comm /\ UNCHANGED disks /\ skipped' = skipped
        /\ UNCHANGED faults
    BY DEF walkVars
  <1>2. /\ passed' = passed /\ inside' = inside /\ net' = net /\ has' = has /\ outside' = outside /\ copied' = copied
        /\ missed' = missed /\ torn' = torn /\ aborted' = aborted
    BY <1>1 DEF comm, disks, faults
  <1>3. Walkable' <=> Walkable
    BY <1>1 DEF Walkable
  <1>4. (DirMadeFirst' <=> DirMadeFirst) /\ (WalksMeet' <=> WalksMeet)
    <2>1. Ranks' = Ranks
      BY <1>1 DEF Ranks
    <2> QED
      BY ONLY <1>1, <1>2, <1>3, <2>1 DEF DirMadeFirst, WalksMeet, Agree
  <1>5. ASSUME WalkType, NEW T, Track(T) PROVE WalkType' /\ Track(T)'
    <2>1. Grows /\ \A s \in Ranks : SameRank(s)
      BY <1>1, <1>2 DEF Grows, SameRank
    <2>2. WalkType'
      <3>1. skipped \subseteq skipped' /\ skipped' \subseteq Things /\ stack' \in [Ranks -> Seq(Frames)] /\ ops' \in [Ranks -> Seq(WalkOps)]
        BY <1>1, <1>5 DEF WalkType
      <3> QED
        BY <1>1, <1>5, <3>1, TypeStays
    <2> QED
      BY <1>1, <1>5, <2>1, <2>2, NothingKeeps
  <1>6. util' \in Jobs /\ torn' \in BOOLEAN /\ aborted' \in BOOLEAN /\ (torn' => util'.tool \notin Rebuilds \cup {"preload"})
    BY <1>1, <1>2 DEF WalkInv
  <1> QED
    BY <1>1, <1>2, <1>3, <1>4, <1>5, <1>6 DEF WalkInv, Rebuilds

\* A step of rank r when the walk is in order.
LEMMA WalkStep ==
    ASSUME util \in Jobs, Walkable, WalkType, NEW T, Track(T), NEW r \in Ranks, torn = FALSE, aborted = FALSE, DirMadeFirst,
           Step(r) \/ OpendirFails(r) \/ \E path \in util.files \cup util.dirs : StatFails(r, path)
    PROVE  /\ util' = util /\ torn' \in BOOLEAN /\ aborted' \in BOOLEAN
           /\ (torn' = TRUE) => util.tool \notin Rebuilds \cup {"preload"}
           /\ torn' = FALSE => /\ DirMadeFirst'
                               /\ aborted' = TRUE => WalksMeet'
                               /\ aborted' = FALSE => WalkType' /\ \E U : Track(U)'
  <1>1. CASE Enter(r)
    <2>1. util' = util /\ torn' = torn /\ aborted' = aborted /\ missed' = missed
      BY <1>1 DEF Enter, faults, disks
    <2>2. WalkType' /\ \E U : Track(U)'
      BY <1>1, EnterKeeps
    <2> QED
      BY <2>1, <2>2, DirMadeFirst, torn = FALSE, aborted = FALSE DEF DirMadeFirst
  <1>2. CASE Leave(r)
    <2>1. util' = util /\ torn' = torn /\ aborted' = aborted /\ missed' = missed
      BY <1>2 DEF Leave, faults, disks
    <2>2. WalkType' /\ \E U : Track(U)'
      BY <1>2, LeaveKeeps
    <2> QED
      BY <2>1, <2>2 DEF DirMadeFirst
  <1>3. CASE OwnStep(r)
    <2>1. util' = util
      BY <1>3, OwnStepIs
    <2>2. torn' = torn /\ aborted' = aborted
      BY <1>3 DEF OwnStep, Opendir, EndOfDir, Closedir, AwaitEntry, LastBarrier, ReadEntry, StatFails, Descend,
                  FlushCreat, FlushOpen, faults
    <2>3. \A w \in Places : RankOk(r, w) /\ PlaceOk(w) => Goes(r, w) /\ missed' = missed
      BY <1>3, OwnStepKeeps
    <2>4. missed' = missed
      BY <2>3, TrackAt
    <2>5. WalkType' /\ Track(T)'
      BY <1>3, <2>3, OwnStepTracks
    <2> QED
      BY <2>1, <2>2, <2>4, <2>5 DEF DirMadeFirst
  <1>4. CASE Copy(r)
    <2>1. util' = util
      BY <1>4, OwnStepIs
    <2>2. torn' = torn /\ aborted' \in BOOLEAN
      BY <1>4 DEF Copy
    <2>3. \A w \in Places : RankOk(r, w) /\ PlaceOk(w) =>
            (util.tool # "expand" => missed' = missed /\ ~aborted') /\ (~aborted' => Goes(r, w))
      BY <1>4, CopyKeeps
    <2>4. DirMadeFirst'
      <3>1. util.tool # "expand" => missed' = missed
        BY <2>3, TrackAt
      <3> QED
        BY <2>1, <3>1 DEF DirMadeFirst
    <2>5. ~aborted' => WalkType' /\ Track(T)'
      BY <1>4, <2>3, OwnStepTracks
    <2>6. WalksMeet'
      BY <1>4, AbortMeets
    <2> QED
      BY <2>1, <2>2, <2>4, <2>5, <2>6
  <1>5. CASE OpendirFails(r)
    <2>1. util' = util
      BY <1>5, OwnStepIs
    <2>2. /\ torn' = (util.tool \notin Rebuilds \cup {"preload"}) /\ aborted' = (util.tool \in Rebuilds)
          /\ missed' = missed
      BY <1>5 DEF OpendirFails, disks
    <2>3. DirMadeFirst'
      BY <2>1, <2>2 DEF DirMadeFirst
    <2>4. WalksMeet'
      BY <1>5, AbortMeets
    <2>6. torn' \in BOOLEAN /\ aborted' \in BOOLEAN
      BY ONLY <2>2
    <2>7. torn' = FALSE /\ aborted' = FALSE => util.tool = "preload"
      BY ONLY <2>2
    <2>8. (torn' = TRUE) => util.tool \notin Rebuilds \cup {"preload"}
      BY ONLY <2>2
    <2>5. util.tool = "preload" => WalkType' /\ Track(T)'
      <3> SUFFICES ASSUME util.tool = "preload" PROVE WalkType' /\ Track(T)'
        OBVIOUS
      <3>1. \A w \in Places : RankOk(r, w) /\ PlaceOk(w) => Goes(r, w)
        BY <1>5, OpendirFailsKeeps
      <3> QED
        BY <1>5, <3>1, OwnStepTracks
    <2> QED
      BY ONLY <2>1, <2>3, <2>4, <2>5, <2>6, <2>7, <2>8
  <1> QED
    BY <1>1, <1>2, <1>3, <1>4, <1>5 DEF Step, OwnStep

\* A rank that returns from list() before the others, or that walks on after one has.
LEMMA TornStays ==
    ASSUME NEW r \in Ranks, WalkInv, torn = TRUE,
           Step(r) \/ OpendirFails(r) \/ \E path \in util.files \cup util.dirs : StatFails(r, path)
    PROVE  torn' = TRUE /\ util' = util /\ aborted' \in BOOLEAN
  <1>1. CASE OpendirFails(r)
    <2>1. util' = util
      BY <1>1 DEF OpendirFails
    <2>2. util.tool \notin Rebuilds \cup {"preload"}
      BY torn = TRUE DEF WalkInv
    <2>3. torn' = (util.tool \notin Rebuilds \cup {"preload"}) /\ aborted' = (util.tool \in Rebuilds)
      BY <1>1 DEF OpendirFails
    <2>4. torn' = TRUE /\ aborted' \in BOOLEAN
      <3>1. aborted' \in BOOLEAN
        BY ONLY <2>3
      <3>2. torn' = TRUE
        BY ONLY <2>2, <2>3, Zenon
      <3> QED
        BY <3>1, <3>2
    <2> QED
      BY ONLY <2>1, <2>4
  <1>2. CASE Copy(r)
    BY <1>2 DEF Copy
  <1>3. CASE Enter(r) \/ Leave(r)
    BY <1>3 DEF Enter, Leave, faults, WalkInv
  <1>4. CASE OwnStep(r)
    <2>1. util' = util
      BY <1>4, OwnStepIs
    <2>2. torn' = torn /\ aborted' = aborted
      BY <1>4 DEF OwnStep, Opendir, EndOfDir, Closedir, AwaitEntry, LastBarrier, ReadEntry, StatFails, Descend,
                  FlushCreat, FlushOpen, faults
    <2> QED
      BY <2>1, <2>2 DEF WalkInv
  <1> QED
    BY <1>1, <1>2, <1>3, <1>4 DEF Step, OwnStep

\* copy() of xpn_flush that fails on one rank takes the ranks out of step.
LEMMA CopyFailsTears ==
    ASSUME WalkInv, NEW r \in Ranks, CopyFails(r)
    PROVE  WalkInv'
  <1>1. util \in Jobs /\ aborted \in BOOLEAN
    BY DEF WalkInv
  <1>2. util' = util /\ torn' = TRUE /\ aborted' = aborted /\ util.tool = "flush"
    BY DEF CopyFails
  <1>3. util' \in Jobs /\ aborted' \in BOOLEAN /\ util'.tool \notin Rebuilds \cup {"preload"}
    BY <1>1, <1>2 DEF Rebuilds
  <1>4. torn' /\ torn' \in BOOLEAN
    BY <1>2
  <1> QED
    BY ONLY <1>3, <1>4 DEF WalkInv, Rebuilds

LEMMA WalkInvNext ==
    ASSUME WalkInv, WalkNext
    PROVE  WalkInv'
  <1> SUFFICES ASSUME NEW r \in Ranks,
                      Step(r) \/ OpendirFails(r) \/ \E path \in util.files \cup util.dirs : StatFails(r, path)
               PROVE  WalkInv'
    BY CopyFailsTears DEF WalkNext
  <1>1. Step(r) \/ OpendirFails(r) \/ \E path \in util.files \cup util.dirs : StatFails(r, path)
    OBVIOUS
  <1>2. util \in Jobs /\ torn \in BOOLEAN /\ aborted \in BOOLEAN /\ (torn => util.tool \notin Rebuilds \cup {"preload"})
    BY DEF WalkInv
  <1>3. aborted = FALSE
    <2>1. ~aborted
      BY <1>1 DEF Step, Opendir, EndOfDir, Closedir, AwaitEntry, LastBarrier, ReadEntry, Enter, Leave, Descend,
                  FlushCreat, FlushOpen, Copy, OpendirFails, StatFails, At, Listing, Doing
    <2> QED
      BY <1>2, <2>1
  <1>4. CASE torn = TRUE
    <2>1. torn' = TRUE /\ util' = util /\ aborted' \in BOOLEAN
      BY <1>1, <1>4, TornStays
    <2>2. torn' /\ torn' \in BOOLEAN
      BY <2>1
    <2>3. util'.tool \notin Rebuilds \cup {"preload"}
      BY <1>2, <1>4, <2>1
    <2> QED
      BY ONLY <1>2, <2>1, <2>2, <2>3 DEF WalkInv, Rebuilds
  <1>5. CASE torn = FALSE /\ ~Walkable
    <2>1. /\ util' = util /\ torn' \in BOOLEAN /\ aborted' \in BOOLEAN
          /\ torn' = TRUE => util.tool \notin Rebuilds \cup {"preload"}
      <3>1. CASE OwnStep(r)
        <4>1. util' = util
          BY <3>1, OwnStepIs
        <4>2. torn' = torn /\ aborted' = aborted
          BY <3>1 DEF OwnStep, Opendir, EndOfDir, Closedir, AwaitEntry, LastBarrier, ReadEntry, StatFails, Descend,
                      FlushCreat, FlushOpen, faults
        <4> QED
          BY <1>3, <1>5, <4>1, <4>2
      <3>2. CASE Enter(r) \/ Leave(r)
        <4>1. util' = util /\ torn' = torn /\ aborted' = aborted
          BY <3>2 DEF Enter, Leave, faults
        <4> QED
          BY <1>3, <1>5, <4>1
      <3>3. CASE Copy(r)
        <4>1. util' = util /\ torn' = torn /\ aborted' \in BOOLEAN
          BY <3>3 DEF Copy
        <4> QED
          BY <1>5, <4>1
      <3>4. CASE OpendirFails(r)
        <4>1. util' = util /\ torn' = (util.tool \notin Rebuilds \cup {"preload"}) /\ aborted' = (util.tool \in Rebuilds)
          BY <3>4 DEF OpendirFails
        <4>2. torn' \in BOOLEAN /\ aborted' \in BOOLEAN
          BY ONLY <4>1
        <4>3. torn' = TRUE => util.tool \notin Rebuilds \cup {"preload"}
          BY ONLY <4>1
        <4> QED
          BY <4>1, <4>2, <4>3
      <3> QED
        BY <1>1, <3>1, <3>2, <3>3, <3>4 DEF Step, OwnStep
    <2>2. ~Walkable'
      BY <1>5, <2>1 DEF Walkable
    <2>3. util' \in Jobs /\ (torn' => util'.tool \notin Rebuilds' \cup {"preload"})
      BY <1>2, <2>1 DEF Rebuilds
    <2> QED
      BY ONLY <2>1, <2>2, <2>3 DEF WalkInv
  <1>6. CASE torn = FALSE /\ Walkable
    <2>1. DirMadeFirst /\ WalkType /\ \E T : Track(T)
      BY <1>3, <1>6 DEF WalkInv
    <2>2. PICK T : Track(T)
      BY <2>1
    <2>3. /\ util' = util /\ torn' \in BOOLEAN /\ aborted' \in BOOLEAN
          /\ (torn' = TRUE) => util.tool \notin Rebuilds \cup {"preload"}
          /\ torn' = FALSE => /\ DirMadeFirst'
                              /\ aborted' = TRUE => WalksMeet'
                              /\ aborted' = FALSE => WalkType' /\ \E U : Track(U)'
      BY <1>1, <1>2, <1>3, <1>6, <2>1, <2>2, WalkStep
    <2>4. util' \in Jobs /\ (torn' => util'.tool \notin Rebuilds' \cup {"preload"})
      BY <1>2, <2>3 DEF Rebuilds
    <2>5. ~torn' => DirMadeFirst' /\ (aborted' => WalksMeet') /\ (~aborted' => WalkType' /\ \E U : Track(U)')
      BY ONLY <2>3
    <2> QED
      BY ONLY <2>3, <2>4, <2>5 DEF WalkInv
  <1> QED
    BY <1>2, <1>4, <1>5, <1>6

LEMMA WalkInvInit ==
    ASSUME WalkInit
    PROVE  WalkInv
  <1>1. /\ util \in Jobs /\ stack = [r \in Ranks |-> <<Call(Root)>>] /\ ops = [r \in Ranks |-> <<>>]
        /\ passed = [r \in Ranks |-> 0] /\ inside = [r \in Ranks |-> FALSE] /\ net = <<>>
        /\ has = [h \in ToSet(util.hosts) |-> IF HasTree(h) THEN util.dirs ELSE {Root}]
        /\ outside = {Root} /\ copied = [r \in Ranks |-> {}] /\ skipped = {} /\ missed = {}
        /\ torn = FALSE /\ aborted = FALSE
    BY DEF WalkInit
  <1>2. Root \in util.dirs /\ Root \in Things
    BY <1>1, TreeWalkAssumption DEF Things
  <1>3. Call(Root) \in Frames /\ Call(Root).dir = Root /\ Call(Root).at = "open" /\ Call(Root).left = {}
    BY <1>2 DEF Call, Frames
  <1>4. PICK f : f = Call(Root)
    OBVIOUS
  <1>5. <<f>> \in Seq(Frames) /\ Len(<<f>>) = 1 /\ <<f>>[1] = f /\ <<f>> # <<>> /\ Head(<<f>>) = f
    BY <1>3, <1>4, SingletonSeq
  <1>6. WalkType
    <2>1. stack \in [Ranks -> Seq(Frames)] /\ ops \in [Ranks -> Seq(WalkOps)] /\ net \in Seq(Meetings)
      BY <1>1, <1>4, <1>5
    <2>2. has \in [ToSet(util.hosts) -> SUBSET Things]
      BY <1>1, <1>2 DEF Things
    <2>3. passed \in [Ranks -> Nat] /\ inside \in [Ranks -> BOOLEAN] /\ copied \in [Ranks -> SUBSET Things]
      BY <1>1
    <2> QED
      BY <1>1, <1>2, <2>1, <2>2, <2>3 DEF WalkType
  <1>7. PICK w : w = WalkStart
    OBVIOUS
  <1>8. /\ w \in Places /\ w.todo = <<>> /\ w.over = FALSE /\ w.sent = {} /\ w.got = {} /\ w.done = {}
        /\ util.tool = "preload" => w.dirs = <<>>
        /\ util.tool # "preload" => w.dirs = <<Root>>
    BY <1>1, <1>7, StartPlace DEF WalkStart
  <1>9. util.tool # "preload" => Len(w.dirs) = 1 /\ w.dirs[1] = Root
    <2>1. ASSUME NEW x PROVE Len(<<x>>) = 1 /\ <<x>>[1] = x
      OBVIOUS
    <2> QED
      BY ONLY <1>8, <2>1
  <1>10. PlaceOk(w)
    <2>1. FlushPlace(w)
      <3> SUFFICES ASSUME util.tool = "flush" PROVE FlushPlace(w)
        BY DEF FlushPlace
      <3>1. \A i \in 1..Len(w.dirs) : w.dirs[i] \in outside
        BY <1>1, <1>9
      <3>2. Len(w.todo) # 1
        BY <1>8
      <3> QED
        BY <3>1, <3>2 DEF FlushPlace
    <2>2. SentPlace(w)
      BY <1>8, <1>9 DEF SentPlace
    <2>3. Len(w.todo) = 0
      BY <1>8
    <2> QED
      BY <1>8, <2>1, <2>2, <2>3 DEF PlaceOk
  <1>11. ASSUME NEW r \in Ranks PROVE RankNet(r) /\ RankOk(r, w) /\ passed[r] = 0
    <2>1. stack[r] = <<f>> /\ ops[r] = <<>> /\ copied[r] = {} /\ passed[r] = 0 /\ inside[r] = FALSE
      BY <1>1, <1>4
    <2>2. RankNet(r)
      BY <1>1, <2>1 DEF RankNet
    <2>3. Top(r) = f /\ stack[r] # <<>> /\ stack[r][1] = f /\ Len(stack[r]) = 1
      BY <1>5, <2>1 DEF Top
    <2>4. f.dir = Root /\ f.at = "open" /\ f.left = {}
      BY <1>3, <1>4
    <2>5. Here(r, w, 0)
      <3> SUFFICES ASSUME util.tool # "preload" PROVE Lined(w.dirs, stack[r], 0)
        BY <1>8, <2>1 DEF Here
      <3>1. ASSUME NEW ds, NEW st, Len(ds) = 1, Len(st) = 1, ds[1] = st[1].dir PROVE Lined(ds, st, 0)
        BY ONLY <3>1 DEF Lined
      <3> QED
        BY <1>9, <2>3, <2>4, <3>1
    <2>6. InLoop(r, w)
      BY ONLY <2>1, <2>3, <2>4, <2>5 DEF InLoop
    <2>7. Phases(r, w)
      BY <1>8, <2>6 DEF Phases
    <2>8. FrameOk(r, w, 1)
      <3>1. HostOf(r) \in ToSet(util.hosts)
        BY <1>1, HostKnown
      <3>2. Root \in has[HostOf(r)]
        BY <1>1, <1>2, <3>1
      <3> QED
        BY ONLY <2>3, <2>4, <3>2 DEF FrameOk
    <2>9. \A i \in 1..Len(stack[r]) : FrameOk(r, w, i)
      BY <2>3, <2>8
    <2>10. LeftBehind(r)
      BY <2>1, <2>3, <2>4 DEF LeftBehind
    <2> QED
      BY <2>1, <2>2, <2>7, <2>9, <2>10 DEF RankOk
  <1>12. Len(net) = 0
    BY <1>1
  <1>13. Track([n \in {0} |-> w])
    <2>1. PICK T : T = [n \in {0} |-> w]
      OBVIOUS
    <2>2. 0..Len(net) = {0} /\ 1..Len(net) = {}
      BY <1>12
    <2>3. T \in [0..Len(net) -> Places] /\ T[0] = WalkStart
      BY <1>7, <1>8, <2>1, <2>2
    <2>4. \A k \in 0..Len(net) : T[k] = w
      BY <2>1, <2>2
    <2> QED
      BY <1>10, <1>11, <2>1, <2>2, <2>3, <2>4 DEF Track
  <1> QED
    BY <1>1, <1>6, <1>13 DEF WalkInv, DirMadeFirst

\* The invariant holds throughout: at every moment there is one walk of which every rank has done a part.
THEOREM WalkInvariant == WalkSpec => []WalkInv
  <1>1. WalkInit => WalkInv
    BY WalkInvInit
  <1>2. WalkInv /\ [WalkNext]_walkVars => WalkInv'
    BY WalkInvNext, WalkStutters
  <1> QED
    BY <1>1, <1>2, PTL DEF WalkSpec

\* The ranks that are in their k-th collective are in the same one, for any tree, utility and number of ranks,
\* unless one has returned from list() after a failed opendir, or from copy() of xpn_flush after a failed call.
THEOREM WalkersMeetInStep == WalkSpec => []WalksMeet
  <1>1. WalkInv => WalksMeet
    <2> SUFFICES ASSUME WalkInv, Walkable, ~torn PROVE WalksMeet
      BY DEF WalksMeet
    <2>1. CASE aborted
      BY <2>1 DEF WalkInv
    <2>2. CASE ~aborted
      <3>1. util \in Jobs /\ WalkType /\ \E T : Track(T)
        BY <2>2 DEF WalkInv
      <3> QED
        BY <3>1, TrackMeets
    <2> QED
      BY <2>1, <2>2
  <1> QED
    BY <1>1, WalkInvariant, PTL

-----------------------------------------------------------------------------
(* The end.                                                                  *)

LEMMA LeastNat ==
    ASSUME NEW S \in SUBSET Nat, S # {}
    PROVE  \E i \in S : \A j \in S : i <= j
  BY MinIs

\* The directory of an entry is a shorter path.
LEMMA FrontIs ==
    ASSUME NEW p \in Seq(STRING), p # <<>>
    PROVE  /\ Front(p) \in Seq(STRING) /\ Len(Front(p)) = Len(p) - 1 /\ Len(p) \in Nat \ {0}
           /\ \A i \in 1..(Len(p) - 1) : Front(p)[i] = p[i]
  <1>1. Len(p) \in Nat \ {0}
    OBVIOUS
  <1>2. \A i \in 1..(Len(p) - 1) : i \in 1..Len(p)
    BY <1>1
  <1>3. PICK n : n = Len(p) - 1 /\ n \in Nat
    BY <1>1
  <1>4. SubSeq(p, 1, n) \in Seq(STRING) /\ Len(SubSeq(p, 1, n)) = n /\ \A i \in 1..n : SubSeq(p, 1, n)[i] = p[i]
    <2>1. n <= Len(p)
      BY <1>1, <1>3
    <2> QED
      BY <1>1, <1>3, <2>1, SubSeqProperties
  <1> QED
    BY ONLY <1>1, <1>3, <1>4 DEF Front

LEMMA PrefixOf ==
    ASSUME NEW q \in Seq(STRING), NEW p \in Seq(STRING)
    PROVE  IsPrefix(q, p) <=> Len(q) <= Len(p) /\ \A i \in 1..Len(q) : q[i] = p[i]
  <1>1. Len(q) \in Nat /\ Len(p) \in Nat
    OBVIOUS
  <1>2. SubSeq(q, 1, Len(q)) = q
    OBVIOUS
  <1>3. ASSUME Len(q) <= Len(p)
        PROVE  SubSeq(p, 1, Len(q)) = q <=> \A i \in 1..Len(q) : q[i] = p[i]
    <2>1. PICK s : s = SubSeq(p, 1, Len(q))
      OBVIOUS
    <2>2. s \in Seq(STRING) /\ Len(s) = Len(q) /\ \A i \in 1..Len(q) : s[i] = p[i]
      BY <1>1, <1>3, <2>1, SubSeqProperties
    <2>3. (\A i \in 1..Len(q) : q[i] = s[i]) => s = q
      BY ONLY <2>2, q \in Seq(STRING), SeqEqual
    <2> QED
      BY ONLY <2>1, <2>2, <2>3
  <1> QED
    BY <1>2, <1>3 DEF IsPrefix

\* A tree is covered by any set that has the entries of its own directories but for K, apart from what is below K.
LEMMA TreeReached ==
    ASSUME util \in Jobs, NEW S, NEW K \in SUBSET Things,
           \A d \in (S \cap util.dirs) \cup {Root} : Entries(d) \subseteq S \cup K,
           NEW p \in Things, p # Root, \A q \in K : ~IsPrefix(q, p)
    PROVE  p \in S
  <1> DEFINE Lost == {q \in Things : q # Root /\ q \notin S /\ \A x \in K : ~IsPrefix(x, q)}
             Lens == {Len(q) : q \in Lost}
  <1> SUFFICES ASSUME p \notin S PROVE FALSE
    OBVIOUS
  <1>1. \A q \in Things : q \in Seq(STRING)
    BY TreeWalkAssumption DEF Things
  <1>2. Lens \in SUBSET Nat /\ Lens # {}
    <2>1. \A q \in Lost : Len(q) \in Nat
      BY <1>1
    <2>2. p \in Lost
      OBVIOUS
    <2> QED
      BY ONLY <2>1, <2>2
  <1>3. PICK n \in Lens : \A m \in Lens : n <= m
    BY <1>2, LeastNat
  <1>4. PICK q \in Lost : n = Len(q)
    BY <1>3
  <1>5. q \in Things /\ q # Root /\ q \notin S /\ (\A x \in K : ~IsPrefix(x, q)) /\ q \in Seq(STRING)
    BY <1>1, <1>4
  <1>6. /\ Front(q) \in util.dirs /\ q \in Entries(Front(q))
    <2>1. Front(q) \in util.dirs
      BY <1>5, TreeWalkAssumption DEF Things
    <2> QED
      BY <1>5, <2>1 DEF Entries, Parent, Things
  <1>7. /\ Front(q) \in Seq(STRING) /\ Len(Front(q)) = Len(q) - 1 /\ Len(q) \in Nat \ {0}
        /\ \A i \in 1..(Len(q) - 1) : Front(q)[i] = q[i]
    BY <1>5, FrontIs DEF Root
  <1> DEFINE d == Front(q)
  <1> HIDE DEF d
  <1>8. d \in S \/ d = Root
    <2> SUFFICES ASSUME d \notin S, d # Root PROVE FALSE
      OBVIOUS
    <2>1. ASSUME NEW x \in K PROVE ~IsPrefix(x, d)
      <3> SUFFICES ASSUME IsPrefix(x, d) PROVE FALSE
        OBVIOUS
      <3>1. x \in Seq(STRING) /\ Len(x) \in Nat /\ d \in Seq(STRING) /\ q \in Seq(STRING)
        BY <1>1, <1>5, <1>7, <2>1 DEF d
      <3>2. Len(x) <= Len(d) /\ \A i \in 1..Len(x) : x[i] = d[i]
        BY <3>1, PrefixOf
      <3>3. Len(x) <= Len(q) - 1 /\ Len(x) <= Len(q) /\ \A i \in 1..Len(x) : i \in 1..(Len(q) - 1)
        BY ONLY <1>7, <3>1, <3>2 DEF d
      <3>4. \A i \in 1..Len(x) : x[i] = q[i]
        BY ONLY <1>7, <3>2, <3>3 DEF d
      <3>5. IsPrefix(x, q)
        BY <3>1, <3>3, <3>4, PrefixOf
      <3> QED
        BY <1>5, <3>5
    <2>2. d \in Lost
      BY <1>6, <2>1 DEF d, Things
    <2>3. Len(d) \in Lens
      BY <2>2
    <2>4. n <= Len(d)
      BY <1>3, <2>3
    <2> QED
      BY ONLY <1>4, <1>7, <2>4 DEF d
  <1>9. q \in S \cup K
    BY <1>6, <1>8 DEF d
  <1>10. q \in K
    BY <1>5, <1>9
  <1>11. IsPrefix(q, q)
    <2>1. Len(q) <= Len(q)
      BY <1>7
    <2> QED
      BY <1>5, <2>1, PrefixOf
  <1> QED
    BY <1>5, <1>10, <1>11

\* All ranks end at the end of the same walk.
LEMMA EndsTogether ==
    ASSUME util \in Jobs, Walkable, WalkType, NEW T, Track(T), NEW r \in Ranks, Ended(r)
    PROVE  /\ passed[r] = Len(net) /\ T[passed[r]] \in Places /\ PlaceOk(T[passed[r]]) /\ LeftBehind(r)
           /\ T[passed[r]].over /\ Gone(r, T[passed[r]])
  <1>1. PICK w : w = T[passed[r]]
    OBVIOUS
  <1>2. passed[r] \in 0..Len(net) /\ w \in Places /\ RankOk(r, w) /\ PlaceOk(w) /\ Len(net) \in Nat
    BY <1>1, TrackAt
  <1>3. ops[r] = <<Local("exit", Root)>>
    BY DEF Ended
  <1>4. ops[r] # <<>> /\ Head(ops[r]).kind = "exit"
    BY <1>3, OpFields
  <1>5. Phases(r, w) /\ LeftBehind(r)
    BY <1>2 DEF RankOk
  <1>6. w.over
    <2>1. ASSUME NEW path \in Things, NEW j \in Nat, DealsWith(r, w, path, j) PROVE FALSE
      <3>1. AtEntry(r, path, j)
        BY <2>1, EntryKnown
      <3>2. EntryFacts(r, path) /\ j + 1 \in 1..Len(EntryOps(r, path)) /\ Head(ops[r]) = EntryOps(r, path)[j + 1]
        BY ONLY <3>1 DEF AtEntry
      <3> QED
        BY ONLY <1>4, <3>2 DEF EntryFacts
    <2>2. Head(ops[r]) # Barrier
      BY <1>4, OpFields
    <2> QED
      BY <1>4, <1>5, <2>1, <2>2, WhatNext
  <1>7. Gone(r, w)
    BY <1>5, <1>6 DEF Phases
  <1>8. w.todo = <<>> /\ w.dirs = <<>>
    BY <1>2, <1>6 DEF PlaceOk
  <1>9. NextOp(w).kind = "exit"
    BY <1>6, <1>8, OpFields DEF NextOp
  <1>10. passed[r] = Len(net)
    <2> SUFFICES ASSUME passed[r] # Len(net) PROVE FALSE
      OBVIOUS
    <2>1. PICK k \in 1..Len(net) : k - 1 = passed[r]
      <3>1. passed[r] + 1 \in 1..Len(net) /\ (passed[r] + 1) - 1 = passed[r]
        BY <1>2
      <3> QED
        BY <3>1
    <2>2. NetOk(T, k)
      BY DEF Track
    <2>3. Agree(NextOp(w), net[k])
      BY ONLY <1>1, <2>1, <2>2 DEF NetOk
    <2>4. net[k].kind \in Collectives
      <3>1. net \in Seq(Meetings)
        BY DEF WalkType
      <3>2. net[k] \in Meetings
        BY ONLY <2>1, <3>1
      <3> QED
        BY ONLY <3>2 DEF Meetings
    <2> QED
      BY <1>9, <2>3, <2>4 DEF Agree, Collectives, Bcasts
  <1> QED
    BY ONLY <1>1, <1>2, <1>5, <1>6, <1>7, <1>10

LEMMA WalkCopies ==
    ASSUME util \in Jobs, Walkable, WalkType, NEW T, Track(T), \A r \in Ranks : Ended(r)
    PROVE  EveryEntryCopied
  <1> DEFINE All == IF util.tool \in {"expand", "shrink"} THEN util.files
                    ELSE util.files \cup (util.dirs \ {Root})
  <1>1. skipped \subseteq Things /\ util.dirs \cap util.files = {} /\ Root \in util.dirs
    BY TreeWalkAssumption DEF WalkType
  <1>2. ASSUME NEW r \in Ranks, NEW p \in All, \A q \in skipped : ~IsPrefix(q, p) PROVE p \in copied[r]
    <2>1. PICK w : w = T[passed[r]]
      OBVIOUS
    <2>2. w \in Places /\ PlaceOk(w) /\ LeftBehind(r) /\ w.over /\ Gone(r, w)
      BY <2>1, EndsTogether
    <2>3. p \in Things /\ p # Root /\ HasCopy(p)
      BY <1>1, <1>2 DEF Things, HasCopy, IsDir
    <2>4. stack[r] = <<>> /\ Here(r, w, 0) /\ ops[r] = <<Local("exit", Root)>> /\ w.todo = <<>> /\ w.dirs = <<>>
      BY <2>2 DEF Gone, Ended, PlaceOk
    <2>5. p \notin skipped
      <3>1. p \in Seq(STRING)
        BY <2>3, TreeWalkAssumption DEF Things
      <3>2. IsPrefix(p, p)
        <4>1. Len(p) <= Len(p)
          BY <3>1
        <4> QED
          BY <3>1, <4>1, PrefixOf
      <3> QED
        BY <1>2, <3>2
    <2>6. CASE util.tool = "preload"
      <3>1. \A d : ops[r] # <<Local("list", d)>>
        <4>1. \A d : Head(<<Local("list", d)>>).kind = "list"
          BY OpFields
        <4>2. Head(ops[r]).kind = "exit"
          BY <2>4, OpFields
        <4> QED
          BY <4>1, <4>2
      <3>2. \A d \in (copied[r] \cap util.dirs) \cup {Root} : Entries(d) \subseteq copied[r] \cup skipped
        <4>1. Len(stack[r]) = 0
          BY <2>4
        <4>2. ~\E i \in 1..Len(stack[r]) : TRUE
          BY <4>1
        <4> QED
          BY ONLY <2>2, <2>6, <3>1, <4>2 DEF LeftBehind
      <3> QED
        BY <1>1, <1>2, <2>3, <3>2, TreeReached
    <2>7. CASE util.tool # "preload"
      <3>1. w.got = copied[r]
        BY <2>4, <2>7 DEF Here
      <3>2. /\ \A x \in w.sent : HasCopy(x) => x \in w.got \/ x \in skipped
            /\ \A d \in w.done : Entries(d) \subseteq w.sent \cup skipped
            /\ \A d \in (w.sent \cap util.dirs) \cup {Root} : d \in w.done
        <4>1. SentPlace(w)
          BY <2>2 DEF PlaceOk
        <4>2. ~\E i \in 1..Len(w.dirs) : TRUE
          BY <2>4
        <4> QED
          BY ONLY <2>4, <2>7, <4>1, <4>2 DEF SentPlace
      <3>3. \A d \in (w.sent \cap util.dirs) \cup {Root} : Entries(d) \subseteq w.sent \cup skipped
        BY ONLY <3>2
      <3>4. p \in w.sent
        BY <1>1, <1>2, <2>3, <3>3, TreeReached
      <3> QED
        BY <2>3, <2>5, <3>1, <3>2, <3>4
    <2> QED
      BY <2>6, <2>7
  <1>3. ASSUME NEW r \in Ranks, util.tool # "preload" PROVE copied[r] = copied[0]
    <2>1. 0 \in Ranks
      BY TreeWalkAssumption DEF Ranks
    <2>2. ASSUME NEW s \in Ranks PROVE copied[s] = T[Len(net)].got
      <3>1. passed[s] = Len(net) /\ Gone(s, T[passed[s]])
        BY EndsTogether
      <3> QED
        BY ONLY <1>3, <3>1 DEF Gone, Here
    <2> QED
      BY <2>1, <2>2
  <1> QED
    BY <1>2, <1>3 DEF EveryEntryCopied

\* However the ranks interleave, whatever stat fails, and for any tree: the utilities that end have copied it
\* whole, on every rank the same, and no directory was missing on the way (nobody having left the walk early).
THEOREM WalksCopyTheTree == WalkSpec => [](Walkable /\ ~torn => TreeCopied)
  <1>1. WalkInv => (Walkable /\ ~torn => TreeCopied)
    <2> SUFFICES ASSUME WalkInv, Walkable, ~torn PROVE TreeCopied
      OBVIOUS
    <2>1. DirMadeFirst
      BY DEF WalkInv
    <2>2. EveryEntryCopied
      <3> SUFFICES ASSUME ~aborted, \A r \in Ranks : Ended(r) PROVE EveryEntryCopied
        BY DEF EveryEntryCopied
      <3>1. util \in Jobs /\ WalkType /\ \E T : Track(T)
        BY DEF WalkInv
      <3> QED
        BY <3>1, WalkCopies
    <2> QED
      BY <2>1, <2>2 DEF TreeCopied
  <1> QED
    BY <1>1, WalkInvariant, PTL

\* The ranks of the two variants of the rebuild, from the lines of the hostfiles alone.
LEMMA RolesAreSplit ==
    ASSUME util \in Jobs
    PROVE  RolesSplit
  <1> SUFFICES ASSUME util.tool \in {"active_reader", "active_writer"} PROVE RolesSplit
    BY DEF RolesSplit
  <1>1. /\ \A lines \in {util.old, util.new} : \A i \in 1..Len(lines) :
              calculate_rank(lines, lines[i]) = i - 1 /\ \E k \in 1..Len(util.hosts) : util.hosts[k] = lines[i]
        /\ \A k \in 1..Len(util.hosts) :
              calculate_rank(util.old, util.hosts[k]) # -1 /\ calculate_rank(util.new, util.hosts[k]) # -1 =>
                  \E l \in 1..Len(util.hosts) : l # k /\ util.hosts[l] = util.hosts[k]
    BY RanksAssumption
  <1>2. Len(util.hosts) \in Nat /\ Len(util.old) \in Nat /\ Len(util.new) \in Nat
    <2>1. util.hosts \in Seq(STRING) /\ util.old \in Seq(STRING) /\ util.new \in Seq(STRING)
      BY TreeWalkAssumption
    <2> QED
      BY <2>1
  <1>3. /\ \A r \in Ranks : r \in Nat /\ r + 1 \in 1..Len(util.hosts)
        /\ \A k \in 1..Len(util.hosts) : k - 1 \in Ranks /\ (k - 1) + 1 = k
    BY <1>2 DEF Ranks
  <1>4. \A r \in Ranks : /\ rank_actual_to_old[r] = (IF Reads(r) THEN old_rank(r) ELSE -1)
                         /\ rank_actual_to_new[r] = (IF Writes(r) THEN new_rank(r) ELSE -1)
    BY DEF rank_actual_to_old, rank_actual_to_new
  <1>5. ASSUME NEW i \in 0..(Len(util.old) - 1) PROVE \E r \in Ranks : rank_actual_to_old[r] = i
    <2>1. i + 1 \in 1..Len(util.old) /\ (i + 1) - 1 = i
      BY <1>2
    <2>2. PICK k \in 1..Len(util.hosts) : util.hosts[k] = util.old[i + 1]
      BY <1>1, <2>1
    <2>3. k - 1 \in Ranks /\ old_rank(k - 1) = i
      BY <1>1, <1>3, <2>1, <2>2 DEF old_rank, HostOf
    <2> DEFINE size == Len(util.hosts)
               S == {size - s : s \in {x \in Ranks : old_rank(x) = i}}
    <2>4. S \in SUBSET Nat /\ S # {}
      <3>1. \A s \in Ranks : size - s \in Nat
        BY <1>2, <1>3
      <3> QED
        BY <2>3, <3>1
    <2>5. PICK m \in S : \A j \in S : m <= j
      BY <2>4, LeastNat
    <2>6. PICK r \in Ranks : m = size - r /\ old_rank(r) = i
      BY <2>5
    <2>7. ASSUME NEW s \in Ranks, s > r PROVE old_rank(s) # old_rank(r)
      <3> SUFFICES ASSUME old_rank(s) = old_rank(r) PROVE FALSE
        OBVIOUS
      <3>1. size - s \in S
        BY <2>6
      <3>2. size - r <= size - s
        BY <2>5, <2>6, <3>1
      <3>3. r \in Nat /\ s \in Nat /\ size \in Nat
        BY <1>2, <1>3
      <3> QED
        BY ONLY <2>7, <3>2, <3>3
    <2>8. Reads(r)
      BY <2>7 DEF Reads
    <2> QED
      BY <1>4, <2>6, <2>8
  <1>6. ASSUME NEW i \in 0..(Len(util.new) - 1) PROVE \E r \in Ranks : rank_actual_to_new[r] = i
    <2>1. i + 1 \in 1..Len(util.new) /\ (i + 1) - 1 = i
      BY <1>2
    <2>2. PICK k \in 1..Len(util.hosts) : util.hosts[k] = util.new[i + 1]
      BY <1>1, <2>1
    <2>3. k - 1 \in Ranks /\ new_rank(k - 1) = i
      BY <1>1, <1>3, <2>1, <2>2 DEF new_rank, HostOf
    <2> DEFINE S == {x \in Ranks : new_rank(x) = i}
    <2>4. S \in SUBSET Nat /\ S # {}
      BY <1>3, <2>3
    <2>5. PICK r \in S : \A j \in S : r <= j
      BY <2>4, LeastNat
    <2>6. ASSUME NEW s \in Ranks, s < r PROVE new_rank(s) # new_rank(r)
      <3>1. r \in Nat /\ s \in Nat
        BY <1>3, <2>5
      <3> QED
        BY <2>5, <2>6, <3>1
    <2>7. Writes(r)
      BY <2>6 DEF Writes
    <2> QED
      BY <1>4, <2>5, <2>7
  <1>7. ASSUME NEW r \in Ranks, rank_actual_to_old[r] # -1, rank_actual_to_new[r] # -1 PROVE FALSE
    <2>1. Reads(r) /\ old_rank(r) # -1 /\ Writes(r) /\ new_rank(r) # -1
      BY <1>4, <1>7
    <2>2. PICK l \in 1..Len(util.hosts) : l # r + 1 /\ util.hosts[l] = util.hosts[r + 1]
      BY <1>1, <1>3, <2>1 DEF old_rank, new_rank, HostOf
    <2>3. /\ l - 1 \in Ranks /\ l - 1 # r /\ l - 1 \in Nat /\ r \in Nat
          /\ old_rank(l - 1) = old_rank(r) /\ new_rank(l - 1) = new_rank(r)
      BY <1>3, <2>2 DEF old_rank, new_rank, HostOf
    <2>4. l - 1 > r \/ l - 1 < r
      BY ONLY <2>3
    <2> QED
      BY <2>1, <2>3, <2>4 DEF Reads, Writes
  <1> QED
    BY <1>5, <1>6, <1>7 DEF RolesSplit

\* Every old server has a rank that reads, every new one has one that writes, and no rank does both, for any two
\* hostfiles whose lines each have a rank.
THEOREM WalkRolesSplit == WalkSpec => []RolesSplit
  <1>1. WalkInv => RolesSplit
    BY RolesAreSplit DEF WalkInv
  <1> QED
    BY <1>1, WalkInvariant, PTL

=============================================================================
