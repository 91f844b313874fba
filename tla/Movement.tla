------------------------------ MODULE Movement ------------------------------
(***************************************************************************)
(* The MPI utilities that move the data of a partition, on one file:       *)
(* xpn_preload brings it in, xpn_flush takes it out, xpn_expand and        *)
(* xpn_shrink change its servers through the metadata, and xpn_rebuild and *)
(* its two variants deal it anew, without metadata, to other servers.      *)
(* Between them a client may append to the file.                           *)
(*                                                                         *)
(* Byte k of the file is the number k.  A server's file is the sequence of *)
(* its bytes after the header; what was never written reads as Hole.  The  *)
(* ranks of shrink and of the rebuild variants are readers and writers     *)
(* that exchange messages; the two to four messages of a block, which      *)
(* follow one another between the same two ranks, are one message here.    *)
(***************************************************************************)
EXTENDS Malleability, SequencesExt

CONSTANTS
    Hosts,          \* machines, each with the local disk of one server
    BlockSize,
    Files,          \* [n, rl, hash, dir, size]: servers, replication level,
                    \* sums of the bytes of the names, length of the source
    ExpandLists,    \* sequences of hosts that xpn_expand adds
    ShrinkLists,    \* sequences of servers named to xpn_shrink
    RebuildLists,   \* sequences of hosts of the new hostfile
    MaxSize,        \* bound: length of the file
    MaxChanges      \* bound: expansions and shrinks

ASSUME MovementAssumption ==
    /\ BlockSize \in Nat \ {0} /\ MaxSize \in Nat /\ MaxChanges \in Nat
    /\ \A f \in Files : f.n \in Nat \ {0} /\ f.rl \in Nat
    /\ ExpandLists \subseteq Seq(Hosts) /\ RebuildLists \subseteq Seq(Hosts)
    /\ \A gone \in ShrinkLists : gone \in Seq(Nat) /\ gone # <<>>

VARIABLES
    file,     \* the element of Files
    mdata,    \* the current metadata
    mdataAt,  \* the metadata in the header of each host's file
    host,     \* the host of each server
    disk,     \* the file of each host, NoFile if there is none
    dest,     \* the file outside the partition that flush writes
    job,      \* the utility that runs
    proc,     \* its ranks
    chan,     \* messages between its ranks
    changes,  \* the expansions and shrinks done
    beyond    \* one of them was asked for in a case the code does not handle

vars == <<file, mdata, mdataAt, host, disk, dest, job, proc, chan, changes, beyond>>

Hole == -1
NoFile == <<-2>>
NoMdata == <<>>
Stop == [stop |-> TRUE]
Idle == [tool |-> "none"]
NoProc == <<>>

-----------------------------------------------------------------------------
(* The files of a disk. *)

ReadAt(s, offset, size) ==
    IF s = NoFile THEN <<>> ELSE SubSeq(s, offset + 1, Min({offset + size, Len(s)}))

WriteAt(s, offset, data) ==
    LET old == IF s = NoFile THEN <<>> ELSE s
    IN  [i \in 1..Max({Len(old), offset + Len(data)}) |->
            IF offset < i /\ i <= offset + Len(data) THEN data[i - offset]
            ELSE IF i <= Len(old) THEN old[i] ELSE Hole]

\* Bytes from..to-1 of the file.
Bytes(from, to) == [i \in 1..(to - from) |-> from + i - 1]

N == CurrentServers(mdata)
Stored == mdata # NoMdata /\ job = Idle
Blocks(md) == (md.file_size + md.block_size - 1) \div md.block_size
Replicas(md) == 0..md.replication_level

\* The servers that hold the metadata of a file of n servers (XpnReadMetadata,
\* XpnUpdateMetadata): the master node and the next ones.
MdataServers(h, rl, n) == {(h + i) % n : i \in 0..rl}

PutMdata(servers, md) ==
    [x \in Hosts |-> IF \E s \in servers : s \in DOMAIN host /\ host[s] = x THEN md ELSE mdataAt[x]]

-----------------------------------------------------------------------------
(* xpn_preload: every rank reads the source and keeps its own blocks. *)

PreloadMetadata == [CreateMetadata(BlockSize, file.rl, file.hash % file.n, file.n)
                        EXCEPT !.file_size = file.size]

\* What rank r writes after the header: every replica that is its own.
PreloadFile(md, r) ==
    LET Mine == {x \in (0..(Blocks(md) - 1)) \X Replicas(md) :
                    CalculateBlockMdata(md, x[1] * BlockSize, x[2]).serv = r}
        Put(s, x) == WriteAt(s, CalculateBlockMdata(md, x[1] * BlockSize, x[2]).local_offset,
                             Bytes(x[1] * BlockSize, Min({(x[1] + 1) * BlockSize, md.file_size})))
    IN  FoldSet(LAMBDA x, s : Put(s, x), <<>>, Mine)

Preload(r) ==
    /\ job.tool = "preload" /\ r \in job.todo
    /\ LET md == PreloadMetadata
           has_mdata == r \in MdataServers(md.first_node, file.rl, file.n)
           has_master_dir == r \in MdataServers(file.dir, file.rl, file.n)
           local == PreloadFile(md, r)
           kept == local # <<>> \/ has_mdata \/ has_master_dir
       IN  /\ disk' = [disk EXCEPT ![host[r]] = IF kept THEN local ELSE NoFile]
           /\ mdataAt' = [mdataAt EXCEPT ![host[r]] = IF has_mdata THEN md ELSE NoMdata]
           /\ IF job.todo = {r} THEN mdata' = md /\ job' = Idle
              ELSE UNCHANGED mdata /\ job' = [job EXCEPT !.todo = @ \ {r}]
    /\ UNCHANGED <<file, host, dest, proc, chan, changes, beyond>>

-----------------------------------------------------------------------------
(* A client appends up to the end of a block, or half of one. *)

AppendTo(md, size) ==
    LET data == Bytes(md.file_size, size)
        place(rep) == CalculateBlockMdata(md, md.file_size, rep)
        Put(d, rep) == LET h == host[place(rep).serv]
                       IN  [d EXCEPT ![h] = WriteAt(@, place(rep).local_offset, data)]
    IN  FoldSet(LAMBDA rep, d : Put(d, rep), disk, Replicas(md))

Append_(size) ==
    LET b == mdata.file_size \div BlockSize
        md == [mdata EXCEPT !.file_size = size]
    IN  /\ Stored /\ mdata.file_size < size /\ size <= MaxSize /\ size <= (b + 1) * BlockSize
        /\ \A rep \in Replicas(mdata) :
               CalculateBlockMdata(mdata, mdata.file_size, rep).serv \in DOMAIN host
        /\ disk' = AppendTo(mdata, size)
        /\ mdata' = md
        /\ mdataAt' = PutMdata(MdataServers(file.hash, file.rl, N), md)
        /\ UNCHANGED <<file, host, dest, job, proc, chan, changes, beyond>>

-----------------------------------------------------------------------------
(* xpn_expand: only the metadata changes. *)

\* The first block that is not whole is the first of a round: RoundLimit does
\* not count it, and it is looked for among the new servers.
SplitsRound(md) == /\ md.file_size % md.block_size # 0
                   /\ (md.file_size \div md.block_size) % CurrentServers(md) = 0

HasShrunk(md) == \E i \in DOMAIN md.data_nserv : md.data_nserv[i] < 0
HasChanged(md) == md.data_nserv[1] # 0

Expand(hosts) ==
    LET size == N + Len(hosts)
        md == ExpandMetadata(mdata, size)
    IN  /\ Stored /\ changes < MaxChanges
        /\ ToSet(hosts) \cap Range(host) = {}
        /\ host' = [s \in 0..(size - 1) |-> IF s < N THEN host[s] ELSE hosts[s - N + 1]]
        /\ disk' = [x \in Hosts |-> IF disk[x] = NoFile /\ \E s \in DOMAIN host' : host'[s] = x
                                    THEN <<>> ELSE disk[x]]
        /\ mdataAt' = [x \in Hosts |->
                         IF \E s \in MdataServers(file.hash, file.rl, size) : host'[s] = x
                         THEN md ELSE mdataAt[x]]
        /\ mdata' = md
        /\ changes' = changes + 1
        /\ beyond' = (beyond \/ SplitsRound(mdata) \/ HasShrunk(mdata))
        /\ UNCHANGED <<file, dest, job, proc, chan>>

-----------------------------------------------------------------------------
(* Readers that push their blocks to writers: xpn_shrink, and               *)
(* xpn_rebuild_active_reader.  Readers and writers are named by the server  *)
(* numbers they have before and after.                                      *)

Reader(r) == <<"reader", r>>
Writer(w) == <<"writer", w>>
Readers == {p[2] : p \in {q \in DOMAIN proc : q[1] = "reader"}}
Writers == {p[2] : p \in {q \in DOMAIN proc : q[1] = "writer"}}

Start(readers, writers) ==
    /\ proc' = [p \in {Reader(r) : r \in DOMAIN readers} \cup {Writer(w) : w \in DOMAIN writers} |->
                    [pc |-> "run", pos |-> 0, tmp |-> <<>>,
                     host |-> IF p[1] = "reader" THEN readers[p[2]] ELSE writers[p[2]]]]
    /\ chan' = [c \in (DOMAIN readers) \X (DOMAIN writers) |-> <<>>]

ShrinkBegins(gone) ==
    LET size == N
        trans == TransRank(size, gone)
        md == ShrinkMetadata(mdata, size, gone)
        stay == {s \in DOMAIN host : trans[s] >= 0}
    IN  /\ Stored /\ changes < MaxChanges
        /\ Range(gone) \subseteq DOMAIN host
        /\ job' = [tool |-> "shrink", md |-> md, trans |-> trans]
        /\ Start([s \in Range(gone) |-> host[s]],
                 [w \in 0..(Cardinality(stay) - 1) |-> host[CHOOSE s \in stay : trans[s] = w]])
        /\ changes' = changes + 1
        /\ beyond' = (beyond \/ stay = {} \/ HasChanged(mdata) \/ mdata.file_size % BlockSize # 0)
        /\ UNCHANGED <<file, mdata, mdataAt, host, disk, dest>>

\* The position in the deal of the next replica, from block b on, that server s has.
NextOn(md, s, b) ==
    LET k == md.replication_level + 1
    IN  Min({p \in (b * k)..((b + 3 * Cardinality(Hosts) + 1) * k - 1) : Position(md, p).serv = s})

\* What a reader sends next: from where, to whom and where to.  A rebuild takes
\* the first node as 0.  RebuildItemFirst takes every replica as the first.
ItemAt(p) ==
    [from |-> Position(mdata, p).local_offset, to |-> Position(job.md, p),
     pos |-> p \div (file.rl + 1) + 1]
ShrinkItem(r, pos) == ItemAt(NextOn(mdata, r, pos))
RebuildItemFirst(r, pos) ==
    LET real == CalculateBlockInvert(BlockSize, file.rl, job.old_size, r, pos * BlockSize, 0)
        to == CalculateBlock(BlockSize, file.rl, job.new_size, real.offset, 0, 0)
    IN  [from |-> pos * BlockSize, to |-> to, pos |-> pos + 1]
RebuildItem(r, pos) ==
    LET real == CalculateBlockInvert(BlockSize, file.rl, job.old_size, r, pos * BlockSize, 0)
        to == CalculateBlock(BlockSize, file.rl, job.new_size, real.offset, real.replication, 0)
    IN  [from |-> pos * BlockSize, to |-> to, pos |-> pos + 1]
Item(r, pos) == IF job.tool = "shrink" THEN ShrinkItem(r, pos) ELSE RebuildItem(r, pos)

Pushing == job.tool \in {"shrink", "active_reader"}

\* A whole block is too long for the buffers of MPI: the send returns when the
\* writer takes it.  A shorter one is buffered.
ReaderSends(r, item, data) ==
    IF data = <<>>
    THEN /\ proc' = [proc EXCEPT ![Reader(r)].pc = "barrier"]
         /\ UNCHANGED chan
    ELSE /\ item.to.serv \in Writers
         /\ proc' = [proc EXCEPT ![Reader(r)] =
                       [@ EXCEPT !.pos = item.pos,
                                 !.pc = IF Len(data) = BlockSize THEN "blocked" ELSE "run"]]
         /\ chan' = [chan EXCEPT ![<<r, item.to.serv>>] =
                       Append(@, [stop |-> FALSE, offset |-> item.to.local_offset, data |-> data])]

ReaderPushes(r) ==
    LET me == proc[Reader(r)]
        Sends(item) == ReaderSends(r, item, ReadAt(disk[me.host], item.from, BlockSize))
    IN  /\ Pushing /\ r \in Readers /\ me.pc = "run"
        /\ Sends(Item(r, me.pos))
        /\ UNCHANGED <<file, mdata, mdataAt, host, disk, dest, job, changes, beyond>>

\* recv_thread of xpn_shrink, which writes to the file itself, and the loop of
\* xpn_rebuild_active_reader, which writes to a temporary one.  The message may
\* come from any reader.
WriterTakes(w, r) ==
    LET me == proc[Writer(w)]
        msg == Head(chan[<<r, w>>])
    IN  /\ Pushing /\ <<r, w>> \in DOMAIN chan /\ me.pc = "run" /\ chan[<<r, w>>] # <<>>
        /\ chan' = [chan EXCEPT ![<<r, w>>] = Tail(@)]
        /\ IF msg.stop
           THEN /\ proc' = [proc EXCEPT ![Writer(w)].pc = "stopped"]
                /\ UNCHANGED disk
           ELSE LET free == [proc EXCEPT ![Reader(r)].pc = IF @ = "blocked" THEN "run" ELSE @]
                IN  IF job.tool = "shrink"
                    THEN /\ disk' = [disk EXCEPT ![me.host] = WriteAt(@, msg.offset, msg.data)]
                         /\ proc' = free
                    ELSE /\ proc' = [free EXCEPT ![Writer(w)].tmp = WriteAt(@, msg.offset, msg.data)]
                         /\ UNCHANGED disk
        /\ UNCHANGED <<file, mdata, mdataAt, host, dest, job, changes, beyond>>

\* The reader that stops the writers.  StopMasterZero takes rank 0, which need
\* not be one that leaves.
StopMasterZero == 0
StopMaster == IF job.tool = "shrink" THEN Min({r \in Readers : job.trans[r] = -1}) ELSE 0

\* The barrier of the readers ends when the last one is there; the master then
\* stops the writers.
ReadersMeet == \A r \in Readers : proc[Reader(r)].pc = "barrier"

ReadersStop ==
    /\ Pushing /\ ReadersMeet
    /\ chan' = [c \in DOMAIN chan |-> IF c[1] = StopMaster THEN Append(chan[c], Stop) ELSE chan[c]]
    /\ proc' = [p \in DOMAIN proc |->
                   IF p[1] = "reader" THEN [proc[p] EXCEPT !.pc = "unlink"] ELSE proc[p]]
    /\ UNCHANGED <<file, mdata, mdataAt, host, disk, dest, job, changes, beyond>>

-----------------------------------------------------------------------------
(* Writers that pull their blocks from readers: xpn_rebuild_active_writer.  *)

\* The place of the next block of writer w among the old servers.
AskedItem(w, pos) ==
    LET real == CalculateBlockInvert(BlockSize, file.rl, job.new_size, w, pos * BlockSize, 0)
    IN  CalculateBlock(BlockSize, file.rl, job.old_size, real.offset, real.replication, 0)

WriterAsks(w) ==
    /\ job.tool = "active_writer" /\ w \in Writers /\ proc[Writer(w)].pc = "run"
    /\ proc' = [proc EXCEPT ![Writer(w)].pc = "asked"]
    /\ UNCHANGED <<file, mdata, mdataAt, host, disk, dest, job, chan, changes, beyond>>

\* The reader answers whoever asks; the writer ends at the first empty answer.
ReaderAnswers(r, w) ==
    LET me == proc[Writer(w)]
        item == AskedItem(w, me.pos)
        data == ReadAt(disk[proc[Reader(r)].host], item.local_offset, BlockSize)
    IN  /\ job.tool = "active_writer" /\ r \in Readers /\ w \in Writers
        /\ me.pc = "asked" /\ item.serv = r /\ proc[Reader(r)].pc = "run"
        /\ proc' = [proc EXCEPT ![Writer(w)] =
                      IF data = <<>> THEN [me EXCEPT !.pc = "barrier"]
                      ELSE [me EXCEPT !.pc = "run", !.pos = @ + 1,
                                      !.tmp = WriteAt(@, me.pos * BlockSize, data)]]
        /\ UNCHANGED <<file, mdata, mdataAt, host, disk, dest, job, chan, changes, beyond>>

WritersStop ==
    /\ job.tool = "active_writer"
    /\ \A w \in Writers : proc[Writer(w)].pc = "barrier"
    /\ proc' = [p \in DOMAIN proc |->
                   [proc[p] EXCEPT !.pc = IF p[1] = "reader" THEN "unlink" ELSE "stopped"]]
    /\ UNCHANGED <<file, mdata, mdataAt, host, disk, dest, job, chan, changes, beyond>>

-----------------------------------------------------------------------------
(* xpn_rebuild: rounds that all ranks do together.                          *)

Round ==
    LET pos == proc[Reader(0)].pos
        Data(r) == ReadAt(disk[proc[Reader(r)].host], pos * BlockSize, BlockSize)
        Sent(w) == {r \in Readers : Data(r) # <<>> /\ RebuildItem(r, pos).to.serv = w}
        Put(t, r) == WriteAt(t, RebuildItem(r, pos).to.local_offset, Data(r))
        finish == \A r \in Readers : Data(r) = <<>>
    IN  /\ job.tool = "rebuild" /\ \A r \in Readers : proc[Reader(r)].pc = "run"
        /\ proc' = [p \in DOMAIN proc |->
              IF p[1] = "reader"
              THEN [proc[p] EXCEPT !.pos = pos + 1, !.pc = IF finish THEN "unlink" ELSE "run"]
              ELSE [proc[p] EXCEPT !.tmp = FoldSet(LAMBDA r, t : Put(t, r), @, Sent(p[2])),
                                   !.pc = IF finish THEN "stopped" ELSE "run"]]
        /\ UNCHANGED <<file, mdata, mdataAt, host, disk, dest, job, chan, changes, beyond>>

-----------------------------------------------------------------------------
(* The begin and the end of the three rebuilds.                             *)

\* Every old server must have the file: a rank that cannot open it aborts all.
\* Temporary files are created next to it, with an empty header.
RebuildBegins(tool, new) ==
    /\ Stored
    /\ \A s \in DOMAIN host : disk[host[s]] # NoFile
    /\ job' = [tool |-> tool, old_size |-> N, new_size |-> Len(new)]
    /\ Start(host, [w \in 0..(Len(new) - 1) |-> new[w + 1]])
    /\ beyond' = (\/ beyond \/ mdata.first_node # 0 \/ HasChanged(mdata)
                  \/ tool = "active_reader" /\ mdata.file_size % BlockSize # 0)
    /\ UNCHANGED <<file, mdata, mdataAt, host, disk, dest, changes>>

ReaderUnlinks(r) ==
    /\ r \in Readers /\ proc[Reader(r)].pc = "unlink"
    /\ disk' = [disk EXCEPT ![proc[Reader(r)].host] = NoFile]
    /\ mdataAt' = [mdataAt EXCEPT ![proc[Reader(r)].host] = NoMdata]
    /\ proc' = [proc EXCEPT ![Reader(r)].pc = "done"]
    /\ UNCHANGED <<file, mdata, host, dest, job, chan, changes, beyond>>

\* The two variants have a barrier between unlink and rename.  xpn_rebuild has
\* none: there the ranks that are on the same host are one process.
\* UnlinkedNever leaves the barrier out.
UnlinkedNever(w) == TRUE
UnlinkedFirst(w) ==
    \A r \in Readers : (job.tool # "rebuild" \/ proc[Reader(r)].host = proc[Writer(w)].host)
                          => proc[Reader(r)].pc = "done"

WriterRenames(w) ==
    LET me == proc[Writer(w)]
    IN  /\ job.tool # "shrink" /\ w \in Writers /\ me.pc = "stopped" /\ UnlinkedFirst(w)
        /\ disk' = [disk EXCEPT ![me.host] = me.tmp]
        /\ mdataAt' = [mdataAt EXCEPT ![me.host] = NoMdata]
        /\ proc' = [proc EXCEPT ![Writer(w)] = [@ EXCEPT !.pc = "done", !.tmp = <<>>]]
        /\ UNCHANGED <<file, mdata, host, dest, job, chan, changes, beyond>>

\* The end of shrink's copy(): the metadata goes to the master node among the
\* servers that stay and to the next ones, counted modulo the old number.
\* ShrunkMdataOld takes the master node among the old servers.
ShrunkMdataOld(n) == MdataServers(file.hash % N, file.rl, N)
ShrunkMdataServers(n) == MdataServers(file.hash % n, file.rl, N)

WriterPutsMdata(w) ==
    /\ job.tool = "shrink" /\ w \in Writers /\ proc[Writer(w)].pc = "stopped"
    /\ mdataAt' = IF w \in ShrunkMdataServers(Cardinality(Writers))
                  THEN [mdataAt EXCEPT ![proc[Writer(w)].host] = job.md] ELSE mdataAt
    /\ disk' = [disk EXCEPT ![proc[Writer(w)].host] = IF @ = NoFile THEN <<>> ELSE @]
    /\ proc' = [proc EXCEPT ![Writer(w)].pc = "done"]
    /\ UNCHANGED <<file, mdata, host, dest, job, chan, changes, beyond>>

\* The last barrier.  A rebuilt file has no metadata.
JobEnds ==
    /\ DOMAIN proc # {} /\ \A p \in DOMAIN proc : proc[p].pc = "done"
    /\ host' = [w \in Writers |-> proc[Writer(w)].host]
    /\ mdata' = IF job.tool = "shrink" THEN job.md ELSE mdata
    /\ job' = IF job.tool = "shrink" THEN Idle ELSE [tool |-> "rebuilt"]
    /\ proc' = NoProc /\ chan' = NoProc
    /\ UNCHANGED <<file, mdataAt, disk, dest, changes, beyond>>

-----------------------------------------------------------------------------
(* xpn_flush: every rank writes the blocks it has to the file outside and   *)
(* removes its own file.                                                    *)

\* The master node creates the destination and the ranks take the descriptor of
\* rank 0, which is not set unless rank 0 is the master: a negative one makes
\* all of them give up.
FlushBegins ==
    /\ Stored
    /\ mdataAt[host[file.hash % N]] # NoMdata
    /\ job' = [tool |-> "flush", todo |-> DOMAIN host, md |-> mdataAt[host[file.hash % N]]]
    /\ dest' = <<>>
    /\ UNCHANGED <<file, mdata, mdataAt, host, disk, proc, chan, changes, beyond>>

FlushGivesUp ==
    /\ Stored /\ file.hash % N # 0 /\ dest = NoFile
    /\ dest' = <<>>
    /\ UNCHANGED <<file, mdata, mdataAt, host, disk, job, proc, chan, changes, beyond>>

\* The blocks among those of the set that rank r writes, up to the first it
\* cannot read.
BlocksFrom(md, r, blocks) ==
    LET Rep(b) == {i \in Replicas(md) : CalculateBlockMdata(md, b * BlockSize, i).serv = r}
        mine == {b \in blocks : Rep(b) # {}}
        Local(b) == CalculateBlockMdata(md, b * BlockSize, Min(Rep(b))).local_offset
        Data(b) == ReadAt(disk[host[r]], Local(b), BlockSize)
    IN  {[offset |-> b * BlockSize, local |-> Local(b), data |-> Data(b)] :
            b \in {c \in mine : \A d \in mine : d <= c => Data(d) # <<>>}}

FlushedBlocks(md, r) == BlocksFrom(md, r, 0..(md.file_size \div BlockSize))

FlushRank(r) ==
    /\ job.tool = "flush" /\ r \in job.todo
    /\ dest' = FoldSet(LAMBDA x, s : WriteAt(s, x.offset, x.data), dest,
                     FlushedBlocks(job.md, r))
    /\ disk' = [disk EXCEPT ![host[r]] = NoFile]
    /\ mdataAt' = [mdataAt EXCEPT ![host[r]] = NoMdata]
    /\ job' = IF job.todo = {r} THEN [tool |-> "flushed"] ELSE [job EXCEPT !.todo = @ \ {r}]
    /\ UNCHANGED <<file, mdata, host, proc, chan, changes, beyond>>

-----------------------------------------------------------------------------
Init ==
    /\ file \in Files
    /\ mdata = NoMdata
    /\ host = [s \in 0..(file.n - 1) |-> s]
    /\ mdataAt = [x \in Hosts |-> NoMdata]
    /\ disk = [x \in Hosts |-> NoFile]
    /\ dest = NoFile
    /\ job = [tool |-> "preload", todo |-> 0..(file.n - 1)]
    /\ proc = NoProc /\ chan = NoProc
    /\ changes = 0 /\ beyond = FALSE

Steps ==
    \/ \E r \in DOMAIN host : Preload(r) \/ FlushRank(r)
    \/ \E r \in Readers : ReaderPushes(r) \/ ReaderUnlinks(r)
    \/ \E w \in Writers : WriterAsks(w) \/ WriterRenames(w) \/ WriterPutsMdata(w)
    \/ \E r \in Readers, w \in Writers : WriterTakes(w, r) \/ ReaderAnswers(r, w)
    \/ ReadersStop \/ WritersStop \/ Round \/ JobEnds

\* Nothing is left to do with a file that was flushed or rebuilt.
Finished == job.tool \in {"flushed", "rebuilt"} /\ UNCHANGED vars

Next ==
    \/ Steps
    \/ \E size \in 1..MaxSize : Append_(size)
    \/ \E hosts \in ExpandLists : Expand(hosts)
    \/ \E gone \in ShrinkLists : ShrinkBegins(gone)
    \/ \E new \in RebuildLists, tool \in {"rebuild", "active_reader", "active_writer"} :
           RebuildBegins(tool, new)
    \/ FlushBegins \/ FlushGivesUp
    \/ Finished

Spec == Init /\ [][Next]_vars

-----------------------------------------------------------------------------
\* Every replica of every byte is where XpnCalculateBlockMdata looks for it:
\* preload puts it there, expand leaves it there although the formula changes,
\* shrink moves exactly what has to move without overwriting anything, and what
\* a client appends afterwards takes no place that is in use.
BytesWhereComputed ==
    (Stored /\ ~beyond) =>
        \A o \in 0..(mdata.file_size - 1), rep \in Replicas(mdata) :
            LET at == CalculateBlockMdata(mdata, o, rep)
            IN  ReadAt(disk[host[at.serv]], at.local_offset, 1) = <<o>>

\* The server that a client asks first for the metadata has the current one.
MasterHasMetadata ==
    Stored => mdataAt[host[file.hash % N]] = mdata

\* Whatever utility runs and however its ranks interleave, no byte of the file
\* is without a copy: on the disks, in a file being built, in a message, or in
\* the flushed file.
NoByteLost ==
    (mdata # NoMdata /\ ~beyond) =>
        \A o \in 0..(mdata.file_size - 1) :
            \/ \E x \in Hosts : o \in ToSet(disk[x])
            \/ o \in ToSet(dest)
            \/ \E p \in DOMAIN proc : o \in ToSet(proc[p].tmp)
            \/ \E c \in DOMAIN chan : \E i \in DOMAIN chan[c] :
                  ~chan[c][i].stop /\ o \in ToSet(chan[c][i].data)

\* A rebuilt file is dealt to the new servers from server 0 on.
RebuiltAsDealt ==
    (job.tool = "rebuilt" /\ ~beyond) =>
        \A o \in 0..(mdata.file_size - 1), rep \in Replicas(mdata) :
            LET at == CalculateBlock(BlockSize, file.rl, Cardinality(DOMAIN host), o, rep, 0)
            IN  ReadAt(disk[host[at.serv]], at.local_offset, 1) = <<o>>

\* A flushed file starts with the file, and is nothing more unless servers were
\* removed: the block after a file of whole blocks is then read from a hole.
FlushedIsFile ==
    (job.tool = "flushed" /\ ~beyond) =>
        /\ ReadAt(dest, 0, mdata.file_size) = Bytes(0, mdata.file_size)
        /\ HasShrunk(mdata) \/ Len(dest) = mdata.file_size

\* What a utility leaves in the end is the file it was given.
CopyIsTheFile == RebuiltAsDealt /\ FlushedIsFile

\* No rank waits for what never comes: a reader whose send has not returned has
\* its message before a writer that still takes messages, a writer that takes
\* messages has a reader that is not past the barrier or a stop on its way, and
\* a writer that has asked has asked a reader that still answers.
NobodyLeftWaiting ==
    ~beyond =>
        /\ \A r \in Readers : proc[Reader(r)].pc = "blocked" =>
              \E w \in Writers : chan[<<r, w>>] # <<>> /\ proc[Writer(w)].pc = "run"
        /\ \A w \in Writers : (Pushing /\ proc[Writer(w)].pc = "run") =>
              \E r \in Readers : \/ proc[Reader(r)].pc \in {"run", "blocked", "barrier"}
                                 \/ Stop \in ToSet(chan[<<r, w>>])
        /\ \A w \in Writers : proc[Writer(w)].pc = "asked" =>
              proc[Reader(AskedItem(w, proc[Writer(w)].pos).serv)].pc = "run"

=============================================================================
