----------------------------- MODULE StripedFile -----------------------------
(***************************************************************************)
(* One XPN file, spread by xpn_policy_rw.c over the servers, and the       *)
(* clients that read and write it through xpn_simple_read, _write and      *)
(* _lseek of xpn_rw.c.  A write becomes one write on every server that     *)
(* gets a replica of one of its blocks, done by the workers in any order,  *)
(* followed by the update of file_size on the servers that keep the        *)
(* metadata, the last of which nobody waits for.  A client that knows a    *)
(* server to be in error leaves it out.                                    *)
(***************************************************************************)
EXTENDS BlockLayout, FiniteSets, Sequences, SequencesExt

CONSTANTS
    Instances,         \* the files that are looked at, see IsInstance
    MaxWrites,         \* bound: writes of all clients
    MaxFailures        \* bound: server writes that return an error

\* A file: the layout in its xpn_metadata, how many processes have it open, whether
\* their workers are threads (XPN_THREAD), and the bounds on its bytes and on the
\* servers a client marks in error.
IsInstance(i) ==
    /\ i.block_size \in Nat \ {0} /\ i.data_nserv \in Nat \ {0}
    /\ i.replication_level \in 0..(i.data_nserv - 1)
    /\ i.first_node \in 0..(i.data_nserv - 1)
    /\ i.clients \in Nat \ {0} /\ i.threads \in BOOLEAN /\ i.max_size \in Nat /\ i.max_errors \in Nat

ASSUME StripedFileAssumption ==
    /\ \A i \in Instances : IsInstance(i)
    /\ MaxWrites \in Nat /\ MaxFailures \in Nat

VARIABLES
    file,       \* the instance; it never changes
    disk,       \* the data file of each server, after its header
    mdata,      \* file_size in the metadata file of each server
    error,      \* for each client the servers with error = -1
    fd,         \* offset and cached mdata->file_size of each open file
    op,         \* the write each client is in, see NoOp
    pending,    \* for each client the servers whose update of file_size it left running
    disturbed,  \* a client used a worker, or freed a buffer, that was in use
    writes, failures,
    ended,      \* history: the writes that are over
    content     \* history: the values each byte of the file may have

cvars == <<file, disk, mdata, op, pending, writes, failures, ended, content>>
vars == <<cvars, error, fd, disturbed>>

BlockSize == file.block_size
ReplicationLevel == file.replication_level
NServ == file.data_nserv
FirstNode == file.first_node
MaxSize == file.max_size

Clients == 1..file.clients
Servers == 0..(NServ - 1)
Offsets == 0..MaxSize
Replicas == 0..ReplicationLevel

\* Byte k of write w; 0 is a byte that was never written, Garbage an
\* uninitialised byte of a buffer.
ByteOf(w, k) == w * (MaxSize + 1) + k
WriteOf(v) == v \div (MaxSize + 1)
Garbage == -1

NoOp == [kind |-> "none", at |-> 0, size |-> 0, id |-> 0, todo |-> {},
         count |-> 0, res |-> -1, err |-> FALSE, old |-> {}]

Init ==
    /\ file \in Instances
    /\ disk = [s \in Servers |-> <<>>]
    /\ mdata = [s \in Servers |-> 0]
    /\ error = [c \in Clients |-> {}]
    /\ fd = [c \in Clients |-> [offset |-> 0, file_size |-> 0]]
    /\ op = [c \in Clients |-> NoOp]
    /\ pending = [c \in Clients |-> {}] /\ disturbed = FALSE
    /\ writes = 0 /\ failures = 0 /\ ended = {0}
    /\ content = [b \in 0..(MaxSize - 1) |-> {0}]

-----------------------------------------------------------------------------
(* Splitting a request into blocks, and a server's file *)

Block(offset, replica) ==
    CalculateBlock(BlockSize, ReplicationLevel, NServ, offset, replica, FirstNode)

\* How many bytes of the request at offset, up to end, are in the block of offset.
PieceSize(offset, end) ==
    LET rest == BlockSize - (offset % BlockSize)
    IN  IF end - offset < rest THEN end - offset ELSE rest

\* The pieces, one for each block, of the request of size bytes at offset.
Pieces(offset, size) ==
    LET first == offset \div BlockSize
        last == (offset + size - 1) \div BlockSize
        StartOf(b) == IF b = first THEN offset ELSE b * BlockSize
    IN  [i \in 1..(last - first + 1) |->
            [at |-> StartOf(first + i - 1), pos |-> StartOf(first + i - 1) - offset,
             size |-> PieceSize(StartOf(first + i - 1), offset + size)]]

\* The row of server s in the operation matrix of XpnWriteBlocksBlockByBlock.
WriteRow(offset, size, s) ==
    LET pieces == Pieces(offset, size)
        n == ReplicationLevel + 1
        Entry(k) == [piece |-> pieces[((k - 1) \div n) + 1], replica |-> (k - 1) % n]
        InServer(e) == Block(e.piece.at, e.replica).serv = s
    IN  SelectSeq([k \in 1..(Len(pieces) * n) |-> Entry(k)], InServer)

\* XpnWriteBlocksAllInOne: the row becomes one run of bytes, sent to the place
\* of its first block.  RunPlaceAligned forgets the offset inside the block.
RunBytes(row, w) ==
    FlattenSeq([i \in 1..Len(row) |->
        [k \in 1..row[i].piece.size |-> ByteOf(w, row[i].piece.pos + k - 1)]])
RunPlaceAligned(row) ==
    LET at == Block(row[1].piece.at, row[1].replica).local_offset IN at - (at % BlockSize)
RunPlace(row) == Block(row[1].piece.at, row[1].replica).local_offset

\* A write to a file of a server; a gap reads as zeros.
WriteAt(data, at, bytes) ==
    [i \in 1..(IF at + Len(bytes) > Len(data) THEN at + Len(bytes) ELSE Len(data)) |->
        IF i > at /\ i <= at + Len(bytes) THEN bytes[i - at]
        ELSE IF i <= Len(data) THEN data[i] ELSE 0]

\* A read returns what there is.
ReadAt(data, at, size) ==
    SubSeq(data, at + 1, IF at + size > Len(data) THEN Len(data) ELSE at + size)

\* The servers that keep the metadata, the master and the next ones, and those of them
\* whose answer XpnUpdateMetadata waits for.
MdataServer(i) == (FirstNode + i) % NServ
MdataServers == {MdataServer(i) : i \in Replicas}
WaitedServers == {MdataServer(i) : i \in 0..(ReplicationLevel - 1)}

\* A client has one worker for each server, with one place for arguments: a new
\* operation of a server whose update is still running is undefined.
Uses(c, servers) == disturbed' = (disturbed \/ pending[c] \cap servers # {})

\* Without threads a worker's operation is done when it is launched.
InTurn(c, s, place) == file.threads \/ \A r \in op[c].todo : place[s] <= place[r]

-----------------------------------------------------------------------------
(* History: a write may be seen from its begin, and is what is seen when it  *)
(* returns, unless another write went on at the same time.                   *)

MayBeSeen(offset, size, w) ==
    [b \in DOMAIN content |->
        IF b \in offset..(offset + size - 1)
        THEN content[b] \cup {ByteOf(w, b - offset)} ELSE content[b]]

IsSeen(o, count) ==
    [b \in DOMAIN content |->
        IF b \in o.at..(o.at + count - 1)
        THEN {v \in content[b] : WriteOf(v) \notin o.old} ELSE content[b]]

-----------------------------------------------------------------------------
(* xpn_simple_write *)

\* The write is parallel if it fills a block or has replicas.
IsParallel(size) == size >= BlockSize \/ ReplicationLevel > 0

WriteBegins(c, size) ==
    /\ op[c].kind = "none" /\ writes < MaxWrites /\ fd[c].offset + size <= MaxSize
    /\ writes' = writes + 1
    /\ op' = [op EXCEPT ![c] =
         [NoOp EXCEPT !.kind = IF IsParallel(size) THEN "pwrite" ELSE "swrite",
                      !.at = fd[c].offset, !.size = size, !.id = writes + 1,
                      !.todo = IF IsParallel(size)
                               THEN {s \in Servers : WriteRow(fd[c].offset, size, s) # <<>>}
                               ELSE {},
                      !.old = ended]]
    /\ content' = MayBeSeen(fd[c].offset, size, writes + 1)
    /\ Uses(c, op'[c].todo)
    /\ UNCHANGED <<file, disk, mdata, error, fd, pending, failures, ended>>

\* The write of one server in xpn_pwrite: nothing for a server in error.
ServerWrites(c, s) ==
    /\ op[c].kind = "pwrite" /\ s \in op[c].todo /\ InTurn(c, s, [x \in Servers |-> x])
    /\ LET row == WriteRow(op[c].at, op[c].size, s)
       IN  disk' = IF s \in error[c] THEN disk
                   ELSE [disk EXCEPT ![s] = WriteAt(@, RunPlace(row), RunBytes(row, op[c].id))]
    /\ op' = [op EXCEPT ![c].todo = @ \ {s}]
    /\ UNCHANGED <<file, mdata, error, fd, pending, disturbed, writes, failures, ended, content>>

ServerWriteFails(c, s) ==
    /\ op[c].kind = "pwrite" /\ s \in op[c].todo \ error[c] /\ failures < MaxFailures
    /\ InTurn(c, s, [x \in Servers |-> x])
    /\ failures' = failures + 1
    /\ op' = [op EXCEPT ![c].todo = @ \ {s}, ![c].err = TRUE]
    /\ UNCHANGED <<file, disk, mdata, error, fd, pending, disturbed, writes, ended, content>>

\* file_size is updated, in the cache and on the servers, if the write made
\* the file longer; otherwise the call returns.  With threads the update of the last
\* server is left running.
Grows(c, offset) == offset > fd[c].file_size

WriteReturns(c, count) ==
    LET offset == fd[c].offset + count
        grows == count > 0 /\ Grows(c, offset)
        waited == IF file.threads THEN WaitedServers ELSE MdataServers
    IN  /\ fd' = [fd EXCEPT ![c] =
             [offset |-> IF count > 0 THEN offset ELSE @.offset,
              file_size |-> IF grows THEN offset ELSE @.file_size]]
        /\ op' = [op EXCEPT ![c] =
             IF grows /\ waited # {}
             THEN [op[c] EXCEPT !.kind = "mdata", !.todo = waited, !.count = count]
             ELSE NoOp]
        /\ pending' = IF grows THEN [pending EXCEPT ![c] = @ \cup (MdataServers \ waited)] ELSE pending
        /\ Uses(c, IF grows THEN MdataServers ELSE {})
        /\ ended' = ended \cup {op[c].id}
        /\ content' = IsSeen(op[c], IF count > op[c].size THEN op[c].size ELSE count)

\* XpnWriteGetTotalBytes / (replication_level + 1) is the size of the request
\* when every server that is not in error wrote its run.
PwriteEnds(c) ==
    /\ op[c].kind = "pwrite" /\ op[c].todo = {}
    /\ WriteReturns(c, IF op[c].err THEN -1 ELSE op[c].size)
    /\ UNCHANGED <<file, disk, mdata, error, writes, failures>>

\* One turn of the loop of xpn_swrite (replication level 0, less than a block).
\* A server in error is skipped and the previous res is counted again.
SwriteTurn(c) ==
    LET o == op[c]
        at == o.at + o.count
        where == Block(at, 0)
        size == PieceSize(at, o.at + o.size)
        bytes == [k \in 1..size |-> ByteOf(o.id, o.count + k - 1)]
        skipped == where.serv \in error[c]
        res == IF skipped THEN o.res ELSE size
    IN  /\ o.kind = "swrite" /\ o.count < o.size /\ ~o.err
        /\ disk' = IF skipped THEN disk
                   ELSE [disk EXCEPT ![where.serv] = WriteAt(@, where.local_offset, bytes)]
        /\ op' = [op EXCEPT ![c].count = @ + res, ![c].res = res, ![c].err = res <= 0]
        /\ Uses(c, {where.serv} \ error[c])
        /\ UNCHANGED <<file, mdata, error, fd, pending, writes, failures, ended, content>>

SwriteFails(c) ==
    /\ op[c].kind = "swrite" /\ op[c].count < op[c].size /\ ~op[c].err
    /\ failures < MaxFailures
    /\ Block(op[c].at + op[c].count, 0).serv \notin error[c]
    /\ failures' = failures + 1
    /\ op' = [op EXCEPT ![c].err = TRUE, ![c].count = IF @ = 0 THEN -1 ELSE @]
    /\ Uses(c, {Block(op[c].at + op[c].count, 0).serv})
    /\ UNCHANGED <<file, disk, mdata, error, fd, pending, writes, ended, content>>

SwriteEnds(c) ==
    /\ op[c].kind = "swrite" /\ (op[c].count >= op[c].size \/ op[c].err)
    /\ WriteReturns(c, op[c].count)
    /\ UNCHANGED <<file, disk, mdata, error, writes, failures>>

\* XpnGetFh fails for server s: both forms give up at once and return -1, whatever was
\* written before.  xpn_pwrite has launched the writes to the servers before s, and frees
\* the buffers of those that still run.
GetFhFails(c, s) ==
    LET o == op[c]
        running == {r \in o.todo : r < s}
    IN  /\ failures < MaxFailures /\ s \notin error[c]
        /\ \/ /\ o.kind = "pwrite" /\ s \in o.todo
              /\ \A r \in Servers : r > s /\ WriteRow(o.at, o.size, r) # <<>> => r \in o.todo
              /\ running = {} \/ file.threads
           \/ /\ o.kind = "swrite" /\ ~o.err /\ o.count < o.size
              /\ s = Block(o.at + o.count, 0).serv
        /\ failures' = failures + 1
        /\ op' = [op EXCEPT ![c].todo = {}, ![c].err = TRUE, ![c].count = -1]
        /\ disturbed' = (disturbed \/ running # {} \/ s \in pending[c])
        /\ UNCHANGED <<file, disk, mdata, error, fd, pending, writes, ended, content>>

\* XpnUpdateMetadata(only_file_size) on one server, whose handler,
\* xpn_server_op_write_mdata_file_size, lets file_size only grow.
FileSizeStored(old, new) == IF old < new THEN new ELSE old

\* The update is over: the last one a client waits for ends its call.
MdataDone(c, s) ==
    /\ \/ /\ s \in pending[c]
          /\ pending' = [pending EXCEPT ![c] = @ \ {s}] /\ UNCHANGED op
       \/ /\ op[c].kind = "mdata" /\ s \in op[c].todo
          /\ InTurn(c, s, [x \in Servers |-> (x - FirstNode) % NServ])
          /\ op' = [op EXCEPT ![c] = IF op[c].todo = {s} THEN NoOp
                                     ELSE [op[c] EXCEPT !.todo = @ \ {s}]]
          /\ UNCHANGED pending
    /\ UNCHANGED <<file, disk, error, fd, disturbed, writes, ended, content>>

MdataWritten(c, s) ==
    /\ MdataDone(c, s)
    /\ mdata' = IF s \in error[c] THEN mdata
                ELSE [mdata EXCEPT ![s] = FileSizeStored(@, fd[c].file_size)]
    /\ UNCHANGED failures

\* xpn_write does not look at the result.
MdataFails(c, s) ==
    /\ failures < MaxFailures /\ s \notin error[c]
    /\ MdataDone(c, s)
    /\ failures' = failures + 1
    /\ UNCHANGED mdata

-----------------------------------------------------------------------------
(* xpn_simple_read *)

\* XpnReadGetBlock: any replica on a server that is not in error, and an
\* arbitrary one if there is none.  ReadReplicasAny does not look at error.
ReadReplicasAny(c, offset) == Replicas
ReadReplicas(c, offset) ==
    LET live == {r \in Replicas : Block(offset, r).serv \notin error[c]}
    IN  IF live = {} THEN Replicas ELSE live

\* What the server of the chosen replica returns for a piece; a server in error
\* returns nothing.
PieceRead(c, piece, replica) ==
    LET where == Block(piece.at, replica)
    IN  IF where.serv \in error[c] THEN <<>>
        ELSE ReadAt(disk[where.serv], where.local_offset, piece.size)

\* xpn_pread: the pieces are read independently, each to its place in the
\* buffer, and the result is the sum of what the servers returned.
PreadResult(c, pieces, choice) ==
    LET part == [i \in 1..Len(pieces) |-> PieceRead(c, pieces[i], choice[i])]
    IN  [total |-> FoldLeft(LAMBDA n, b : n + Len(b), 0, part),
         data |-> FlattenSeq([i \in 1..Len(pieces) |->
                     [k \in 1..pieces[i].size |->
                         IF k <= Len(part[i]) THEN part[i][k] ELSE Garbage]]),
         moved |-> TRUE,
         from |-> {Block(pieces[i].at, choice[i]).serv : i \in 1..Len(pieces)}]

\* xpn_sread: the pieces are read in turn until one is short; nfi_read fails on
\* a server in error, which is disconnected, and then the offset stays.
SreadResult(c, pieces, choice) ==
    LET part == [i \in 1..Len(pieces) |-> PieceRead(c, pieces[i], choice[i])]
        serv == [i \in 1..Len(pieces) |-> Block(pieces[i].at, choice[i]).serv]
        Whole(i) == Len(part[i]) = pieces[i].size
        used == {i \in 1..Len(pieces) : \A j \in 1..(i - 1) : Whole(j)}
        data == FlattenSeq([i \in 1..Cardinality(used) |-> part[i]])
    IN  [total |-> IF serv[1] \in error[c] THEN -1 ELSE Len(data), data |-> data,
         moved |-> \A i \in used : serv[i] \notin error[c],
         from |-> {serv[i] : i \in used}]

ReadResult(c, size, choice) ==
    LET pieces == Pieces(fd[c].offset, size)
    IN  IF size > BlockSize THEN PreadResult(c, pieces, choice)
        ELSE SreadResult(c, pieces, choice)

\* The results the choices of XpnReadGetBlock can lead to.
ReadResults(c, size) ==
    LET pieces == Pieces(fd[c].offset, size)
        allowed == {choice \in [1..Len(pieces) -> Replicas] :
                      \A i \in 1..Len(pieces) : choice[i] \in ReadReplicas(c, pieces[i].at)}
    IN  {ReadResult(c, size, choice) : choice \in allowed}

Read(c, size) ==
    /\ op[c].kind = "none"
    /\ \E r \in ReadResults(c, size) :
         /\ fd' = [fd EXCEPT ![c].offset = IF r.total > 0 /\ r.moved THEN @ + r.total ELSE @]
         /\ Uses(c, r.from)
    /\ UNCHANGED <<cvars, error>>

-----------------------------------------------------------------------------
(* xpn_simple_lseek and xpn_mark_error_server *)

\* SEEK_SET, and SEEK_CUR and SEEK_END with the offset that comes to the same.
Lseek(c, offset) ==
    /\ op[c].kind = "none" /\ offset # fd[c].offset
    /\ fd' = [fd EXCEPT ![c].offset = offset]
    /\ UNCHANGED <<cvars, error, disturbed>>

\* Any thread of the client may call it at any time: it does not take the API lock.
MarkErrorServer(c, s) ==
    /\ s \notin error[c] /\ Cardinality(error[c]) < file.max_errors
    /\ error' = [error EXCEPT ![c] = @ \cup {s}]
    /\ UNCHANGED <<cvars, fd, disturbed>>

-----------------------------------------------------------------------------
ClientNext(c) ==
    \/ \E size \in 1..MaxSize : WriteBegins(c, size) \/ Read(c, size)
    \/ \E s \in Servers : \/ ServerWrites(c, s) \/ ServerWriteFails(c, s)
                          \/ GetFhFails(c, s) \/ MdataWritten(c, s) \/ MdataFails(c, s)
                          \/ MarkErrorServer(c, s)
    \/ PwriteEnds(c) \/ SwriteTurn(c) \/ SwriteFails(c) \/ SwriteEnds(c)
    \/ \E offset \in Offsets : Lseek(c, offset)

Next == \E c \in Clients : ClientNext(c)

Spec == Init /\ [][Next]_vars

-----------------------------------------------------------------------------
(* Properties *)

Bytes == 0..((MaxWrites + 1) * (MaxSize + 1))

InError == UNION {error[c] : c \in Clients}

StoredByte(s, local) == IF local < Len(disk[s]) THEN disk[s][local + 1] ELSE 0

\* Every replica that is not on a server in error holds a value that the byte
\* may have after the writes of all clients, so that after a write has returned
\* any replica serves it: XpnWriteBlocksAllInOne may send the blocks of a server
\* as one run and XpnReadGetBlock may choose any replica.
ReplicasHoldContent ==
    \A b \in DOMAIN content : \A r \in Replicas :
        LET where == Block(b, r)
        IN  where.serv \notin InError => StoredByte(where.serv, where.local_offset) \in content[b]

\* The end of the file as the writes that returned left it.
EndOfFile ==
    LET bytes == {b \in DOMAIN content : content[b] # {0}}
    IN  IF bytes = {} THEN 0 ELSE (CHOOSE b \in bytes : \A x \in bytes : x <= b) + 1

\* A good server for byte b.
Served(b, bad) == \E r \in Replicas : Block(b, r).serv \notin bad

\* When every client is idle and no write failed or lost a block, every metadata server that is
\* not in error knows the end of the file, but for one whose update XpnUpdateMetadata did
\* not wait for, although each client has its own, possibly stale, mdata->file_size and
\* the updates of two clients may arrive in any order
\* (xpn_server_op_write_mdata_file_size lets the size only grow).
FileSizeIsKnown ==
    (\A c \in Clients : op[c].kind = "none") /\ failures = 0 /\ (\A b \in DOMAIN content : Served(b, InError)) =>
        \A s \in MdataServers \ InError :
            (\A c \in Clients : s \notin pending[c]) => mdata[s] = EndOfFile

\* The servers store the file: its bytes in every replica, and its size, as long as no
\* client uses a worker whose last operation it did not wait for.
ServersStoreTheFile == ~disturbed => ReplicasHoldContent /\ FileSizeIsKnown

\* No byte before the end of the file was left out.
NoHoles == \A b \in 0..(EndOfFile - 1) : 0 \notin content[b]

\* Client c can read: it is in no call, and has a good server for each of the blocks.
Reads(c, size) ==
    /\ op[c].kind = "none" /\ pending[c] = {}
    /\ \A k \in 0..(size - 1) : Served(fd[c].offset + k, error[c])

\* A read of a file without holes returns bytes of the file, in order, from the
\* offset on, and as many as there are, whichever replicas serve the read and whichever
\* server is in error: what test/performance/xpn-fault-tolerant/
\* rnd-write-read-cmp.c compares.
ReadReturnsContent ==
    ~disturbed /\ NoHoles =>
        \A c \in Clients, size \in 1..MaxSize : Reads(c, size) =>
            \A r \in ReadResults(c, size) :
                /\ \A k \in 1..r.total : k <= Len(r.data) /\ r.data[k] \in content[fd[c].offset + k - 1]
                /\ fd[c].offset + size <= EndOfFile => r.total = size

=============================================================================
