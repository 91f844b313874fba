# A verification project for Expand (XPN)

TLA+ modules that model the core of the Expand ad-hoc parallel file system, the
TLC runs that check them on small instances, and theorems that TLAPS proves for
every instance. Paths below are those of the repository; the code is C, in
`src/src` and `src/include` as seen from here.

XPN spreads every file over several I/O servers. A client process calls
`xpn_open`, `xpn_read`, `xpn_write`, ...; the library cuts a request into one
operation per server, runs the operations in worker threads, and each of them
talks to one `xpn_server` through a connection (sockets or MPI). A file may have
replicas; a client that finds a server in error goes on with the others.

## 1. Inventory

### Components, their state and their operations

| Component | Source | State | Operations | Module |
|---|---|---|---|---|
| Thread pool | `base/workers_pool.c` | ring `operations_buffer` with `enq_pos`, `deq_pos`, `n_operation`; `pool_end`; one mutex, two conditions; `r_wait` of each launch | init, enqueue, dequeue, wait, destroy, thread body | `WorkersPool`, `TaskQueue`, `WorkersPoolProofs` |
| Worker threads on demand | `base/workers_ondemand.c` | `busy_worker`, `n_workers`, two conditions | init, launch, wait, destroy, thread body | `WorkersOnDemand`, `WorkersOnDemandProofs` |
| Worker front end | `base/workers.c` | the mode: no threads, on demand, pool | dispatch to one of the above | both, and `NfiWorker` |
| Block layout and policy | `xpn_client/xpn/xpn_simple/policy/xpn_policy_rw.c` | none | `XpnCalculateBlock`, its inverse, the form for changed files, read and write matrices, choice of a replica | `BlockLayout`, `MovementProofs`, `Malleability`, `StripedFile` |
| Client read and write | `xpncore/xpn_rw.c` | offset and cached `file_size` of a descriptor | `xpn_sread`, `xpn_pread`, `xpn_swrite`, `xpn_pwrite`, `lseek` | `StripedFile` |
| File metadata | `xpncore/xpn_metadata.c`, `xpn_server_ops.c` | `file_size` and layout in the header of the file on the metadata servers | create, read, update | `StripedFile`, `NfiWorker`, `Namespace` |
| Name space | `xpncore/xpn_open.c`, `xpn_dir.c`, `xpn_stat.c`, `policy/*.c` | the pieces of every name on every server | create, open, unlink, rename, mkdir, rmdir, stat, readdir | `Namespace` |
| Local access | `nfi/nfi_local/nfi_local.c` | descriptors and streams of the own process | the operations of a server on a directory of the own node | `Namespace`, `FileTable` |
| NFI workers | `nfi/common/nfi_worker.c`, `nfi_ops.c` | one `struct nfi_worker` per server: `arg`, `warg`, `r_wait` | launch, wait, the operation itself | `NfiWorker`, `NfiProofs` |
| Socket protocol | `nfi/nfi_xpn_server/*.c`, `base/socket.c` | a connection, kept or made for each call | fifteen request functions, connect, disconnect | `ServerSession`, `NfiProofs` |
| xpn_server operations and dispatchers | `xpn_server/xpn_server.c`, `xpn_server_ops.c` | the connection of each dispatcher, the operation being read | two dispatchers, one handler per operation | `ServerSession` |
| Server start and stop | `xpn_server/xpn_server.c`, the `comm` modules of sockets and MPI, `xpn_init.c` | accept loop, control and data connections, dispatchers, the stop request | start, accept, connect, disconnect, `xpn_server_down`, `xpn_terminate_server` | `ServerLifecycle`, `ServerLifecycleProofs` |
| File table | `xpncore/xpn_file.c`, `xpn_open.c`, `xpn_dir.c`, `xpn_policy_open.c`, `xpn_init.c` | `xpn_file_table`, `links`, the handle of every server | open, close, opendir, readdir, closedir, dup, dup2, lazy opens, init, destroy | `FileTable`, `FileTableProofs` |
| Bypass | `bypass/xpn_bypass.c` | `fdstable`, `fdsdirtable`, the mark that the API was started | some sixty wrappers of libc and MPI calls | `Bypass`, `BypassProofs` |
| Proxy | `xpn_proxy/*.c` | queue of connections, `do_exit`, one mutex and one condition, the handles opened for clients | thirteen calls, accept loop, workers, SIGINT | `Proxy`, `ProxyProofs` |
| Malleability | `utils/xpn_expand.c`, `xpn_shrink.c`, `XpnCalculateBlockMdata` | `data_nserv[]`, `offsets[]` of the metadata | expand, shrink | `Malleability`, `Movement`, `MovementProofs` |
| Data movement utilities | `utils/xpn_preload.c`, `xpn_flush.c`, `xpn_rebuild*.c`, and the two above | the files of the servers, messages between ranks, the place of each rank in the walk | copy of a file, walk over the tree, tables of ranks | `Movement`, `MovementProofs`, `TreeWalk` |
| NFS, message queue mode, command-line tools, connectors | `nfi_nfs*`, `mq_server_*.c`, `utils/xpn-*.c`, `connector_*` | see section 8 | | not modelled |

### How they interact

* The API functions take one lock of the process (`XPN_API_LOCK`), so one call at
  a time runs in a client process. `xpn_mark_error_server` does not take it.
* A call launches `nfi_worker_do_xxx` for each server concerned and collects the
  results with `nfiworker_wait`. The launch goes to the pool, to a new thread, or
  is done at once, according to `XPN_THREAD`.
* An NFI operation is a conversation with one server over a byte stream without
  frames: each side knows by heart how many bytes the other one sends.
* Client processes share nothing but the files of the servers. Each has its own
  cached `file_size` and its own view of the servers in error.
* The server runs the operation in the dispatcher's thread (sockets) or in worker
  threads launched by the dispatcher (MPI). One thread accepts all clients, and
  without threads it is itself the dispatcher of the client it accepted.
* A preloaded program calls the API through the tables of the bypass, which have no
  lock of their own. A program without Expand sends its calls to a proxy, which
  makes them in its stead.
* The MPI utilities work on the files of the servers directly, with no server
  running. Their ranks meet in broadcasts and barriers, and those of shrink and of
  the rebuild variants exchange blocks.

### What is hard

Wake-ups on condition variables shared by several threads; memory of a launcher
that threads read after it moved on; a `struct nfi_worker` shared by successive
operations; writes of one call reaching the servers in any order, and of two
clients interleaved; servers going into error in the middle of a call; ends of
streams and refused requests in the middle of a conversation; tables that fill
up; descriptors that share an open file; names whose pieces are on servers that
different calls compute differently; clients and servers that connect, work and stop
while others do; ranks that must make the same collective calls without seeing each
other; blocks that stay, move or are dealt anew when the set of servers changes. `PROJECT.json` lists each of these
hazards at its line, with the properties that look after it, or the reason why
none does.

## 2. Modules and how they correspond to the code

Every definition that models code is listed with its lines in `PROJECT.json`
under `map`. Names follow the source where TLA+ permits. Definitions with a name
such as `RingFullOffByOne`, next to the one they vary (`RingFull`), are wrong on
purpose: they are the mutants by which each property was shown to be sensitive to
the code it is about. No specification uses them.

**`WorkersPool`**. One action per critical section of `m_pool`: `LaunchBlocks` and
`LaunchStores` are the two outcomes of the loop in `worker_pool_enqueue`,
`DequeueBlocks` and `DequeueTakes` those of `worker_pool_dequeue`, `Execute` and
`Notify` the body of a worker, `WaitReturns` is `worker_pool_wait`, and the
`Destroy...` actions are `worker_pool_destroy`. A condition variable is the set
of the threads asleep on it; a signal takes one member out, a broadcast all,
`SpuriousWakeup` any. A thread out of the set tests its condition again, as the
loops of the code do. Launchers may or may not ask to wait (`wait4me`).

**`TaskQueue`** is the abstract specification of the pool: a bounded queue that is
first in, first out, never loses or repeats an operation while it is open, and
discards what is left after it was closed. `WorkersPool!ImplementsTaskQueue`
instantiates it: the queue is the part of the ring from `deq_pos` on, what was
started is what workers hold or have executed, closed is `pool_end`.

**`WorkersOnDemand`**. `LaunchBegins` sets `busy_worker`, `ThreadCreated` and
`CreateFails` are the outcomes of `pthread_create`, `HandshakeBlocks` and
`LaunchReturns` the wait for the copy of the arguments; `Prolog`, `Function`,
`Notify` and `Epilog` are the thread. The thread reads `th_arg` of its launcher
at its prolog, whatever is in it then.

**`BlockLayout`** has `XpnCalculateBlock` and `XpnCalculateBlockInvert` as pure
operators, the remainder with the sign of C included.

**`StripedFile`** is one file on its servers and the clients that have it open.
`disk` is the data of each server, byte by byte; a byte is identified by the
write it comes from and its index in it. `content` is what each byte of the file
may be: the value of the last write, and those of writes not finished yet.
A parallel write is `WriteBegins`, one `ServerWrites` for each server in any
order, `PwriteEnds`, and the steps of `XpnUpdateMetadata`; a serial
one is a sequence of `SwriteTurn`. `XpnUpdateMetadata` sends the size to one server more
than the replication level and waits for as many as the level (`xpn_metadata.c:152`):
with threads the last update is left running (`pending`) and lands at any later time,
without threads it is done before the call goes on. An update may fail (`MdataFails`),
and so may the handle of a server a write still needs (`GetFhFails`), with the writes of
the other servers left running. `disturbed` says that a client used a worker whose last
operation it did not wait for, or gave back the buffers of writes that still run; the
properties end there, and `NfiWorker` has what follows. `Read` evaluates the whole of
`xpn_sread` or `xpn_pread`, replicas chosen as `XpnReadGetBlock` does, in one step.

**`NfiWorker`** is the side of a call that `StripedFile` leaves out: the loops that
launch and wait, the one `arg` and `warg` per server, the thread that gets a copy
of `warg` and a pointer to `arg` (`TaskStarts`, `TaskRuns`, `TaskNotifies`), and
what happens if a server goes into error, or `XpnGetFh` fails, between the two
loops.

**`ServerSession`** is the conversation. The tables `ClientFunctions` and `Handler`
write down the shape of each request twice, once from `nfi_xpn_server.c` and once
from `xpn_server_ops.c`: paths, data, and the struct of the answer. `Send`,
`ReceiveStatus` and `ReceiveRead` are the client; `ReadOperation`, `ReadHead`,
`ReadTail`, `Plain`, `OpenFile`, `ReadPiece`, `WritePiece` and their failures are
the server. `keep` is `XPN_CONNECTED`. Either side may die at any point; an end of
the stream is a read of 0 bytes, and what each function makes of it is taken from
that function.

**`FileTable`** has `xpn_file_table` and the structs it points to. A call is one
step because of the API lock. `FreeSlot` is the search of `XpnSearchSlotFile`,
which settles for the last entry when the table is full; `Close` clears only the
entry of the last descriptor; `Destroy` frees what the entries point to. Handles
are `null`, `open`, `zero` (cleared by `XpnGetFh`) or `raw` (allocated by
`xpn_internal_open` for a server that is in error and never filled in). `dirs` are the entries opened by `opendir`; `local` the servers on the own node, where
a handle costs the process a descriptor (`nfi_local_open`, `nfi_local_opendir`) and
every `nfi_local_readdir` opens a stream of its own, the last of which stays
(`streams`). `XPN_SESSION_FILE` and `XPN_SESSION_DIR` say whether handles hold
something open at all. A call that touches freed or uninitialised memory ends the
behaviour with `broken = TRUE`. History variables: `held` (the file the caller was
given with a descriptor) and `fault` (whether the table overflowed or an open gave up
half way).

**`Namespace`** has the pieces of every name on every server (`disk`) and what the
clients were told (`fs`). A call is the look-up of the metadata, one `Serve` for each
server that `XpnCheckServAffectedByOp` or its loop selects, one request of the
metadata update for each copy, and a return; requests of two clients interleave. The
effect of a request is one operator per handler (`xpn_server_op_open`, ...) and one
per function of `nfi_local.c` for a server on the clients' node; the two differ in
what they call an error. `error` is the set of servers a client has marked. `murky`
holds the names of which the code promises nothing: those of a call that failed half
way or of which the client did not hear (`remove` and `rename` return 0 whatever the
server answers, `nfi_xpn_server.c:1190`), those that two calls changed at once, and those
changed in a directory of which nothing is promised. A `mkdir` that failed leaves only the
directory in doubt, and another one that succeeds makes up for it, since a server that has
the directory answers EEXIST and the client takes that for success. A creation whose
metadata do not reach a server it waits for returns the error (`xpn_open.c:319`).
`hops` counts renames: `rename` asks the servers of the old name, so the new one may
have no piece on the server its own directory hashes to.

**`Bypass`** has every wrapper as its steps: one for each access to a table and one
for each call of the API, since the tables have no lock and the API releases its own.
An insertion is `fdstable_search` and `fdstable_put`; `pread` and `pwrite` are three calls; `closedir`
passes on the number of its entry as if it were the API's descriptor, which is right
as long as both tables give out the same number. `xpn_adaptor_keepInit` is five steps
(`stage`): it tests `xpn_adaptor_initCalled`, sets it, makes the two tables and starts the
API, without a lock, so that another thread may find the mark set and use an API that is
still being started. `flags` records that the program left what the library can do:
`mixed` (two threads open or close at once), `overtaken` (a thread used the API during
another one's start), `many` (the kernel gave out a descriptor that the library takes for
one of its own, `PLUSXPN` or above), `dup`, `full`, `wild` (the entry after a table that
grew), `finalized` and so on.

**`Proxy`** has the main thread (`accept`, the queue), the workers with each request
type, and the clients, with what each side sends and awaits (`status`, structures,
data) taken from its own source file; `told` compares what a call returned with what
the API answered to its request. A client may die at any point; the proxy then meets
SIGPIPE or the end of the stream where its code does.

**`Malleability`** reads and extends the list of reconfigurations of a file:
`CalculateBlockMdata` is `XpnCalculateBlockMdata` with positive and negative
entries, `ExpandMetadata` and `ShrinkMetadata` what the two utilities write.
**`Movement`** runs `copy()` of the seven programs on one file. Byte `k` is the
number `k`, so that a byte in the wrong place is seen. Preload, expand and flush are
one step for each rank's loop; the ranks of shrink and of the rebuild variants are
processes with channels, and a send of a whole block is a rendezvous.
`beyond` marks what the utilities do not handle: an expansion when the last, partial
block begins a round (`SplitsRound`) or after a shrink, a shrink of a file with a
short last block or with earlier changes or one that leaves no server of the file, a rebuild of a file with changes or with
another first node, and one of `xpn_rebuild_active_reader` with a short last block.

**`TreeWalk`** is what surrounds `copy()`: every rank has a stack of directories (`stack`) and
the collective operations it has yet to make for its entry (`ops`); `net` is the
sequence of those that some rank has entered, and what was broadcast in them. `torn` says that a rank
left the others' walk: the rank that reads a directory could not open it, or `copy()` of
`xpn_flush` returned on one rank before a collective the others are in (`CopyFails`: an
allocation, `stat`, rank 0's `mkdir`, the open of the source, `xpn_flush.c:80` to `142`). `Walkable` excludes `xpn_rebuild` on trees with
sub-directories: there only the reading rank goes down (`xpn_rebuild.c:377`), the
others take the end of the sub-directory for the end of its parent, and the walk
hangs.

**`ServerLifecycle`** has the accept loop of every server, its dispatchers, the
control and data connections, the clients that go through all servers, and the
program that stops them. A mode is sockets or MPI, with or without threads, kept
connections or not, and one of three ways to stop. With MPI the clients are the ranks
of one job, and connecting is a step of all of them together with the server.
`Start` and `StartFails` are the start of a server. `BlocksLoop`, `BlocksStop` and
`CutOff` name the clients whose death, or early leave, the code does not survive:
a client that dies after it asked for the port leaves the loop in `accept`
(`xpn_server.c:367`); the dispatcher of a client that died connected never ends;
rank 0 of a job sends its DISCONNECT before it waits for the others
(`nfi_mpi_server_comm.c:239`).

The modules `MC...` instantiate these for TLC. How they are composed: `StripedFile`
and `Malleability` are built on `BlockLayout`, `Movement` on `Malleability`;
`WorkersPool` is shown to implement `TaskQueue`. The others use what a neighbour
promises as an abstraction: `NfiWorker` has threads as `WorkersPool` and
`WorkersOnDemand` promise them (an operation that is launched runs once, with its own
`warg`, and its wait returns after it), `Namespace` has writes as `StripedFile`
does, `ServerLifecycle` operations as `ServerSession` does, `Bypass` the API's table
as `FileTable` does, and `TreeWalk` the copy of a file as `Movement` does.

## 3. The runs

| Run | Instance | What it shows |
|---|---|---|
| `pool` | 2 launchers with 2 launches each, 2 workers, a ring of 3 slots, the destroyer | No lost wake-up on either condition (`WorkersNotStranded`, `LaunchersNotStranded`); a wait returns only after its own operation, and destroy discards none that somebody waits for (`WaitersServed`); the ring implements `TaskQueue`; queued operations run, launchers return, and destroy ends if the ring has room for its finalize operations when it starts (`PoolGoesOn`). |
| `ondemand_one_launcher` | 1 launcher, 3 launches, 1 failed `pthread_create` | A launch returns only after its thread has the arguments, each function runs once with its own arguments, no thread outlives destroy (`LaunchHandsOver`); launch, wait and destroy return (`OnDemandGoesOn`), except the launch whose thread could not be created, which does not return in the code either. |
| `striped_file` | blocks of 2 bytes, 2 writes; a file with 2 copies on 3 servers, one of which may go into error at any time, and one client with threads (5 bytes); one without copies whose server may go into error (4 bytes); one that two clients write, without and with threads (3 bytes) | Every replica on a good server holds what was written, and the metadata servers know the end of the file when everybody is idle and no update is left, although each client decides by its own cached size and does not wait for all updates (`ServersStoreTheFile`); reads return the content, all of it (`ReadReturnsContent`). |
| `nfi_calls` | 3 servers, 2 calls, with and without threads, a metadata update, a mark, a failed `XpnGetFh` | Without these disturbances, and always without threads, each wait returns the result of its own operation and no thread is at work when a call is over (`CallGetsItsResults`); every call returns in any case (`CallReturns`). |
| `session` | 2 calls of any of the fifteen kinds, paths below, at and above `XPN_PATH_MAX` (2), data up to 3 bytes in pieces of 2, both connection modes, either side may die | Client and server agree on every byte (`InStep`); an answered call ran once, a write that reports success wrote everything, reads fit the buffer, a freed `comm` is not used (`CallsDoWhatTheySay`); calls return and connections closed in an orderly way are released (`SessionGoesOn`). |
| `file_table` | 3 entries, 3 opens, 2 duplicates, 2 servers, any of them on the own node, one of which may be in error | A descriptor stands for one open file until it is closed; files, handles and local descriptors are released with the last one (`DescriptorsOwnTheirFiles`); without duplicates, full table or server in error nothing freed is touched (`NoUseAfterFree`). |
| `bypass` | 2 threads, an API table of 3 entries, more than `PLUSXPN` (2) as in the code, bypass tables that begin with 2 and 1 and grow, 4 files, descriptors of the system, forks, execs and failed starts, a start overtaken by the other thread | A number leads to the file it was given for (`RoutesToOwnFile`); a closed directory is the one that was meant and nothing stays open unseen (`NothingLeftOpen`); positioned calls hit their offset (`PositionedAtOffset`); the API is started before it is used (`ApiStartedBeforeUse`), each with the exceptions its comment names. |
| `namespace` | 2 clients, 3 servers, 2 directories, 2 file names, 3 calls, 1 refused request; 2 copies on servers elsewhere, one of which may be in error, 1 or 3 copies with a server on the own node; and one file on 7 servers with 3 to 5 copies, 3 servers in error | A name that was created is where open and readdir look for it (`FoundAgain`), one that was removed is gone from all servers (`NothingLeft`), a directory is on all of them, also when a second `mkdir` made up for one that failed (`DirEverywhere`). `stat` reports the size from a copy (`StatFromReplica`) as long as the errors it meets do not carry its search beyond the copies: the k-th step is of k servers. |
| `proxy` | 2 workers, a client that makes all 13 calls and one that opens files, 2 calls, a death, a failed allocation and SIGINT at any point | A result is that of the one execution of the request (`ToldTheTruth`); handles are accounted for, and only a dead client or a failed `opendir` takes the proxy down (`DamageHasCause`); calls return and SIGINT ends the proxy (`ProxyGoesOn`), but for one between the test of `do_exit` and `accept`. |
| `movement` | a file of 1 to 10 bytes, blocks of 2, on 2 to 4 of 5 hosts, 1 or 2 replicas, 2 changes of the servers | Every replica is where `XpnCalculateBlockMdata` looks for it after every change and append (`BytesWhereComputed`); the metadata are where clients ask (`MasterHasMetadata`); at every moment every byte has a copy (`NoByteLost`); no rank waits for what never comes (`NobodyLeftWaiting`); what is rebuilt or flushed is the file (`CopyIsTheFile`). |
| `treewalk` | 3 ranks, the 7 utilities, a flat and a nested tree, a failing `opendir`, `stat` or call of `copy()` | The k-th collective calls of all ranks belong together (`WalksMeet`); all entries are copied by all ranks, directories before what is in them (`TreeCopied`), as long as nobody left the walk; readers and writers are different ranks, one for each server (`RolesSplit`); the walk ends (`WalkEnds`). |
| `lifecycle` | 2 clients or a job of 2 ranks, 2 servers, 6 modes, a death | An awaited stop is complete (`AwaitedStop`); no server ends under a connected client (`NoClientLeftBehind`); connections and calls get through (`ClientsGetThrough`); a server that was told to stop ends (`StopEnds`). |

### What the code does at the edges

The models contain what happens where the properties stop. Each of these is a
behaviour of a module, excepted by name in the property, and TLC shows it when the
exception is taken out:

* A worker that leaves because `pool_end` is set does not signal `c_pool_no_full`:
  `worker_pool_destroy` on a full ring sleeps for ever although the workers emptied
  slots (`workers_pool.c:182`).
* Two threads that launch on one `worker_ondemand_t` share `busy_worker`; one returns
  on the handshake of the other and may reuse its arguments before its thread read
  them (`workers_ondemand.c:130`; two `Launchers` in `MCWorkersOnDemand.cfg`).
* With every replica of a block on servers in error `XpnReadGetBlock` returns 0, and the
  read counts the bytes of the other blocks as the first bytes of the buffer
  (`xpn_policy_rw.c:384`; `max_errors` above the replication level).
* `XpnUpdateMetadata` launches on one server more than it waits for; the next call on
  that server overwrites `arg` under the running thread and returns with the end of the
  wrong operation (`xpn_metadata.c:152`).
* The dispatcher of kept connections takes the end of the stream for a request and runs
  the previous operation again on an uninitialised struct (`xpn_server.c:173`).
* A write that the server gives up leaves its data on the connection, where the
  dispatcher takes it for operations (`xpn_server_ops.c:457`).
* `closedir` of the bypass closes the wrong file after a `dup` (`xpn_bypass.c:402`); two
  threads that open at once get the same entry (`xpn_bypass.c:155`).
* A client that dies between the look-up of the port and the connection stops the
  accept loop for everybody (`xpn_server.c:367`).
* `xpn_rebuild` hangs on a tree with sub-directories (`xpn_rebuild.c:377`), `xpn_expand`
  aborts on one (`xpn_expand.c:147`).
* `xpn_adaptor_keepInit` sets its mark before it starts the API, so that a second thread
  calls an API that is not started, on tables that are not made (`xpn_bypass.c:516`).
* The search of `stat` over the copies takes steps of 1, 2, 3, ...: from the hash `h` it asks
  `h`, `h+1`, `h+3`, `h+6`, passes by copies and gets to servers without one
  (`xpn_policy_open.c:241`).
* A write that finds no handle of a server returns and frees its buffers while the writes
  of the other servers are running (`xpn_rw.c:483`).
* When rank 0 of `xpn_flush` cannot make a directory, or a rank cannot open the source,
  it returns from `copy()` and the others stay in the barrier
  (`xpn_flush.c:107` and `136`); so does a utility one rank of which cannot open a
  directory (`xpn_expand.c:183`).
* An expansion when the last, partial block begins a round makes that block unreadable
  (`xpn_expand.c:137`).

### Bounds, and why they are enough

Each bound is a constant of its module and appears in a guard. Two launchers and
two workers are the fewest that compete for a wake-up; three slots with four
launches and two finalize operations make the ring wrap, fill and refill. One
launcher is what the client (behind the API lock) and the first worker of the
server have. In `StripedFile` five bytes with blocks of two have a partial
first, a partial last and a whole block, and a server with two lines; two writes
are enough for overlap, for growth past a stale size, and for a write before and
after a server goes into error. In `ServerSession` two calls are what it takes for
the leftovers of one to be read by the next, and lengths 1 to 3 around
`PathMax = 2` and sizes 0 to 3 around `MaxBuffer = 2` are the boundary cases. In
`FileTable` opens and duplicates fill three entries, and two duplicates make one
file with three descriptors or two files with two.

In `Bypass` the API's table has three entries and four files may be open, so that it
fills up, while the smaller tables of the bypass grow before; `PLUSXPN` is smaller than the
API's table, as in the code (1000 and 1024), and the kernel gives out descriptors on both
sides of it; `MaxSize` 1 gives an offset that was moved and one that was not. In
`Namespace` the hashes put each name and each directory on different servers, and
three calls are a creation, a change and what makes the change visible. With two copies on
three servers the copies of a block do not begin where those of the block before end, so
that its place is not the one of a file without copies. The file on seven servers is there
because the fourth server that `stat` asks is the sixth after the hash, and has up to five
copies, so that three errors leave some. In `Movement`
the hashes 0, 1, 6 and 11 give every first node of two to four servers, lengths 1 and 4
a short and a whole last block, and two changes an expansion of an expanded file or a
shrink after it. In `TreeWalk` the names `n1` and `n10` contain one another, as
`strstr` sees them. In `ServerLifecycle` two servers and two clients are the fewest that
can wait for one another in a circle. In `Proxy` two workers compete for a queue of
connections, and the first client starts with an open file and directory or with
none, so that every call is legal as the first one.

State constraints cut off what is no longer of interest: `MCBypass` does not go on after a
program has left what the library can do, nor with two positioned calls on different
files or a moved offset beside a full table, nor with system descriptors beside more than one file; `MCStripedFile` does not go on once a
client is `disturbed`; `MCNamespace` has, on seven servers, the creation of one file and its growth
before servers are marked (`OneFileOnSeven`), and keeps two calls at once to names that meet, at most one name of which
nothing is promised, and creates files in one of the two directories (they get to
the other by renames); `MCMovement` stops at `beyond`. Properties are still checked in the
state in which a constraint first fails. `SYMMETRY` is used for the servers of
`FileTable`, the threads of `Bypass` and the clients of `Namespace`, whose runs have no
liveness property.

### Fairness

* Pool and on-demand workers: weak fairness of each thread for the steps it can
  take once it is in a call or in its loop. The scheduler runs threads that are
  ready, and a thread out of a condition's wait set gets the mutex in the end.
  Nobody is obliged to launch, to destroy, or to wake up spuriously. Launchers
  make finitely many launches, so nobody is starved by others for ever.
* `NfiWorker`: weak fairness of the call and of its threads, for the same reason.
* `ServerSession`: weak fairness of the steps of the client inside a call and of the
  server. TCP delivers what was sent, and an end of the stream is delivered. Nobody
  is obliged to make a call, and no death is obliged to happen.
* `Proxy`: weak fairness of the main thread, of every worker and of every client inside
  a call; strong fairness of a worker that wants `queue_mutex`, which others hold for
  a moment again and again.
* `TreeWalk`: weak fairness of every rank; a collective call returns when all are in it.
* `ServerLifecycle`: weak fairness of each server's loop, of each dispatcher and thread,
  of the collective MPI steps, of the stopping program, and of the clients, which
  includes that a program that uses the file system calls `xpn_destroy` in the end:
  without it a server that waits for its dispatchers has nothing to wait for. Nobody
  has to start a server, make a call, stop the servers or die.
* The other modules have no liveness properties and no fairness.

`CHECK_DEADLOCK FALSE` stands where the system may stop: bounded launches, writes
and opens run out, a pool that was destroyed does nothing more, and programs end.
`ServerSession` (with an explicit final stutter, `Over`) and `Movement` are checked for
deadlock.

## 4. What is proved

`WorkersPoolProofs`, for any finite sets of launchers and workers, any ring size
greater than 0 and any number of launches (`PoolAssumption`):

* `PoolTypeCorrect`, `PoolRingConsistent`: `Spec => []TypeOK` and
  `Spec => []RingInv`. `TypeOK` alone is not inductive: `n_operation` may grow only
  because `enq_pos = (deq_pos + n_operation) % MAX_OPERATIONS`, and what a worker
  takes is an operation only because every slot from `deq_pos` on, `n_operation`
  of them, was written. `RingInv` says both. The lemmas on positions (advancing
  one wraps inside the ring; the i-th pending operation after a dequeue was the
  (i+1)-th; two pending operations are in different slots) carry the proof.
* `PoolWorkersNotStranded`: while a worker sleeps on `c_poll_no_empty`, at least as
  many workers are awake and on their way to `worker_pool_dequeue` as operations are
  queued. `WaitInv` is the strengthening: who sleeps is in the right place of its
  program, and a finalize operation is in the ring only once the pool ends. A signal
  wakes a worker for the operation just stored or nobody sleeps; a worker that goes
  to sleep found the ring empty; a spurious wake-up only adds to those awake.
* `PoolLaunchersNotStranded`: the same for `c_pool_no_full`, as long as the pool has
  not ended. After `pool_end` it is false: see section 3.
* `PoolWaitersServed`: `Spec => WaitersServed`; a wait returns only after its own
  operation was executed, and an operation somebody waits for is never discarded.
  `ServiceInv` adds to the above where each launch is (`PlaceInv`: stored in the ring,
  held by a worker, executed or discarded), that it is in one of these places only
  (`OnceInv`), and what a launcher inside a call stands for (`LauncherInv`). Without
  `OnceInv` two workers might hold the same launch, and the second would notify a
  launcher that is already in its next one.
* `PoolImplementsTaskQueue`: `Spec => ImplementsTaskQueue`. The initial state maps to the
  empty open queue, and every step to a step of `TaskQueue` or to a stutter. It rests on
  `RingInv`: the queue is read off the ring, so that an enqueue appends to it and a
  dequeue takes its head is a statement on positions modulo the size of the ring.

`WorkersOnDemandProofs`, for any number of launches and of failed `pthread_create`
calls, and one launcher (`OneLauncher`, a hypothesis of the theorem: in a client the API
lock leaves one, in a server only the accept loop launches on its `worker1`; with two
the property is false, see section 3): `OnDemandLaunchHandsOver`, a launch waits for the
copy of its arguments, every launch runs once, and no thread outlives `destroy`.
`HandshakeInv` ties `busy_worker` to the last thread of the launcher: while that thread
has not passed its prolog, `busy_worker` is set and the launcher stays in the
handshake. `ThreadInv` says what a thread past its prolog copied, and that it is counted
as executed once. `DrainInv` says that `n_workers` is the number of threads between
prolog and epilog, without which `destroy` could be over with a thread still at work.

`FileTableProofs`, for any table size, any servers and any bounds on opens and
duplicates:

* `FileTableDescriptorsOwnTheirFiles`: a descriptor leads to the file it was given for, and
  what is open at the servers is what open files have handles of.
  `FileTableNoUseAfterFree`: memory that is freed or was never filled in is touched only
  after a duplicate, with a full table or with a server in error. `LinksInv` is the core:
  as long as the table never overflowed, `links` of a file is the cardinality of the set
  of descriptors that hold it. `Close` decides by the count whether it frees, so only an
  exact count keeps the other descriptors valid. `OpenedInv` says which handles hold
  something at a server, and `MemoryInv` that a handle was left unfilled (`raw`) only
  with a server in error, and that without duplicates the entries of the table are the
  descriptors in use.

`NfiProofs`, about the parallel calls for any number of servers, calls and failures, and about
one connection for any `XPN_PATH_MAX`, any `MAX_BUFFER_SIZE`, any sizes and any number of calls:

* `NfiWorkerCallGetsItsResults`: as long as every launch is waited for (`Undisturbed`) a
  call is told the ends of its own operations, they have been carried out, and it leaves
  none behind. `TaskInv`: at most one thread per server, which works for the call in
  progress and finds that call in `arg`; `DoneInv`: an operation that was launched and has
  no thread any more has been done, and its result is the one of that call; `LoopInv`:
  how far the launching and the waiting loop are. The property speaks of what a wait
  returns; the invariant follows the shared struct through launch, run and notify.
* `SessionInvariant`, `SessionInStep`, `SessionCallsDoWhatTheySay`: the two programs never
  take a part of the stream for another, and what a call returns is what the server did.
  `InStep` speaks of the next item of a stream only; the inductive invariant `SessionInv`
  speaks of all of it. Its core is `Phase`: what the client has sent or is about to send and the
  server has not read (`Pending`) is, according to where the dispatcher and its handler
  are, the whole request (`Unread`), the request without its code (`HeadNext`), the rest
  of the paths still wanted followed by the data (`PathNext`), the pieces of a write from the
  j-th on (`Writing`) or nothing (`Reading`, `Answered`), in the first and the last case after what is left
  of writes given up before (`AfterJunk`). That the client's and the server's rule for
  the rest of a path ask for the same items is `TailsAgree`. `Answers` says that what
  is on its way to the client is a beginning of the answer to its call: one struct, or
  pieces of a read whose sizes add up to what the server has read so far (`Chunks`).
  `ClientConns` and `ServerConns` say which connection each side is on, and which of
  them are closed and freed. The streams are compared as a whole, item by item, so the
  proof rests on lemmas about concatenation, `Tail` and `SubSeq` and needs no induction.

`ServerLifecycleProofs`, for any clients, any servers and all modes:

* `LifecycleNoClientLeftBehind`: no server ends while a living client holds a connection it
  keeps; `LifecycleAwaitedStop`: a stop that was awaited has ended every server it could
  reach, with no operation left and no client that counts on an answer. `LifecycleInv` has one conjunct per piece of the protocol: `StopInv` (how
  far the stopping program is, and which servers have answered it), `CodeOk` (the codes
  on the control connections), `AskOk` (a client asks a server once, and is told a port
  only if it asked), `PortOk` (a loop that handed out a port waits for that connection
  and for no other), `KeptOk` (a kept connection waits to be accepted or has its
  dispatcher), `CallOk` (who owes a waiting client its answer), `JobOk` (with MPI nobody
  dies) and `EndOk` (what a server past its loop has behind it). Neither property is
  inductive: a connection may be on its way between the look-up of the port and the
  accept, and only `PortOk` says that the loop cannot turn to a stop meanwhile.

`ProxyProofs`, for any clients, workers, connections and handles:

* `ProxyInvariant`, `ProxyToldTheTruth`, `ProxyDamageHasCause`: what a call returns is what
  the API answered to its own request, every open handle is held by the client it was
  opened for or by one in a call, and only a dead client or a failed `opendir` takes the
  proxy down. `ProxyInv` follows one request through the proxy: a connection is in one
  place, the backlog, `client_q` or one worker (`PlacesOk`), and is that of the call its client is
  in (`ConnOk`); what is on its way to the client is the rest of the answer to its call
  (`CallOk`, `Talk`), and no answer about a handle is lost while the proxy runs
  (`Answers`); a request not yet read was not yet carried out (`QueuedOk`, `Fresh`); a
  worker and its client are at matching points of the same exchange (`WorkerOk`,
  `Turn`); and a handle belongs to the client that holds it or is about to be told of it
  (`OwnsOk`). The exchange of each request type is taken from both source files, so that
  the two sides match is what the proof shows, type by type.

`BypassProofs`, for any number of threads and of open files, any table of the API and any
first sizes of the library's tables, any `PLUSXPN` and any number of descriptors of the
system, of which those the program starts with are below `PLUSXPN` (`BypassAssumption`):

* `BypassRoutesToOwnFile`, `BypassNothingLeftOpen`: the number a program holds leads to
  the file it opened, and closing leaves nothing open. `TableInv` is the invariant, and
  holds as long as the program is `Regular`. Its core is that an open file has the same
  number in both tables (`InPlace`): nothing in the code says so, it follows from
  both taking their first free entry. While a file is being opened the API has it and
  `fdstable` has not (`OpeningOk`), so the invariant says that all entries of the API below
  it are in use and that no free entry of `fdstable` is below `fdstable_first_free`
  (`EntriesOk`); `SameNumber` derives that the search finds this entry. `ClosingOk` says
  where a file is between the steps of a close, and that it is the other way round for a
  directory: its number in `fdstable` is free before the API has closed it.
  `OneChanges` is what `Regular` gives: one thread at a time is between such steps.
* `BypassPositionedAtOffset`: `OffsetInv` says that the offset of the file is the one asked
  for when the data is moved, and `MovingOk` that its file is not closed in between.
* `BypassApiStartedBeforeUse`: `ApiInv` says that `xpn_adaptor_initCalled` is set only when
  the API runs or a thread is between the mark and the end of its start, and that
  `INITCALLED` is in the environment of this program only after it has asked for it,
  mkstemp, `MPI_Finalize`, an inherited environment and a start that another thread
  overtook apart.
* The proof has three kinds of step: those that at most start the API and make the tables
  longer (`Quiet`, `Aside`), those that move offsets, and those of the thread that opens or
  closes. For the last, `Rest` is what the step leaves alone and `Own` what it does to
  its own file; `TurnKeeps` shows once that the two keep the invariant.

Every inductive invariant was an invariant of a TLC run before it was proved (`WalkInv` with
`T` computed from `net`).

`MovementProofs`, from `MovementAssumption` (block size and number of servers of a file
are not 0, xpn_shrink is given at least one server: it ends with its usage otherwise) and
`MaxReconstructionsAssumption` (at least 3 entries; the code has 40), in the cases that
the utilities handle (`beyond` is false):

* `MovementNobodyLeftWaiting`: `NobodyLeftWaiting`, the absence of a rank that waits for
  ever, for any number of readers and writers. The inductive invariant `MoveInv`
  (`AlwaysMoveInv`) has two parts. `MdataOk` says that the metadata of a file whose servers
  have changed say so: as long as they do not, the servers are those it was created
  with, and the utility starts one rank on each of them. It needs that expand and shrink record the change (`ExpandRecorded`,
  `ShrinkRecorded`); the loop of shrink is a recursive function, and both that it is
  defined and that every turn keeps the list in order are shown with a least
  counterexample (`TurnsExist`). `JobOk` is the protocol of the ranks: with readers that
  push, the run is `Sending` (no stop under way, all writers take messages) or `Stopping`
  (all readers past the barrier, a stop from the master before every writer that still
  runs), with writers that pull `Answering` or `Ending`. The master exists because the
  least server that leaves has the number -1 (`OneIsMaster`), and a block of a new server
  is looked for on an old one by `CalculateOfInvert` (`AskedIsReader`).
* `WalkInvariant`, `WalkersMeetInStep`, `WalksCopyTheTree`, about the walk over the tree, for any
  tree, any of the seven utilities, any number of ranks and any number of failing calls
  (`TreeWalkAssumption`: the paths are a tree, and there is a rank). `WalksMeet` compares two
  ranks in the same call and says nothing of one that is three directories ahead, so it is
  not inductive. `WalkInv` says that the ranks do one walk: there is a function `T` from the
  number of collective calls left behind to a place in the walk (`Track`), that is, the
  collectives still to do for the current entry, the directories that are open, and what was
  sent, copied and finished so far. The calls of `list()` a rank is in, and the operations it
  still has to do, are those of the place `T[passed[r]]`, with its own steps in between
  (`RankOk`, `Spread`, `Lined`). The first rank that leaves a collective settles the next
  place from what was broadcast (`Onward`); those that come later find the same there, because
  `NetOk` keeps the value. So two ranks in their k-th call are both in `NextOp(T[k - 1])`. The
  same places say that a directory is made before anything in it is sent (`FlushPlace`,
  `MadeBy`) and that what was sent is copied or given up (`SentPlace`, `GotBy`). That at
  the end the whole tree is copied follows from a shortest path that is not: its directory
  was copied, therefore entered, therefore read to its end.
  `WalkersMeetInStep` and `WalksCopyTheTree` are stated for walks that nobody has left
  (`torn`): a failed `opendir`, or a return from `copy()` of `xpn_flush` before a
  collective, takes a rank out of step and the others may hang. Those steps are in the
  model, and the invariant speaks of the walk up to them. What holds after that is only
  model-checked.
* `WalkRolesSplit`: from `RanksAssumption` (the two active rebuilds are started with a rank for
  every line of both hostfiles, two where a host is in both, and `strstr` tells the hosts
  apart) every old server has a reader, every new one a writer, and no rank is both:
  the last of several ranks reads and the first one writes.
* The layout, for every block size, number of servers, replication level and
  first node: `XpnCalculateBlockInvert` undoes `XpnCalculateBlock`
  (`InvertOfCalculate`: no two bytes and no two replicas share a place) and conversely
  (`CalculateOfInvert`: every byte of a server's file belongs to one replica of one
  byte); with no more replicas than servers the replicas of a byte are on distinct
  servers (`ReplicasOnDistinctServers`); and the next block a server gets is adjacent
  in its file (`NextBlockOfServerIsAdjacent`), which is why
  `XpnWriteBlocksAllInOne` may send the blocks of a server as one run. The argument is
  that quotient and remainder are unique (`DivideUnique`, `DivideParts`), applied once
  to the block and once to the position in the deal, and that the remainder of C, made
  positive as the code does, is the mathematical one (`CRemainderWraps`).

## 5. What is only model-checked

* Liveness under fairness is beyond the prover: the temporal properties of the runs
  (that launches and calls return, that walks, servers and the proxy end).
* What recursive definitions and folds compute for every input: the matrices of
  `StripedFile` (`ServersStoreTheFile`, `ReadReturnsContent`) and the places that
  `Malleability` computes from a list of reconfigurations, on which the properties of
  `Movement` about bytes and metadata rest (`BytesWhereComputed`, `MasterHasMetadata`,
  `NoByteLost`, `CopyIsTheFile`).
* `Namespace` (`FoundAgain`, `NothingLeft`, `DirEverywhere`, `StatFromReplica`). None of the four is
  inductive without the others: which servers have a name depends on how far every call in
  progress has got on each server, on which server the hash of each path of a rename puts the
  metadata, and on which names two calls at once leave undefined.
* `TreeCopied` after a rank has left the walk (`torn`): the ranks are
  then no longer in one walk, and what they do depends on which calls happen to match.

## 6. Abstractions to know about

* `WorkersPool`: the function of an operation is one step. The mutex of a launch
  (`r_wait`) is not shared with the ring's, so `Notify` and `WaitReturns` are steps of
  their own.
* `StripedFile`: a read is atomic with respect to writes of other clients; reads that
  overlap a running write may return old or new bytes, which `content` permits
  anyway. A write that fails leaves its bytes as old or new. The offsets of one
  instance stay below `max_size`. What a thread does with a worker or a buffer that was
  taken from it (`disturbed`) is not followed here.
* `NfiWorker`: the operation is a number, the call that made it. Buffers are not
  modelled; that a thread uses the buffers of a call that is over shows as
  `NoOperationLeftBehind`.
* `ServerSession`: one client and one server, sockets mode, at most one of the two
  dies. What the server's file system answers is free. Once a write was given up with
  its data unread, the dispatcher may take data for an operation; it is then
  "astray" and followed no further, and the properties are stated for connections
  without such a write. Functions that send a request and expect no answer are one
  action (`SilentCall`).
* `FileTable`: which servers an open goes to is free; so is what they answer.
* `Namespace`: requests are made by the calling thread (`XPN_THREAD=0`, the default).
  Partition prefixes, relative paths, modes and times are left out; a write is one step
  that lengthens the file by a block.
* `Bypass`: all files are one file of some size and all directories one directory; calls
  on paths outside the mount point change nothing but the system's descriptors.
* `Proxy`: what the API answers is free; of its state only the handles are kept. A client
  that writes to a connection the proxy has closed may be ended by SIGPIPE; that is one of
  the deaths of `Dies`.
* `Movement`: one file; the two to four messages of a block, which follow one another
  between the same ranks, are one, and a whole block is taken to be large enough for MPI to
  wait for the receiver. `TreeWalk`: no data. MPI errors, which abort all ranks, are
  in neither. A failed allocation, `stat`, `mkdir` or open of `xpn_flush` returns from `copy()` on
  one rank only and is `CopyFails`; the failures of the other utilities abort all ranks,
  except in `xpn_preload`, whose `copy()` has no collectives and whose failed copies are
  left out.
* `ServerLifecycle`: an operation carries nothing, tags and bytes are left to
  `ServerSession`. Only clients die; a rank of an MPI job that dies ends its job. MPI with
  `XPN_CONNECTED=0` is left out (`LifecycleAssumption`): `nfi_xpn_server.c:333` reads the
  variable for MPI too, but connecting there is a call of all ranks of the job, so that a
  connection for each operation would need all ranks to make the same operations.

## 7. Plan

Modelled and checked: everything in the table of section 1. Proved: section 4.

What could be added are proofs, in this order:

1. `Namespace`: `DirEverywhere` and `NothingLeft`, with one invariant that follows every call in
   progress from server to server.
2. `Malleability`: a file that was only expanded keeps its bytes, from `InvertOfCalculate` and
   the monotony of `offsets`, as far as it can be had without induction over the list.

## 8. Not modelled, and why

* NFS (`nfi_nfs`, `nfi_nfs3`): calls of an external server, half of it generated by
  `rpcgen`.
* Message queue mode: needs the semantics of the Mosquitto broker, an optional library.
  Its threads take the messages of a topic from one queue and write them in any
  order, and a thread ends for good when a file cannot be opened
  (`mq_server_comm.c:44` and `123`).
* `nfi_local` read and write (the same bytes as the server's), reconnect, statfs and
  setattr (they do nothing).
* The handlers of the server for CREAT, SETATTR, FINALIZE and the two ASYNC operations,
  which nothing sends.
* Command-line utilities, connectors (FUSE, Spark, ROMIO), the FILE functions of
  `xpn_stdio.c` and the configuration parser: wrappers, adapters and parsing without
  state of their own.
* Name resolution, socket options, string helpers and wrappers of system calls in
  `base/`.

Known and left out of the hazards, because nothing in the code orders or promises
anything there: two clients that write the same bytes of a replicated file may leave
the replicas different; the error mark of a server is private to a process, another
client goes on reading the server that missed the writes (`xpn_init.c:71`); a process
that ignores `SIGPIPE` sends a write to a dead server for ever
(`nfi_xpn_server.c:951`); `readdir` loops when all servers are in error and follows a
null handle when the server refuses (`xpn_policy_opendir.c:42` and `47`).

## 9. Running the checks

`tlc -workers 2 -config MCWorkersPool.cfg MCWorkersPool` and likewise for the other
configurations; the longest runs (`striped_file`, `bypass`, `namespace`, `lifecycle`)
take two to four minutes. `tlapm WorkersPoolProofs.tla`
and likewise for the other modules whose name ends in `Proofs` check the proofs; the
longest (`ServerLifecycleProofs`, `ProxyProofs`, `MovementProofs`) take five to fifteen minutes.
