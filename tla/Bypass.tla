------------------------------- MODULE Bypass -------------------------------
(***************************************************************************)
(* The library that LD_PRELOAD puts before libc: it sends the calls on     *)
(* paths under the mount point, and on the descriptors and DIRs that such  *)
(* calls gave, to the Expand API, and all others to libc.  A program sees  *)
(* the descriptor slot + PLUSXPN; fdstable holds the Expand descriptor     *)
(* behind it, fdsdirtable the DIRs, whose fd field is such a number too.   *)
(*                                                                         *)
(* The API locks each of its calls; the tables here have no lock.  A       *)
(* wrapper is therefore one step per API call and one per access to a      *)
(* table: search, store, remove.  Of the API the module keeps the table of *)
(* descriptors (first free entry, links) and the offset of each open file; *)
(* all files are one file of some size, all directories one directory.     *)
(* Arguments of system paths and descriptors change nothing but the        *)
(* system's descriptors, and are followed only where they do.              *)
(***************************************************************************)
EXTENDS Integers, Sequences, FiniteSets

CONSTANTS
    Threads,
    XPN_MAX_FILE,       \* entries of the API's table
    MAX_FDS, MAX_DIRS,  \* first sizes of fdstable and fdsdirtable
    PLUSXPN,            \* what separates the two kinds of descriptor
    Inherited,          \* descriptors the program starts with, the standard ones
    MaxIds,             \* bound: files and directories open at a time
    MaxSize,            \* bound: bytes of the file
    MaxSys              \* bound: descriptors the kernel gives out

ASSUME BypassAssumption ==
    /\ IsFiniteSet(Threads) /\ MaxIds \in Nat /\ MaxSize \in Nat
    /\ XPN_MAX_FILE \in Nat \ {0} /\ MAX_FDS \in Nat \ {0} /\ MAX_DIRS \in Nat \ {0}
    /\ PLUSXPN \in Nat /\ MaxSys \in Nat /\ Inherited \subseteq 0..(PLUSXPN - 1)

Ids == 1..MaxIds        \* open files; a directory's is its DIR pointer too
None == 0
Slots == 0..(XPN_MAX_FILE - 1)
NoFd == -1

VARIABLES
    called, env, asked, \* xpn_adaptor_initCalled, INITCALLED in the environment, _getenv
    stage,              \* thread -> how far its xpn_adaptor_keepInit has started the API
    running,            \* the API is initialised
    fds, fdsFree,       \* fdstable, fdstable_first_free
    dirs, dirsFree,     \* fdsdirtable, fdsdirtable_first_free
    dirfd,              \* id -> dir->fd, NoFd for what is not a directory
    xpn, links,         \* the API's table, and how many of its entries name a file
    pos, size,          \* offset of each open file, size of the file
    sys,                \* descriptors the kernel knows
    held,               \* id -> the number the program got for it
    call,               \* thread -> the wrapper it is in
    flags               \* history of what voids the promises, see the properties

init == <<called, env, asked, stage>>
tables == <<fds, fdsFree, dirs, dirsFree>>
api == <<xpn, links, pos, size>>
vars == <<init, running, tables, dirfd, api, sys, held, call, flags>>

FREE == [type |-> "FD_FREE", real_fd |-> NoFd]
Idle == [at |-> "idle", id |-> None, fd |-> NoFd, slot |-> 0]

MinOf(S) == CHOOSE i \in S : \A j \in S : i <= j

Init ==
    /\ called = FALSE /\ env \in BOOLEAN /\ asked = FALSE
    /\ stage = [t \in Threads |-> "out"]
    /\ running = FALSE
    /\ fds = <<>> /\ fdsFree = 0 /\ dirs = <<>> /\ dirsFree = 0
    /\ dirfd = [o \in Ids |-> NoFd]
    /\ xpn = [i \in Slots |-> None] /\ links = [o \in Ids |-> 0]
    /\ pos = [o \in Ids |-> 0] /\ size = MaxSize
    /\ sys = Inherited
    /\ held = [o \in Ids |-> NoFd]
    /\ call = [t \in Threads |-> Idle]
    /\ flags = IF env THEN {"inherited"} ELSE {}

-----------------------------------------------------------------------------
\* fdstable_realloc and fdsdirtable_realloc: the first size, then twice the size; the
\* new entries are free.
fdstable_realloc ==
    fds \o [i \in 1..(IF fds = <<>> THEN MAX_FDS ELSE Len(fds)) |-> FREE]
fdsdirtable_realloc ==
    dirs \o [i \in 1..(IF dirs = <<>> THEN MAX_DIRS ELSE Len(dirs)) |-> None]

fdstable_get(fd) ==
    IF fds # <<>> /\ fd >= PLUSXPN THEN fds[fd - PLUSXPN + 1]
    ELSE [type |-> "FD_SYS", real_fd |-> fd]

FreeFdsUnchecked == fdsFree..(Len(fds) - 1)

\* The entries fdstable_put and fdsdirtable_put may find.
FreeFds == {i \in fdsFree..(Len(fds) - 1) : fds[i + 1] = FREE}
FreeDirs == {i \in dirsFree..(Len(dirs) - 1) : dirs[i + 1] = None}

fdsdirtable_get(o) == {i \in 0..(Len(dirs) - 1) : dirs[i + 1] = o}

\* Undefined behaviour, or the end of the process, ends a behaviour.
Alive == flags \cap {"wild", "exit"} = {}

Enters(t) == Alive /\ call[t] = Idle

\* Another thread is between two steps of a wrapper that changes a table, or starts the
\* API, which makes the tables longer.
Tabling(t) == \E u \in Threads \ {t} :
                \/ call[u].at \in {"search", "store", "last", "dirput", "remove", "dirremove", "closedir"}
                \/ stage[u] \in {"test", "mark", "fds", "dirs"}
Mixed(t) == IF Tabling(t) THEN {"mixed"} ELSE {}

-----------------------------------------------------------------------------
(* xpn_adaptor_keepInit, with which a wrapper begins: the first call on an Expand path  *)
(* starts the API.  It has no lock, and sets its mark before there is anything started, *)
(* so that another thread may pass the test in between.  A failed start is tried again  *)
(* by the next call, and allocates again.                                               *)

Known == IF asked THEN called ELSE env

StartBegins(t) ==
    /\ Enters(t) /\ stage[t] = "out" /\ ~Known
    /\ asked' = TRUE /\ called' = FALSE
    /\ stage' = [stage EXCEPT ![t] = "test"]
    /\ flags' = flags \cup Mixed(t)
    /\ UNCHANGED <<env, running, tables, dirfd, api, sys, held, call>>

StartMarks(t) ==
    /\ Alive /\ stage[t] = "test"
    /\ called' = TRUE /\ env' = TRUE
    /\ stage' = [stage EXCEPT ![t] = "mark"]
    /\ UNCHANGED <<asked, running, tables, dirfd, api, sys, held, call, flags>>

fdstable_init(t) ==
    /\ Alive /\ stage[t] = "mark"
    /\ fds' = fdstable_realloc
    /\ stage' = [stage EXCEPT ![t] = "fds"]
    /\ UNCHANGED <<called, env, asked, running, fdsFree, dirs, dirsFree, dirfd, api, sys, held, call, flags>>

fdsdirtable_init(t) ==
    /\ Alive /\ stage[t] = "fds"
    /\ dirs' = fdsdirtable_realloc
    /\ stage' = [stage EXCEPT ![t] = "dirs"]
    /\ UNCHANGED <<called, env, asked, running, fds, fdsFree, dirsFree, dirfd, api, sys, held, call, flags>>

\* The bound is on failed starts.
xpn_init(t) ==
    /\ Alive /\ stage[t] = "dirs"
    /\ \E ok \in BOOLEAN :
         /\ running => ok
         /\ ok \/ Len(fds) <= 2 * MAX_FDS
         /\ running' = ok /\ called' = ok /\ env' = ok
    /\ stage' = [stage EXCEPT ![t] = "ready"]
    /\ UNCHANGED <<asked, tables, dirfd, api, sys, held, call, flags>>

\* How a wrapper leaves it: the mark was set, or this thread has tried to start the API.
xpn_adaptor_keepInit(t) ==
    /\ \/ stage[t] = "ready" /\ UNCHANGED <<called, asked>>
       \/ stage[t] = "out" /\ Known /\ called' = TRUE /\ asked' = TRUE
    /\ stage' = [stage EXCEPT ![t] = "out"]
    /\ UNCHANGED <<env, running, fds, dirs>>

\* A wrapper, or a part of one, that does without it.
Outside(t) == stage[t] = "out"

\* A call of the API that finds it not initialised, though no start failed: the mark is
\* wrong, or it is of a start that another thread has not come through.
Starting == \E u \in Threads : stage[u] \in {"mark", "fds", "dirs"}
Api == IF running' \/ (asked' /\ ~called') THEN {}
       ELSE {"early"} \cup IF Starting THEN {"overtaken"} ELSE {}

-----------------------------------------------------------------------------
(* Of the API: XpnSearchSlotFile, xpn_simple_close, and what they leave. *)

FreeSlot == MinOf({i \in Slots : xpn[i] = None} \cup {XPN_MAX_FILE - 1})
FreeIds == {o \in Ids : /\ o \notin {xpn[i] : i \in Slots} \cup {dirs[i] : i \in DOMAIN dirs}
                        /\ held[o] = NoFd /\ dirfd[o] = NoFd
                        /\ \A t \in Threads : call[t].id # o}
Full(i) == IF xpn[i] = None THEN {} ELSE {"full"}

XpnOpen(o) ==
    /\ xpn' = [xpn EXCEPT ![FreeSlot] = o]
    /\ links' = [links EXCEPT ![o] = 1]
    /\ pos' = [pos EXCEPT ![o] = 0]

\* Of the entries of a duplicated file only the one closed last is cleared.
XpnClose(fd) ==
    LET o == IF running /\ fd \in Slots THEN xpn[fd] ELSE None
    IN  IF o = None THEN UNCHANGED <<xpn, links, pos>>
        ELSE /\ links' = [links EXCEPT ![o] = @ - 1]
             /\ xpn' = IF links[o] = 1 THEN [xpn EXCEPT ![fd] = None] ELSE xpn
             /\ pos' = IF links[o] = 1 THEN [pos EXCEPT ![o] = 0] ELSE pos
Dangling(fd) == running /\ fd \in Slots /\ xpn[fd] # None /\ links[xpn[fd]] = 0
Wild(fd) == IF Dangling(fd) THEN {"wild"} ELSE {}

\* The open file behind a descriptor of the program, None if the call goes elsewhere.
Behind(fd) ==
    LET e == fdstable_get(fd)
    IN  IF e.type = "FD_XPN" /\ e.real_fd \in Slots THEN xpn[e.real_fd] ELSE None
IsXpn(fd) == fdstable_get(fd).type = "FD_XPN"

-----------------------------------------------------------------------------
(* Opening: the API call, then fdsdirtable_put for a directory, then fdstable_put. *)

Opened(t, o, next, truncate) ==
    /\ XpnOpen(o)
    /\ size' = IF truncate THEN 0 ELSE size
    /\ dirfd' = [dirfd EXCEPT ![o] = IF next = "dirput" THEN FreeSlot ELSE NoFd]
    /\ call' = [call EXCEPT ![t] = [at |-> next, id |-> o, fd |-> FreeSlot, slot |-> 0]]
    /\ flags' = flags \cup Api \cup Full(FreeSlot) \cup Mixed(t)

\* The API refuses, or is not initialised: the wrapper returns what it returned.
NotOpened ==
    flags' = flags \cup Api /\ UNCHANGED <<dirfd, api, call>>

OpenWith(t, next, truncate) ==
    /\ Enters(t) /\ FreeIds # {}
    /\ \/ running' /\ Opened(t, MinOf(FreeIds), next, truncate)
       \/ NotOpened
    /\ UNCHANGED <<fdsFree, dirsFree, sys, held>>

open(t) == xpn_adaptor_keepInit(t) /\ \E truncate \in BOOLEAN : OpenWith(t, "search", truncate)
open64(t) == xpn_adaptor_keepInit(t) /\ \E truncate \in BOOLEAN : OpenWith(t, "search", truncate)
open_2(t) == xpn_adaptor_keepInit(t) /\ \E truncate \in BOOLEAN : OpenWith(t, "search", truncate)
creatAlone(t) == Outside(t) /\ UNCHANGED <<init, running, fds, dirs>> /\ OpenWith(t, "search", TRUE)
creat(t) == xpn_adaptor_keepInit(t) /\ OpenWith(t, "search", TRUE)
opendir(t) == xpn_adaptor_keepInit(t) /\ OpenWith(t, "dirput", FALSE)

\* mkstemp does not start the API.
mkstemp(t) ==
    /\ Outside(t) /\ UNCHANGED <<init, running, fds, dirs>>
    /\ IF running THEN OpenWith(t, "search", TRUE)
       ELSE /\ Enters(t)
            /\ flags' = flags \cup (IF Api = {} THEN {} ELSE Api \cup {"mkstemp"})
            /\ UNCHANGED <<fdsFree, dirsFree, dirfd, api, sys, held, call>>

\* fopen makes a file that is missing whatever the mode, and empties it unless the mode
\* begins with r.  A FILE on /dev/null then gets the number as its _fileno; the number
\* it had is lost, and without one there is no FILE to write the number to.
FreeSys == (0..(MaxSys - 1)) \ sys
fopen(t) ==
    /\ xpn_adaptor_keepInit(t)
    /\ Enters(t) /\ FreeIds # {}
    /\ \/ /\ running' /\ FreeSys # {}
          /\ \E truncate \in BOOLEAN : Opened(t, MinOf(FreeIds), "search", truncate)
          /\ sys' = sys \cup {MinOf(FreeSys)}
       \/ /\ running' /\ FreeSys = {}
          /\ flags' = flags \cup {"wild"} /\ UNCHANGED <<dirfd, api, call, sys>>
       \/ NotOpened /\ UNCHANGED sys
    /\ UNCHANGED <<fdsFree, dirsFree, held>>

\* fdopen makes such a FILE for a descriptor that is open already.
fdopen(t, o) ==
    /\ Enters(t) /\ Outside(t) /\ held[o] # NoFd /\ dirfd[o] = NoFd /\ IsXpn(held[o])
    /\ IF FreeSys # {} THEN sys' = sys \cup {MinOf(FreeSys)} /\ UNCHANGED flags
       ELSE flags' = flags \cup {"wild"} /\ UNCHANGED sys
    /\ UNCHANGED <<init, running, tables, dirfd, api, held, call>>

\* fdsdirtable_put, its own table: when it is full it grows, and the entry taken is the
\* one at the size of the other table.
fdsdirtable_put(t) ==
    LET c == call[t]
        i == IF FreeDirs # {} THEN MinOf(FreeDirs) ELSE Len(fds)
        table == IF FreeDirs # {} THEN dirs ELSE fdsdirtable_realloc
    IN  /\ Alive /\ c.at = "dirput"
        /\ IF i < Len(table) /\ table[i + 1] = None
           THEN /\ dirs' = [table EXCEPT ![i + 1] = c.id] /\ dirsFree' = i + 1
                /\ call' = [call EXCEPT ![t].at = "search"]
                /\ UNCHANGED flags
           ELSE /\ flags' = flags \cup {"wild"}
                /\ UNCHANGED <<dirs, dirsFree, call>>
        /\ UNCHANGED <<init, running, fds, fdsFree, dirfd, api, sys, held>>

\* fdstable_put: find a free entry, or take the first one that growing adds.
fdstable_search(t) ==
    /\ Alive /\ call[t].at = "search"
    /\ IF FreeFds # {}
       THEN /\ call' = [call EXCEPT ![t].at = "store", ![t].slot = MinOf(FreeFds)]
            /\ UNCHANGED fds
       ELSE /\ call' = [call EXCEPT ![t].at = "last", ![t].slot = Len(fds)]
            /\ fds' = fdstable_realloc
    /\ UNCHANGED <<init, running, fdsFree, dirs, dirsFree, dirfd, api, sys, held, flags>>

\* The duplicate of the system's descriptor of the same number keeps the kernel from
\* giving the new number out.
dlsym_dup2(fd, fd2) == IF fd \in sys THEN sys \cup {fd2} ELSE sys
fdstable_put(t) ==
    LET c == call[t]
        vfd == c.slot + PLUSXPN
    IN  /\ Alive /\ c.at \in {"store", "last"}
        /\ fds' = [fds EXCEPT ![c.slot + 1] = [type |-> "FD_XPN", real_fd |-> c.fd]]
        /\ fdsFree' = IF c.at = "store" THEN c.slot + 1 ELSE fdsFree
        /\ sys' = dlsym_dup2(c.fd, vfd)
        /\ held' = [held EXCEPT ![c.id] = vfd]
        /\ dirfd' = [dirfd EXCEPT ![c.id] = IF @ = NoFd THEN NoFd ELSE vfd]
        /\ call' = [call EXCEPT ![t] = Idle]
        /\ UNCHANGED <<init, running, dirs, dirsFree, api, flags>>

-----------------------------------------------------------------------------
(* Closing. *)

\* fdstable_remove gives the number back to the kernel as well.
fdstable_remove(fd) ==
    /\ fds' = [fds EXCEPT ![fd - PLUSXPN + 1] = FREE]
    /\ fdsFree' = IF fd - PLUSXPN < fdsFree THEN fd - PLUSXPN ELSE fdsFree
    /\ sys' = sys \ {fd}

CloseWith(t, o) ==
    LET fd == held[o]
        real == fdstable_get(fd).real_fd
    IN  /\ Enters(t) /\ fd # NoFd /\ dirfd[o] = NoFd
        /\ \A u \in Threads : call[u].id # o
        /\ IF IsXpn(fd)
           THEN /\ xpn_adaptor_keepInit(t)
                /\ XpnClose(real)
                /\ call' = [call EXCEPT ![t] = [at |-> "remove", id |-> o, fd |-> fd, slot |-> 0]]
                /\ flags' = flags \cup Api \cup Mixed(t) \cup Wild(real)
                /\ UNCHANGED <<sys, held>>
           ELSE /\ Outside(t) /\ sys' = sys \ {fd} /\ held' = [held EXCEPT ![o] = NoFd]
                /\ UNCHANGED <<init, running, fds, dirs, xpn, links, pos, call, flags>>
        /\ UNCHANGED <<fdsFree, dirsFree, dirfd, size>>

close(t, o) == CloseWith(t, o)
fclose(t, o) == CloseWith(t, o)

Removed(t) ==
    LET c == call[t]
    IN  /\ Alive /\ c.at = "remove"
        /\ fdstable_remove(c.fd)
        /\ held' = [held EXCEPT ![c.id] = NoFd]
        /\ call' = [call EXCEPT ![t] = Idle]
        /\ UNCHANGED <<init, running, dirs, dirsFree, dirfd, api, flags>>

closedir(t, o) ==
    /\ Enters(t) /\ held[o] # NoFd /\ dirfd[o] # NoFd
    /\ \A u \in Threads : call[u].id # o
    /\ IF fdsdirtable_get(o) # {}
       THEN /\ xpn_adaptor_keepInit(t)
            /\ call' = [call EXCEPT ![t] = [Idle EXCEPT !.at = "dirremove", !.id = o]]
            /\ flags' = flags \cup Mixed(t)
       ELSE /\ Outside(t) /\ flags' = flags \cup {"wild"}
            /\ UNCHANGED <<init, running, fds, dirs, call>>
    /\ UNCHANGED <<fdsFree, dirsFree, dirfd, api, sys, held>>

\* fdsdirtable_remove leaves in dir->fd the number of the entry of fdstable, which
\* xpn_closedir takes for a descriptor of the API.
NotRestoredFd(fd) == fd
RestoredFd(fd) == fd - PLUSXPN
fdsdirtable_remove(t) ==
    LET o == call[t].id
        i == MinOf(fdsdirtable_get(o))
    IN  /\ Alive /\ call[t].at = "dirremove"
        /\ fdstable_remove(dirfd[o])
        /\ dirfd' = [dirfd EXCEPT ![o] = RestoredFd(@)]
        /\ dirs' = [dirs EXCEPT ![i + 1] = None]
        /\ dirsFree' = IF i < dirsFree THEN i ELSE dirsFree
        /\ call' = [call EXCEPT ![t].at = "closedir"]
        /\ UNCHANGED <<init, running, api, held, flags>>

xpn_closedir(t) ==
    LET o == call[t].id
    IN  /\ Alive /\ call[t].at = "closedir"
        /\ XpnClose(dirfd[o])
        /\ dirfd' = [dirfd EXCEPT ![o] = NoFd]
        /\ held' = [held EXCEPT ![o] = NoFd]
        /\ call' = [call EXCEPT ![t] = Idle]
        /\ flags' = flags \cup Wild(dirfd[o])
        /\ UNCHANGED <<init, running, tables, size, sys>>

-----------------------------------------------------------------------------
(* Calls on a descriptor: FileOp(t, o) is one on the file the program opened as o. *)

FileOp(t, o) ==
    /\ Enters(t) /\ held[o] # NoFd
    /\ \A u \in Threads : call[u].id # o \/ call[u].at \in {"pread", "pwrite", "back"}
    /\ IsXpn(held[o]) /\ ~Dangling(fdstable_get(held[o]).real_fd)
    /\ xpn_adaptor_keepInit(t)
    /\ UNCHANGED <<fdsFree, dirsFree, dirfd, xpn, links, sys, held>>

\* An offset is moved while another thread is between the steps of a pread or pwrite.
Moved(t, x) ==
    IF \E u \in Threads \ {t} : call[u].at \in {"pread", "pwrite", "back"} /\ call[u].slot = x
    THEN {"moved"} ELSE {}

Min2(a, b) == IF a < b THEN a ELSE b

\* xpn_read and xpn_write of one byte at the offset of open file x.
XpnRead(x) == pos' = [pos EXCEPT ![x] = Min2(@ + 1, IF @ > size THEN @ ELSE size)] /\ UNCHANGED size
XpnWrite(x) ==
    /\ pos[x] < MaxSize
    /\ pos' = [pos EXCEPT ![x] = @ + 1]
    /\ size' = IF pos[x] + 1 > size THEN pos[x] + 1 ELSE size
XpnSeek(x, off) == pos' = [pos EXCEPT ![x] = off] /\ UNCHANGED size

\* One API call on the file behind.  With nothing behind, read and write fail and
\* xpn_simple_lseek follows a null pointer.
Moves(t, o, A(_), lost) ==
    LET x == Behind(held[o])
    IN  /\ FileOp(t, o) /\ dirfd[o] = NoFd
        /\ IF running' /\ x # None
           THEN A(x) /\ flags' = flags \cup Api \cup Moved(t, x)
           ELSE flags' = flags \cup Api \cup lost /\ UNCHANGED <<pos, size>>
        /\ UNCHANGED call
Seeks(t, o, Off(_)) == Moves(t, o, LAMBDA x : XpnSeek(x, Off(x)), {"wild"})

read(t, o) == Moves(t, o, XpnRead, {})
write(t, o) == Moves(t, o, XpnWrite, {})
fread(t, o) == Moves(t, o, XpnRead, {})
fwrite(t, o) == Moves(t, o, XpnWrite, {})
lseek(t, o, off) == Seeks(t, o, LAMBDA x : off)
lseek64(t, o, off) == Seeks(t, o, LAMBDA x : off)
fseek(t, o, off) == Seeks(t, o, LAMBDA x : off)
rewind(t, o) == Seeks(t, o, LAMBDA x : 0)
ftell(t, o) == Seeks(t, o, LAMBDA x : pos[x])

\* feof compares the offset with where SEEK_END leads, and stays there.
feof(t, o) == Seeks(t, o, LAMBDA x : size)

\* Directories and calls that keep the offset.
Asks(t, o) == FileOp(t, o) /\ flags' = flags \cup Api /\ UNCHANGED <<pos, size, call>>
ftruncate(t, o) == Asks(t, o)
fstat(t, o) == Asks(t, o)
fxstat(t, o) == Asks(t, o)
fxstat64(t, o) == Asks(t, o)
fchmod(t, o) == Asks(t, o)
readdir(t, o) == dirfd[o] # NoFd /\ Asks(t, o)
readdir64(t, o) == dirfd[o] # NoFd /\ Asks(t, o)

\* Answered without the API.
Answered(t, o) == Enters(t) /\ Outside(t) /\ held[o] # NoFd /\ IsXpn(held[o]) /\ UNCHANGED vars
fcntl(t, o) == Answered(t, o)
fsync(t, o) == Answered(t, o)
flock(t, o) == Answered(t, o)

\* A positioned call is three calls of the API: set the offset, move the data, and go
\* back by what was moved.  call.slot is the open file, call.fd the offset asked for,
\* then the number of bytes to go back.
SetOffsetLate(t, o, off, op) ==
    LET x == Behind(held[o])
    IN  /\ FileOp(t, o) /\ dirfd[o] = NoFd /\ running' /\ x # None
        /\ call' = [call EXCEPT ![t] = [at |-> op, id |-> o, fd |-> off, slot |-> x]]
        /\ flags' = flags \cup Moved(t, x)
        /\ UNCHANGED <<pos, size>>
SetOffset(t, o, off, op) ==
    LET x == Behind(held[o])
    IN  /\ FileOp(t, o) /\ dirfd[o] = NoFd
        /\ IF running' /\ x # None
           THEN /\ XpnSeek(x, off)
                /\ call' = [call EXCEPT ![t] = [at |-> op, id |-> o, fd |-> off, slot |-> x]]
                /\ flags' = flags \cup Api \cup Moved(t, x)
           ELSE flags' = flags \cup {"wild"} /\ UNCHANGED <<pos, size, call>>
MoveData(t, op) ==
    LET c == call[t]
    IN  /\ Alive /\ c.at = op
        /\ IF op = "pread" THEN XpnRead(c.slot) ELSE XpnWrite(c.slot)
        /\ call' = [call EXCEPT ![t].at = "back", ![t].fd = pos'[c.slot] - pos[c.slot]]
        /\ flags' = flags \cup Moved(t, c.slot)
                    \cup (IF pos[c.slot] # c.fd THEN {"misplaced"} ELSE {})
        /\ UNCHANGED <<init, running, tables, dirfd, xpn, links, sys, held>>
GoBack(t) ==
    LET c == call[t]
        off == pos[c.slot] - c.fd
    IN  /\ Alive /\ c.at = "back"
        /\ XpnSeek(c.slot, IF off < 0 THEN pos[c.slot] ELSE off)
        /\ call' = [call EXCEPT ![t] = Idle]
        /\ flags' = flags \cup Moved(t, c.slot)
        /\ UNCHANGED <<init, running, tables, dirfd, xpn, links, sys, held>>

pread(t, o, off) == SetOffset(t, o, off, "pread")
pread64(t, o, off) == SetOffset(t, o, off, "pread")
pwrite(t, o, off) == off < MaxSize /\ SetOffset(t, o, off, "pwrite")
pwrite64(t, o, off) == off < MaxSize /\ SetOffset(t, o, off, "pwrite")

-----------------------------------------------------------------------------
(* Calls on a path: they start the API and call it, and open nothing. *)

PathCall(t) ==
    /\ Enters(t)
    /\ xpn_adaptor_keepInit(t)
    /\ flags' = flags \cup Api
    /\ UNCHANGED <<fdsFree, dirsFree, dirfd, api, sys, held, call>>

stat(t) == PathCall(t)
statfs(t) == PathCall(t)
statfs64(t) == PathCall(t)
xstat(t) == PathCall(t)
xstat64(t) == PathCall(t)
lxstat(t) == PathCall(t)
lxstat64(t) == PathCall(t)
rename(t) == PathCall(t)
unlink(t) == PathCall(t)
remove(t) == PathCall(t)
mkdir(t) == PathCall(t)
rmdir(t) == PathCall(t)
chdir(t) == PathCall(t)
chmod(t) == PathCall(t)
chown(t) == PathCall(t)
access(t) == PathCall(t)

\* These start the API and do not call it.
Starts(t) ==
    /\ Enters(t)
    /\ xpn_adaptor_keepInit(t)
    /\ UNCHANGED <<fdsFree, dirsFree, dirfd, api, sys, held, call, flags>>
realpath(t) == Starts(t)
realpath_chk(t) == Starts(t)
MPI_Init(t) == Starts(t)
MPI_Init_thread(t) == Starts(t)

-----------------------------------------------------------------------------
(* Duplicates, which return the descriptor of the API as it is. *)

Dup(t, o, i) ==
    LET e == fdstable_get(held[o])
        x == Behind(held[o])
    IN  /\ Enters(t) /\ held[o] # NoFd /\ IsXpn(held[o]) /\ ~Dangling(e.real_fd)
        /\ \A u \in Threads : call[u].id # o
        /\ xpn_adaptor_keepInit(t)
        /\ IF running' /\ x # None
           THEN /\ xpn' = [xpn EXCEPT ![i] = x]
                /\ links' = [links EXCEPT ![x] = @ + 1]
                /\ flags' = flags \cup {"dup"} \cup Full(i)
           ELSE flags' = flags \cup Api /\ UNCHANGED <<xpn, links>>
        /\ UNCHANGED <<fdsFree, dirsFree, dirfd, pos, size, sys, held, call>>

dup(t, o) == Dup(t, o, FreeSlot)

\* The API's dup2 fails on an entry in use; a system descriptor that is put over one of
\* Expand's changes what the kernel has under the number, and not fdstable.
dup2(t, o, fd2) ==
    /\ fd2 \in Slots
    /\ xpn[fd2] = None
    /\ Dup(t, o, fd2)
dup2_over(t, o) ==
    /\ Enters(t) /\ Outside(t) /\ held[o] # NoFd
    /\ sys' = sys \cup {held[o]}
    /\ flags' = flags \cup {"dup"}
    /\ UNCHANGED <<init, running, tables, dirfd, api, held, call>>

(* Descriptors of the system.  From PLUSXPN on the library takes them for its own. *)

dlsym_open(t) ==
    /\ Enters(t) /\ Outside(t) /\ FreeSys # {}
    /\ sys' = sys \cup {MinOf(FreeSys)}
    /\ flags' = flags \cup IF MinOf(FreeSys) >= PLUSXPN THEN {"many"} ELSE {}
    /\ UNCHANGED <<init, running, tables, dirfd, api, held, call>>
dlsym_close(t, fd) ==
    /\ Enters(t) /\ Outside(t) /\ fd \in sys \ Inherited /\ fd < PLUSXPN
    /\ sys' = sys \ {fd}
    /\ UNCHANGED <<init, running, tables, dirfd, api, held, call, flags>>

-----------------------------------------------------------------------------
(* Processes.  A behaviour follows the child of a fork, and the program an exec starts. *)

\* The child has the tables of its parent, the thread that called and no other, and
\* starts the API again.
fork(t) ==
    /\ Enters(t) /\ Outside(t) /\ Len(fds) <= MAX_FDS
    /\ called' = FALSE /\ stage' = [u \in Threads |-> "out"]
    /\ call' = [u \in Threads |-> Idle]
    /\ flags' = flags \cup Mixed(t)
    /\ UNCHANGED <<env, asked, running, tables, dirfd, api, sys, held>>

xpn_destroy == running' = FALSE /\ xpn' = [i \in Slots |-> None]

\* An exec is no call of this library; the environment lives on.
Exec(t) ==
    /\ Enters(t) /\ Outside(t)
    /\ called' = FALSE /\ asked' = FALSE /\ stage' = [u \in Threads |-> "out"] /\ UNCHANGED env
    /\ running' = FALSE /\ xpn' = [i \in Slots |-> None]
    /\ fds' = <<>> /\ fdsFree' = 0 /\ dirs' = <<>> /\ dirsFree' = 0
    /\ dirfd' = [o \in Ids |-> NoFd] /\ held' = [o \in Ids |-> NoFd]
    /\ links' = [o \in Ids |-> 0] /\ pos' = [o \in Ids |-> 0]
    /\ call' = [u \in Threads |-> Idle]
    /\ flags' = IF env THEN {"inherited"} ELSE {}
    /\ UNCHANGED <<sys, size>>

MPI_Finalize(t) ==
    /\ Enters(t) /\ Outside(t) /\ called /\ xpn_destroy
    /\ flags' = flags \cup {"finalized"}
    /\ UNCHANGED <<init, tables, dirfd, links, pos, size, sys, held, call>>

exit(t) ==
    /\ Enters(t) /\ Outside(t)
    /\ IF called THEN xpn_destroy ELSE UNCHANGED <<running, xpn>>
    /\ flags' = flags \cup {"exit"}
    /\ UNCHANGED <<init, tables, dirfd, links, pos, size, sys, held, call>>

-----------------------------------------------------------------------------
Start(t) == \/ StartBegins(t) \/ StartMarks(t) \/ fdstable_init(t) \/ fdsdirtable_init(t) \/ xpn_init(t)
Opens(t) == open(t) \/ open64(t) \/ open_2(t) \/ creat(t) \/ mkstemp(t) \/ fopen(t) \/ opendir(t)
Steps(t) == \/ fdsdirtable_put(t) \/ fdstable_search(t) \/ fdstable_put(t) \/ Removed(t)
            \/ fdsdirtable_remove(t) \/ xpn_closedir(t)
            \/ MoveData(t, "pread") \/ MoveData(t, "pwrite") \/ GoBack(t)
FileCalls(t, o) ==
    \/ fdopen(t, o) \/ close(t, o) \/ fclose(t, o) \/ closedir(t, o)
    \/ read(t, o) \/ write(t, o) \/ fread(t, o) \/ fwrite(t, o)
    \/ rewind(t, o) \/ ftell(t, o) \/ feof(t, o)
    \/ ftruncate(t, o) \/ fstat(t, o) \/ fxstat(t, o) \/ fxstat64(t, o) \/ fchmod(t, o)
    \/ readdir(t, o) \/ readdir64(t, o) \/ fcntl(t, o) \/ fsync(t, o) \/ flock(t, o)
    \/ \E off \in 0..MaxSize :
         \/ lseek(t, o, off) \/ lseek64(t, o, off) \/ fseek(t, o, off)
         \/ pread(t, o, off) \/ pread64(t, o, off) \/ pwrite(t, o, off) \/ pwrite64(t, o, off)
    \/ dup(t, o) \/ dup2_over(t, o) \/ \E fd2 \in Slots : dup2(t, o, fd2)
PathCalls(t) ==
    \/ stat(t) \/ statfs(t) \/ statfs64(t) \/ xstat(t) \/ xstat64(t) \/ lxstat(t) \/ lxstat64(t)
    \/ rename(t) \/ unlink(t) \/ remove(t) \/ mkdir(t) \/ rmdir(t) \/ chdir(t) \/ chmod(t)
    \/ chown(t) \/ access(t) \/ realpath(t) \/ realpath_chk(t) \/ MPI_Init(t) \/ MPI_Init_thread(t)
SystemCalls(t) ==
    \/ dlsym_open(t) \/ \E fd \in 0..(PLUSXPN - 1) : dlsym_close(t, fd)
ProcessCalls(t) == fork(t) \/ Exec(t) \/ MPI_Finalize(t) \/ exit(t)

Next == \E t \in Threads : \/ Start(t) \/ Opens(t) \/ Steps(t) \/ PathCalls(t) \/ SystemCalls(t) \/ ProcessCalls(t)
                           \/ \E o \in Ids : FileCalls(t, o)

Spec == Init /\ [][Next]_vars

-----------------------------------------------------------------------------
\* The program kept to what the library can do: no duplicates, never more files than the
\* API has entries for, no two threads that open, close or start the API at once, no
\* system descriptor that the library takes for its own, no use after the end.
Regular == flags \cap {"mixed", "dup", "full", "many", "wild", "exit", "finalized"} = {}

InCall(o) == \E t \in Threads : call[t].id = o

\* fdstable and the API's table agree: what the program holds leads to the file it
\* opened, and a DIR is registered, through closes, growth, forks and failed starts.
RoutesToOwnFile ==
    Regular => \A o \in Ids : held[o] # NoFd /\ ~InCall(o) =>
                 /\ Behind(held[o]) = o
                 /\ dirfd[o] # NoFd => dirfd[o] = held[o] /\ fdsdirtable_get(o) # {}

\* fdsdirtable_remove may take the number of an entry of fdstable for a descriptor of
\* the API, since both tables hand out their first free entry and the two numbers are
\* always the same: closedir closes its own directory and no file stays open unseen.
NothingLeftOpen ==
    Regular /\ (\A t \in Threads : call[t] = Idle) =>
        \A i \in Slots : xpn[i] # None => held[xpn[i]] = i + PLUSXPN

\* pread and pwrite move the bytes at the offset they were given, unless another thread
\* moves the offset of the same open file between their calls of the API.
PositionedAtOffset == Regular /\ "misplaced" \in flags => "moved" \in flags

\* xpn_adaptor_keepInit: the API is called before it is initialised only after mkstemp,
\* after MPI_Finalize, in a program that inherits INITCALLED from another one, and by a
\* thread that comes while another is starting it, after the mark and before the end.
ApiStartedBeforeUse ==
    "early" \in flags => flags \cap {"inherited", "mkstemp", "finalized", "overtaken"} # {}

=============================================================================
