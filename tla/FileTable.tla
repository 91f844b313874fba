------------------------------ MODULE FileTable ------------------------------
(***************************************************************************)
(* The descriptors of a client process: xpn_file_table, the xpn_filedesc   *)
(* structs it points to, and the handle each of these keeps for every      *)
(* server, through xpn_simple_open, _close, _opendir, _closedir, _dup,     *)
(* _dup2, the lazy opens of XpnGetFh and XpnGetFhDir, xpn_init and         *)
(* xpn_destroy.  The callers hold the API lock, so a call is one step.     *)
(*                                                                         *)
(* Which servers an open goes to (XpnCheckServAffectedByOp) and what they  *)
(* answer are free choices.  A call that reads freed or uninitialised      *)
(* memory ends the behaviour with broken = TRUE.                           *)
(*                                                                         *)
(* On a server of the client's own node the nfi_local functions open the   *)
(* files and directories in this process, and in session mode keep them    *)
(* open: streams are the descriptors that costs it.                        *)
(***************************************************************************)
EXTENDS Integers, FiniteSets, Functions

CONSTANTS
    XPN_MAX_FILE,   \* entries of xpn_file_table
    Servers,        \* servers of the partition
    XPN_SESSION_FILE, XPN_SESSION_DIR,  \* files and directories are kept open
    MaxOpens,       \* bound: xpn_filedesc structs allocated
    MaxDups,        \* bound: dup and dup2 calls that succeed
    MaxMarks        \* bound: servers marked in error

ASSUME FileTableAssumption ==
    /\ XPN_MAX_FILE \in Nat \ {0}
    /\ IsFiniteSet(Servers) /\ Servers # {}
    /\ XPN_SESSION_FILE \in BOOLEAN /\ XPN_SESSION_DIR \in BOOLEAN
    /\ MaxOpens \in Nat /\ MaxDups \in Nat /\ MaxMarks \in Nat

Slots == 0..(XPN_MAX_FILE - 1)
Structs == 1..MaxOpens
NULL == 0

VARIABLES
    xpn_initialize,
    table,      \* xpn_file_table: slot -> struct or NULL
    links,      \* struct -> links
    nfih,       \* struct -> server -> its handle, see Handles
    live,       \* the structs that are allocated
    dirs,       \* the structs of directories
    local,      \* servers of the client's node
    streams,    \* <<struct, server, use>>: open in this process
    opened,     \* <<struct, server>>: nfi_open done and nfi_close not
    error,      \* servers with error = -1
    opens, dups,
    held,       \* history: slot -> the struct the caller got with the descriptor
    fault,      \* history: "full": an entry in use was overwritten,
                \*          "failed": an open gave up after some server opened
    broken      \* freed or uninitialised memory was used

vars == <<xpn_initialize, table, links, nfih, live, dirs, local, streams, opened, error,
          opens, dups, held, fault, broken>>

\* No handle; one that nfi_open filled in; one of zeros (XpnGetFh clears it); one
\* that is still as malloc returned it (xpn_internal_open does not).
Handles == {"null", "open", "zero", "raw"}

\* Servers that may be in error together: xpn_init_partition refuses more than the
\* replication level, which MaxMarks stands for.
Errors == {e \in SUBSET Servers : Cardinality(e) <= MaxMarks}

NoHandles == [s \in Servers |-> "null"]

Init ==
    /\ xpn_initialize = TRUE
    /\ table = [i \in Slots |-> NULL]
    /\ links = [o \in Structs |-> 0] /\ nfih = [o \in Structs |-> NoHandles]
    /\ live = {} /\ dirs = {} /\ opened = {} /\ error \in Errors
    /\ local \in SUBSET Servers /\ streams = {}
    /\ opens = 0 /\ dups = 0
    /\ held = [i \in Slots |-> NULL] /\ fault = {} /\ broken = FALSE

\* Between xpn_init and xpn_destroy; other calls fail at XpnGetPartition.
Running == xpn_initialize /\ ~broken

-----------------------------------------------------------------------------
\* The entry XpnSearchSlotFile and xpn_simple_dup settle for: the first free one,
\* and the last one, free or not, when there is no other.
FreeSlot ==
    LET free == {i \in Slots : i = XPN_MAX_FILE - 1 \/ table[i] = NULL}
    IN  CHOOSE i \in free : \A j \in free : i <= j

Overwrites(i) == IF table[i] # NULL THEN fault \cup {"full"} ELSE fault

\* nfi_local_open and nfi_local_opendir keep what they opened in session mode only.
nfi_local_open(o, S) == IF XPN_SESSION_FILE THEN {o} \X (S \cap local) \X {"session"} ELSE {}
nfi_local_opendir(o, S) == IF XPN_SESSION_DIR THEN {o} \X (S \cap local) \X {"session"} ELSE {}

\* xpn_internal_open: nfi_open on the servers concerned, all of which succeed; a
\* server in error is launched nothing and is counted as a success.
Open(affected, dir) ==
    LET o == opens + 1
        i == FreeSlot
    IN  /\ Running /\ opens < MaxOpens
        /\ opens' = o
        /\ live' = live \cup {o}
        /\ links' = [links EXCEPT ![o] = 1]
        /\ nfih' = [nfih EXCEPT ![o] =
             [s \in Servers |-> IF s \notin affected THEN "null"
                                ELSE IF s \in error THEN "raw" ELSE "open"]]
        /\ opened' = opened \cup ({o} \X (affected \ error))
        /\ streams' = streams \cup (IF dir THEN nfi_local_opendir(o, affected \ error)
                                   ELSE nfi_local_open(o, affected \ error))
        /\ dirs' = IF dir THEN dirs \cup {o} ELSE dirs
        /\ table' = [table EXCEPT ![i] = o]
        /\ held' = [held EXCEPT ![i] = o]
        /\ fault' = Overwrites(i)
        /\ UNCHANGED <<xpn_initialize, local, error, dups, broken>>

\* One of the servers refuses, or the metadata cannot be written: the handles are
\* freed, and those that are open are not closed.
OpenFails(done) ==
    /\ Running /\ opens < MaxOpens
    /\ opens' = opens + 1
    /\ opened' = opened \cup ({opens + 1} \X (done \ error))
    /\ streams' = streams \cup nfi_local_open(opens + 1, done \ error)
    /\ fault' = IF done \ error = {} THEN fault ELSE fault \cup {"failed"}
    /\ UNCHANGED <<xpn_initialize, table, links, nfih, live, dirs, local, error, dups, held, broken>>

\* xpn_simple_opendir opens on the master of the directory's name only.
Opendir(s) == Open({s}, TRUE)

\* XpnGetFh and XpnGetFhDir before a read, a write or a readdir on server s.
GetFh(fd, s) ==
    LET o == table[fd]
    IN  /\ Running /\ held[fd] # NULL
        /\ IF o \notin live
           THEN broken' = TRUE /\ UNCHANGED <<nfih, opened, streams>>
           ELSE /\ nfih[o][s] = "null"
                /\ nfih' = [nfih EXCEPT ![o][s] = IF s \in error THEN "zero" ELSE "open"]
                /\ opened' = IF s \in error THEN opened ELSE opened \cup {<<o, s>>}
                /\ streams' = IF s \in error THEN streams
                              ELSE IF o \in dirs THEN streams \cup nfi_local_opendir(o, {s})
                              ELSE streams \cup nfi_local_open(o, {s})
                /\ UNCHANGED broken
        /\ UNCHANGED <<xpn_initialize, table, links, live, dirs, local, error, opens, dups, held, fault>>

\* nfi_local_readdir opens the directory again, goes to where it was and reads an entry; at
\* the end of the directory it returns without closing it.
nfi_local_readdir(fd, s) ==
    LET o == table[fd]
    IN  /\ Running /\ held[fd] # NULL /\ o \in live \cap dirs
        /\ s \in local \ error /\ nfih[o][s] = "open"
        /\ streams' = streams \cup {<<o, s, "end">>}
        /\ UNCHANGED <<xpn_initialize, table, links, nfih, live, dirs, local, opened, error, opens,
                       dups, held, fault, broken>>

-----------------------------------------------------------------------------
\* nfi_close of the handles of o; a server in error was disconnected and is not
\* told.  ClosedOfOne stops after the first server.
ClosedOfOne(o) ==
    LET mine == {p \in opened : p[1] = o}
    IN  IF mine = {} THEN {} ELSE {CHOOSE p \in mine : TRUE}
Closed(o) == {p \in opened : p[1] = o /\ p[2] \notin error}

\* nfi_local_close and nfi_local_closedir close what open and opendir kept, also on a
\* server in error.
nfi_local_close(o) == IF XPN_SESSION_FILE THEN {x \in streams : x[1] = o /\ x[3] = "session"} ELSE {}
nfi_local_closedir(o) == IF XPN_SESSION_DIR THEN {x \in streams : x[1] = o /\ x[3] = "session"} ELSE {}

\* What is left in the entry of a descriptor that was the last one of its struct.
\* SlotKept forgets to clear it.
SlotKept(fd) == table
SlotCleared(fd) == [table EXCEPT ![fd] = NULL]

HasRawHandle(o) == \E s \in Servers : nfih[o][s] = "raw"

\* The entry is only cleared with the last link; a handle nobody filled in may look like
\* one that is to be closed.
Release(fd, closed) ==
    LET o == table[fd]
    IN  /\ Running /\ held[fd] # NULL
        /\ held' = [held EXCEPT ![fd] = NULL]
        /\ IF o \notin live
           THEN broken' = TRUE /\ UNCHANGED <<table, links, nfih, live, opened, streams>>
           ELSE /\ links' = [links EXCEPT ![o] = @ - 1]
                /\ IF links[o] = 1
                   THEN /\ table' = SlotCleared(fd)
                        /\ live' = live \ {o}
                        /\ nfih' = [nfih EXCEPT ![o] = NoHandles]
                        /\ opened' = opened \ Closed(o)
                        /\ streams' = streams \ closed
                        /\ \/ broken' = FALSE
                           \/ broken' = TRUE /\ HasRawHandle(o)
                   ELSE UNCHANGED <<table, nfih, live, opened, streams, broken>>
        /\ UNCHANGED <<xpn_initialize, dirs, local, error, opens, dups, fault>>

\* xpn_simple_close and xpn_simple_closedir.
Close(fd) == table[fd] \notin dirs /\ Release(fd, nfi_local_close(table[fd]))
Closedir(fd) == table[fd] \in dirs /\ Release(fd, nfi_local_closedir(table[fd]))

-----------------------------------------------------------------------------
\* The links of a struct that gets one more descriptor.
Linked(o) == [links EXCEPT ![o] = @ + 1]

\* Of files: the descriptor of a directory is inside its DIR.
\* xpn_simple_dup to the entry it found, xpn_simple_dup2 to one that is free.
Duplicate(fd, i) ==
    LET o == table[fd]
    IN  /\ Running /\ held[fd] # NULL /\ o \notin dirs /\ dups < MaxDups
        /\ dups' = dups + 1
        /\ table' = [table EXCEPT ![i] = o]
        /\ held' = [held EXCEPT ![i] = o]
        /\ fault' = Overwrites(i)
        /\ IF o \in live THEN links' = Linked(o) /\ UNCHANGED broken
                         ELSE broken' = TRUE /\ UNCHANGED links
        /\ UNCHANGED <<xpn_initialize, nfih, live, dirs, local, streams, opened, error, opens>>

Dup(fd) == Duplicate(fd, FreeSlot)

Dup2(fd, fd2) == table[fd2] = NULL /\ Duplicate(fd, fd2)

-----------------------------------------------------------------------------
\* xpn_destroy_file_table goes through the entries and frees what they point to:
\* an entry whose struct was freed before, by a close or through another entry,
\* is read all the same, and so is a handle nobody filled in.
Dangling(i) ==
    table[i] # NULL /\ (table[i] \notin live \/ \E j \in Slots : j < i /\ table[j] = table[i])

Destroy ==
    /\ Running
    /\ xpn_initialize' = FALSE
    /\ \/ /\ \E i \in Slots : Dangling(i) \/ (table[i] # NULL /\ HasRawHandle(table[i]))
          /\ broken' = TRUE /\ UNCHANGED <<table, live, nfih>>
       \/ /\ ~\E i \in Slots : Dangling(i)
          /\ table' = [i \in Slots |-> NULL]
          /\ live' = live \ Range(table)
          /\ nfih' = [o \in Structs |-> IF o \in live' THEN nfih[o] ELSE NoHandles]
          /\ UNCHANGED broken
    /\ held' = [i \in Slots |-> NULL]
    /\ streams' = {IF x[3] = "session" THEN [x EXCEPT ![3] = "lost"] ELSE x : x \in streams}
    /\ UNCHANGED <<links, dirs, local, opened, error, opens, dups, fault>>

\* xpn_init: xpn_init_file_table; the servers are connected anew, and what the
\* old connections had opened is out of reach.
Restart ==
    /\ ~xpn_initialize /\ ~broken
    /\ xpn_initialize' = TRUE
    /\ table' = [i \in Slots |-> NULL]
    /\ opened' = {} /\ error' \in Errors
    /\ UNCHANGED <<links, nfih, live, dirs, local, streams, opens, dups, held, fault, broken>>

MarkErrorServer(s) ==
    /\ Running /\ s \notin error /\ Cardinality(error) < MaxMarks
    /\ error' = error \cup {s}
    /\ UNCHANGED <<xpn_initialize, table, links, nfih, live, dirs, local, streams, opened, opens,
                   dups, held, fault, broken>>

-----------------------------------------------------------------------------
Next ==
    \/ \E a \in (SUBSET Servers) \ {{}} : Open(a, FALSE) \/ OpenFails(a)
    \/ \E s \in Servers : Opendir(s)
    \/ \E fd \in Slots, s \in Servers : GetFh(fd, s) \/ nfi_local_readdir(fd, s)
    \/ \E fd \in Slots : Close(fd) \/ Closedir(fd) \/ Dup(fd)
    \/ \E fd, fd2 \in Slots : Dup2(fd, fd2)
    \/ Destroy \/ Restart
    \/ \E s \in Servers : MarkErrorServer(s)

Spec == Init /\ [][Next]_vars

-----------------------------------------------------------------------------
(* Properties *)

\* A descriptor that open, opendir or dup returned (xpn_open.c:56, 698, 727)
\* stands for the same open file until it is closed, whatever happens to the other
\* descriptors of that file, until a descriptor is asked for with the table full.
DescriptorsKeepTheirFile ==
    "full" \notin fault /\ ~broken =>
        \A fd \in Slots : held[fd] # NULL => table[fd] = held[fd] /\ held[fd] \in live

\* An open file is released with its last descriptor (xpn_open.c:465) and not
\* before: what is allocated is what some descriptor stands for, and what the
\* servers have open for this process, and this process on its own node, is what
\* these files have handles of.  An open that fails half-way loses the handles it
\* has, and so does xpn_destroy; readdir loses one at the end of a local directory.
ReleasedWithLastDescriptor ==
    "full" \notin fault /\ Running =>
        /\ live = Range(held) \ {NULL}
        /\ "failed" \notin fault =>
             {p \in opened : p[2] \notin error} =
             {p \in live \X (Servers \ error) : nfih[p[1]][p[2]] = "open"}
        /\ "failed" \notin fault =>
             {x \in streams : x[3] = "session"} =
             {p \in live \X local \X {"session"} :
                nfih[p[1]][p[2]] = "open" /\ IF p[1] \in dirs THEN XPN_SESSION_DIR ELSE XPN_SESSION_FILE}

\* Open files and descriptors belong together.
DescriptorsOwnTheirFiles == DescriptorsKeepTheirFile /\ ReleasedWithLastDescriptor

\* A process that duplicates no descriptor, does not fill the table and has no
\* server in error never touches freed or uninitialised memory, in xpn_destroy
\* (xpn_file.c:55) included.
NoUseAfterFree ==
    broken => dups > 0 \/ "full" \in fault \/ error # {}

=============================================================================
