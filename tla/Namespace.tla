------------------------------ MODULE Namespace ------------------------------
(***************************************************************************)
(* The names of a partition.  A directory is on every server; a file has   *)
(* pieces on the servers that hold its blocks, on those of its metadata    *)
(* (hash of its name, and the next ones) and on those that list it (hash   *)
(* of the name of its directory).  A call of a client reads the metadata,  *)
(* then asks the servers concerned one after the other, then may write the *)
(* metadata; clients interleave between the requests.                      *)
(*                                                                         *)
(* Requests are made by the calling thread (XPN_THREAD=0, the default);    *)
(* what the threads of a worker do to them is in NfiWorker.  Blocks are    *)
(* placed as in BlockLayout and written as in StripedFile; here a write    *)
(* is one step that lengthens the file by a block.  Partition prefixes,    *)
(* modes and times are left out.                                           *)
(*                                                                         *)
(* A server on the node of the clients is not asked: the nfi_local         *)
(* functions make the calls on its directory, and answer other than the    *)
(* server does when there is nothing to remove or already a directory.     *)
(***************************************************************************)
EXTENDS Integers, FiniteSets

CONSTANTS
    Clients,
    Modes,              \* partitions: servers, replication level, servers on the clients' node
    Root, Dirs, Files,  \* names: directories are in the root, files in the directories
    Hash,               \* name -> sum of its characters
    MaxIds,             \* bound: files that exist at a time, or left something behind
    MaxSize,            \* bound: blocks of a file
    MaxFailures,        \* bound: requests a server refuses
    MaxCalls            \* bound: calls that change names, in a behaviour

ASSUME NamespaceAssumption ==
    /\ \A m \in Modes : /\ {m.data_nserv, m.max_errors} \subseteq Nat
                        /\ m.replication_level \in 0..(m.data_nserv - 1)
                        /\ m.local \subseteq 0..(m.data_nserv - 1)
    /\ Root \notin Dirs \cup Files /\ Dirs \cap Files = {}
    /\ Hash \in [{Root} \cup Dirs \cup Files -> Nat]
    /\ {MaxIds, MaxSize, MaxFailures, MaxCalls} \subseteq Nat

FilePaths == [dir : Dirs, name : Files]
DirPaths == [dir : {Root}, name : Dirs]
Paths == FilePaths \cup DirPaths
Inside(d) == {p \in FilePaths : p.dir = d.name}

VARIABLES
    mode,               \* the partition; max_errors bounds the servers that a client marks in error
    local,              \* servers with the operations of nfi_local
    disk,               \* server -> path -> piece
    error,              \* client -> servers with error = -1
    call,               \* client -> the call it is in
    failures, calls,    \* requests failed and calls made so far
    fs,                 \* path -> what the clients were told is there
    hops,               \* path -> 0 never renamed, 1 once and inside its directory, 2 otherwise
    murky               \* paths nothing is promised of, see the properties
ghosts == <<fs, hops, murky>>
vars == <<mode, local, disk, error, call, failures, calls, ghosts>>

n == mode.data_nserv
replication == mode.replication_level
Servers == 0..(n - 1)

NoMd == [id |-> 0, first |-> 0, size |-> 0]     \* no magic number
Absent == [kind |-> "none", md |-> NoMd]
Dir == [kind |-> "dir", md |-> NoMd]
Piece(md) == [kind |-> "file", md |-> md]
Idle == [op |-> "idle"]

\* nfi_xpn_server_init finds its own address in the server's and puts the local operations
\* in the place of its own (XPN_LOCALITY).
nfi_local_init(here) == local = here

Init ==
    /\ mode \in Modes /\ nfi_local_init(mode.local)
    /\ \E made \in SUBSET DirPaths :
         /\ disk = [s \in Servers |-> [p \in Paths |-> IF p \in made THEN Dir ELSE Absent]]
         /\ fs = [p \in Paths |-> IF p \in made THEN 1 ELSE 0]
    /\ error = [c \in Clients |-> {}]
    /\ call = [c \in Clients |-> Idle]
    /\ failures = 0 /\ calls = 0
    /\ hops = [p \in Paths |-> 0] /\ murky = {}

-----------------------------------------------------------------------------
\* hash: of the name, or of the name of the directory it is in.
hash(name) == Hash[name] % n
master_node(p) == hash(p.name)
master_dir(p) == hash(p.dir)
After(s, k) == {(s + i) % n : i \in 0..k}

\* XpnCalculateBlock: the servers of block b, after those of the blocks before it.
BlockHolders(md, b) == After((md.first + b * (replication + 1)) % n, replication)

\* XpnCheckServAffectedByOp.  Without metadata it is taken for a directory.
BlockServers(md) == UNION {BlockHolders(md, b) : b \in {b \in 0..(n - 1) : b <= md.size}}
AffectedByData(md, p) ==
    IF md = NoMd THEN Servers ELSE After(master_node(p), replication) \cup BlockServers(md)
AffectedByName(md, p) ==
    IF md = NoMd THEN Servers ELSE After(master_dir(p), replication) \cup After(master_node(p), replication)
XpnCheckServAffectedByOp(md, p) ==
    IF md = NoMd THEN Servers
    ELSE After(master_dir(p), replication) \cup After(master_node(p), replication)
         \cup BlockServers(md)

\* The loop of XpnReadMetadata, XpnGetAtribPath and XpnGetAtribFd over the copies: it
\* adds i to where it is, and stops at the last candidate without a look at its error.
Candidate[i \in 0..n, s \in Servers, E \in SUBSET Servers] ==
    IF i >= replication THEN s
    ELSE LET t == (s + i) % n IN IF t \notin E THEN t ELSE Candidate[i + 1, t, E]
NextOnly(s, E) == IF s \notin E \/ replication < 2 THEN s ELSE (s + 1) % n
LiveServer(s, E) == Candidate[0, s, E]

\* What a server answers of a path; nfi_local makes the same calls on its directory.
op_read_mdata(s, p) == [ok |-> disk[s][p].kind # "none", md |-> disk[s][p].md]
op_getattr(s, p) == disk[s][p].kind # "none"
op_opendir(s, d) == {p \in Paths : p.dir = d /\ disk[s][p].kind # "none"}
nfi_local_read_mdata(s, p) == op_read_mdata(s, p)
nfi_local_getattr(s, p) == op_getattr(s, p)
nfi_local_opendir(s, d) == op_opendir(s, d)

\* XpnReadMetadata: what it finds, and whether the request succeeded.  A server in error
\* is not asked, which counts as a success with nothing found.
XpnReadMetadata(c, p) ==
    LET s == LiveServer(master_node(p), error[c])
    IN  IF s \in error[c] THEN [ok |-> TRUE, md |-> NoMd]
        ELSE IF s \in local THEN nfi_local_read_mdata(s, p) ELSE op_read_mdata(s, p)

\* XpnGetAtribPath: the size stat reports, -1 if it fails.
XpnGetAtribPath(c, p) ==
    LET s == LiveServer(master_node(p), error[c])
        found == IF s \in local THEN nfi_local_getattr(s, p) ELSE op_getattr(s, p)
    IN  IF s \notin error[c] /\ ~found THEN -1
        ELSE XpnReadMetadata(c, p).md.size

\* XpnGetEntry: the first server from the directory's that is not in error.
XpnGetEntry(c, d) ==
    LET s == CHOOSE t \in Servers \ error[c] :
               \A u \in Servers \ error[c] : (t - hash(d) + n) % n <= (u - hash(d) + n) % n
    IN  IF s \in local THEN nfi_local_opendir(s, d) ELSE op_opendir(s, d)

-----------------------------------------------------------------------------
(* What a server does: the disk of the server after a request, or a refusal. *)

HasParent(D, p) == p \in DirPaths \/ D[[dir |-> Root, name |-> p.dir]].kind = "dir"
Refused == <<>>        \* no disk is the empty function

op_open(D, p, create, trunc) ==
    IF ~HasParent(D, p) \/ D[p].kind = "dir" \/ (D[p].kind = "none" /\ ~create) THEN Refused
    ELSE [D EXCEPT ![p] = IF trunc \/ D[p].kind = "none" THEN Piece(NoMd) ELSE D[p]]

\* nfi_xpn_server_remove and _rename return 0 although the server answered an error.
op_rm(D, p) == IF D[p].kind = "file" THEN [D EXCEPT ![p] = Absent] ELSE D
Moved(p, d, e) == IF p \in Inside(d) THEN [p EXCEPT !.dir = e.name] ELSE p
op_rename(D, p, q) ==
    IF D[p].kind = "file" /\ HasParent(D, q) /\ D[q].kind # "dir"
    THEN [D EXCEPT ![q] = D[p], ![p] = Absent]
    ELSE IF D[p].kind = "dir" /\ q \in DirPaths /\ \A r \in Inside(q) : D[r] = Absent
    THEN [r \in Paths |-> IF r = q THEN Dir
                          ELSE IF r \in Inside(q) THEN D[[r EXCEPT !.dir = p.name]]
                          ELSE IF r = p \/ r \in Inside(p) THEN Absent ELSE D[r]]
    ELSE D

\* nfi_xpn_server_mkdir takes EEXIST for a success.
op_mkdir(D, p) == IF D[p].kind = "file" THEN D ELSE [D EXCEPT ![p] = Dir]
op_rmdir(D, p) ==
    IF D[p].kind = "dir" /\ \A r \in Inside(p) : D[r] = Absent THEN [D EXCEPT ![p] = Absent]
    ELSE Refused
op_write_mdata(D, p, md) ==
    IF D[p].kind = "dir" THEN D
    ELSE IF ~HasParent(D, p) THEN Refused ELSE [D EXCEPT ![p] = Piece(md)]

\* nfi_local: the calls on the server's directory, with their errors.
nfi_local_open(D, p, create, trunc) == op_open(D, p, create, trunc)
nfi_local_remove(D, p) == IF D[p].kind = "file" THEN op_rm(D, p) ELSE Refused
nfi_local_rename(D, p, q) == LET E == op_rename(D, p, q) IN IF E = D THEN Refused ELSE E
nfi_local_mkdir(D, p) == IF D[p].kind = "none" THEN op_mkdir(D, p) ELSE Refused
nfi_local_rmdir(D, p) == op_rmdir(D, p)
nfi_local_write_mdata(D, p, md) == op_write_mdata(D, p, md)

LocalRequest(k, s) ==
    CASE k.op = "create" -> nfi_local_open(disk[s], k.p, TRUE, k.trunc)
      [] k.op = "open" -> nfi_local_open(disk[s], k.p, FALSE, k.trunc)
      [] k.op = "unlink" -> nfi_local_remove(disk[s], k.p)
      [] k.op = "rename" -> nfi_local_rename(disk[s], k.p, k.q)
      [] k.op = "mkdir" -> nfi_local_mkdir(disk[s], k.p)
      [] k.op = "rmdir" -> nfi_local_rmdir(disk[s], k.p)

ServerRequest(k, s) ==
    CASE k.op = "create" -> op_open(disk[s], k.p, TRUE, k.trunc)
      [] k.op = "open" -> op_open(disk[s], k.p, FALSE, k.trunc)
      [] k.op = "unlink" -> op_rm(disk[s], k.p)
      [] k.op = "rename" -> op_rename(disk[s], k.p, k.q)
      [] k.op = "mkdir" -> op_mkdir(disk[s], k.p)
      [] k.op = "rmdir" -> op_rmdir(disk[s], k.p)

Request(k, s) == IF s \in local THEN LocalRequest(k, s) ELSE ServerRequest(k, s)

\* Whether the client sees that the request was refused.
Seen(k, s) == s \in local \/ k.op \in {"create", "open", "mkdir", "rmdir"}

\* Refused because what the call is for is so already, which it returns as an error all
\* the same.
Already(k, s) == \/ k.op = "mkdir" /\ disk[s][k.p].kind = "dir"
                 \/ k.op = "unlink" /\ disk[s][k.p] = Absent

-----------------------------------------------------------------------------
(* Calls.  A call is about p, for a rename also about q, and about what is inside. *)

About(p, q) == {p, q} \cup Inside(p) \cup Inside(q)
Parent(p) == {d \in DirPaths : d.name = p.dir}
Uses(p, q) == About(p, q) \cup Parent(p) \cup Parent(q)

\* A call that is about what another one is about or needs, a change in a directory that a
\* failed mkdir made on some servers, or one by a client that leaves out servers.  Two
\* creations of the same name do not disturb each other, but for one that truncates an old
\* file, which removes the metadata before it writes them again.
Meets(c, p, q) == {k \in Clients \ {c} : call[k] # Idle /\
                     \/ About(p, q) \cap Uses(call[k].p, call[k].q) # {}
                     \/ Uses(p, q) \cap About(call[k].p, call[k].q) # {}}
Makes(k, op, p, trunc) ==
    k.p = p /\ \/ {k.op, op} = {"mkdir"}
               \/ k.new /\ op = "create" /\ (fs[p] = 0 \/ ~(trunc \/ k.trunc))
Blurs(c, op, p, q, trunc) ==
    LET other == {k \in Meets(c, p, q) : ~Makes(call[k], op, p, trunc)}
    IN  IF other = {} /\ error[c] = {} /\ (Parent(p) \cup Parent(q)) \cap murky = {} THEN {}
        ELSE About(p, q) \cup UNION {About(call[k].p, call[k].q) : k \in other}

UsedIds == {disk[s][p].md.id : s \in Servers, p \in Paths} \cup {fs[p] : p \in FilePaths}
             \cup {call[c].md.id : c \in {c \in Clients : call[c] # Idle}}
FreshIds == 1..MaxIds \ UsedIds
MinOf(S) == CHOOSE i \in S : \A j \in S : i <= j

\* What a failed call left, an unlink that finds no metadata and a mkdir deal with.
Cleared(op, md, p) == IF op = "mkdir" \/ (op = "unlink" /\ md = NoMd) THEN {p} ELSE {}

Begin(c, op, p, q, md, todo, trunc) ==
    /\ calls < MaxCalls /\ calls' = calls + 1
    /\ call' = [call EXCEPT ![c] = [op |-> op, p |-> p, q |-> q, md |-> md, todo |-> todo,
                                    trunc |-> trunc, new |-> op = "create", err |-> "none"]]
    /\ murky' = (murky \ Cleared(op, md, p)) \cup Blurs(c, op, p, q, trunc)
    /\ UNCHANGED <<mode, local, disk, error, failures, fs, hops>>

\* XpnCreateMetadata.  Clients that create a name at once create one file.
NewIds(p) == LET made == {call[k].md.id : k \in {k \in Clients : call[k] # Idle /\ call[k].new /\ call[k].p = p}}
             IN  IF made # {} THEN made ELSE FreshIds
XpnCreateMetadata(p) == [id |-> MinOf(NewIds(p)), first |-> master_node(p), size |-> 0]

\* xpn_internal_open with O_CREAT, as creat does: old metadata is kept if there is any.
create(c, p, trunc) ==
    LET r == XpnReadMetadata(c, p)
        md == IF r.md = NoMd THEN XpnCreateMetadata(p) ELSE r.md
    IN  /\ call[c] = Idle /\ p \in FilePaths
        /\ r.md = NoMd => NewIds(p) # {}
        /\ Begin(c, "create", p, p, md, XpnCheckServAffectedByOp(md, p), trunc)

\* Without O_CREAT only the server that lists the file is asked.
open(c, p, trunc) ==
    LET r == XpnReadMetadata(c, p)
    IN  /\ call[c] = Idle /\ p \in FilePaths /\ r.ok
        /\ Begin(c, "open", p, p, r.md, {master_dir(p)}, trunc)

\* xpn_internal_remove and xpn_simple_rename go on without metadata, on all servers.
unlink(c, p) ==
    LET r == XpnReadMetadata(c, p)
    IN  /\ call[c] = Idle /\ p \in FilePaths
        /\ Begin(c, "unlink", p, p, r.md, XpnCheckServAffectedByOp(r.md, p), FALSE)
rename(c, p, q) ==
    LET r == XpnReadMetadata(c, p)
    IN  /\ call[c] = Idle /\ p # q /\ (p \in DirPaths <=> q \in DirPaths)
        /\ Begin(c, "rename", p, q, r.md, XpnCheckServAffectedByOp(r.md, p), FALSE)
mkdirThere(c, p) ==
    call[c] = Idle /\ p \in DirPaths
    /\ Begin(c, "mkdir", p, p, NoMd, After(master_dir(p), replication), FALSE)
mkdir(c, p) == call[c] = Idle /\ p \in DirPaths /\ Begin(c, "mkdir", p, p, NoMd, Servers, FALSE)
rmdir(c, p) == call[c] = Idle /\ p \in DirPaths /\ Begin(c, "rmdir", p, p, NoMd, Servers, FALSE)

\* One request.  A server in error is left out; a server may fail, which the client of a
\* remove or rename is not told.
Serve(c) ==
    LET k == call[c]
        s == MinOf(k.todo)
        D == Request(k, s)
    IN  /\ k # Idle /\ k.op # "update" /\ k.todo # {}
        /\ \/ /\ s \in error[c]
              /\ call' = [call EXCEPT ![c].todo = @ \ {s}]
              /\ UNCHANGED <<disk, failures, murky>>
           \/ /\ s \notin error[c] /\ D # Refused
              /\ disk' = [disk EXCEPT ![s] = D]
              /\ call' = [call EXCEPT ![c].todo = @ \ {s}]
              /\ UNCHANGED <<failures, murky>>
           \/ /\ s \notin error[c] /\ (D = Refused \/ failures < MaxFailures)
              /\ failures' = IF D = Refused THEN failures ELSE failures + 1
              /\ call' = [call EXCEPT ![c].todo = @ \ {s}, ![c].err =
                            IF ~Seen(k, s) THEN @
                            ELSE IF D = Refused /\ Already(k, s) /\ @ # "failed" THEN "already"
                            ELSE "failed"]
              /\ murky' = IF Seen(k, s) THEN murky ELSE murky \cup About(k.p, k.q)
              /\ UNCHANGED disk
        /\ UNCHANGED <<mode, local, error, calls, fs, hops>>

\* XpnUpdateMetadata of a creation or of a rename: the servers of the new name.  It awaits
\* all but the last of its requests (without copies, none): a creation fails if one of
\* these does, a rename does not look.
XpnUpdateMetadata(c) ==
    LET k == call[c]
    IN  /\ k # Idle /\ k.op \in {"create", "rename"} /\ k.todo = {} /\ k.err = "none" /\ k.md # NoMd
        /\ call' = [call EXCEPT ![c].op = "update", ![c].todo = After(master_node(k.q), replication)]
        /\ UNCHANGED <<mode, local, disk, error, failures, calls, ghosts>>
Awaited(p) == {(master_node(p) + i) % n : i \in 0..(replication - 1)}
WriteMetadata(c) ==
    LET k == call[c]
        s == MinOf(k.todo)
        D == IF s \in local THEN nfi_local_write_mdata(disk[s], k.q, k.md)
             ELSE op_write_mdata(disk[s], k.q, k.md)
    IN  /\ k # Idle /\ k.op = "update" /\ k.todo # {}
        /\ \/ /\ s \in error[c]
              /\ call' = [call EXCEPT ![c].todo = @ \ {s}]
              /\ UNCHANGED <<disk, failures, murky>>
           \/ /\ s \notin error[c] /\ D # Refused
              /\ disk' = [disk EXCEPT ![s] = D]
              /\ call' = [call EXCEPT ![c].todo = @ \ {s}]
              /\ UNCHANGED <<failures, murky>>
           \/ /\ s \notin error[c] /\ (D = Refused \/ failures < MaxFailures)
              /\ failures' = IF D = Refused THEN failures ELSE failures + 1
              /\ call' = [call EXCEPT ![c].todo = @ \ {s},
                            ![c].err = IF k.new /\ s \in Awaited(k.q) THEN "failed" ELSE @]
              /\ murky' = murky \cup About(k.p, k.q)
              /\ UNCHANGED disk
        /\ UNCHANGED <<mode, local, error, calls, fs, hops>>

-----------------------------------------------------------------------------
(* Returns, which is where what the clients were told changes. *)

Told(c, f, h, m) ==
    /\ fs' = f /\ hops' = h /\ murky' = m
    /\ call' = [call EXCEPT ![c] = Idle]
    /\ UNCHANGED <<mode, local, disk, error, failures, calls>>
Returns(c, op) == call[c] # Idle /\ call[c].op = op /\ call[c].todo = {}

\* A call that failed leaves what it had done; opening changed nothing it told of, and
\* nothing is in a directory that could not be made.
Fails(c) ==
    /\ call[c] # Idle /\ call[c].todo = {} /\ call[c].err = "failed"
    /\ Told(c, fs, hops, IF call[c].op = "open" /\ ~call[c].trunc THEN murky
                         ELSE IF call[c].op = "mkdir" THEN murky \cup {call[c].p}
                         ELSE murky \cup About(call[c].p, call[c].q))

Created(c) ==
    LET p == call[c].p
    IN  /\ Returns(c, "update") /\ call[c].new /\ call[c].err = "none"
        /\ Told(c, [fs EXCEPT ![p] = call[c].md.id],
                   IF fs[p] = 0 THEN [hops EXCEPT ![p] = 0] ELSE hops,
                   murky \cup (IF fs[p] = 0 THEN {} ELSE {q \in {p} : fs[p] # call[c].md.id}))

\* O_TRUNC without O_CREAT cuts the one piece, with the metadata if they are in it.
Opened(c) ==
    /\ Returns(c, "open") /\ call[c].err = "none"
    /\ Told(c, fs, hops, IF call[c].trunc THEN murky \cup {call[c].p} ELSE murky)

Unlinked(c) ==
    LET p == call[c].p
    IN  /\ Returns(c, "unlink") /\ call[c].err # "failed"
        /\ Told(c, [fs EXCEPT ![p] = 0], [hops EXCEPT ![p] = 0],
                   IF hops[p] = 2 /\ call[c].md # NoMd THEN murky \cup {p} ELSE murky)

\* A file renamed once has its pieces at the old name's servers and metadata at the new.
Renamed(c) ==
    LET k == call[c]
        once == k.p.dir = k.q.dir /\ hops[k.p] = 0 /\ fs[k.q] = 0
    IN  /\ Returns(c, "update") /\ ~k.new
        /\ Told(c, [fs EXCEPT ![k.q] = fs[k.p], ![k.p] = 0],
                   [hops EXCEPT ![k.q] = IF once THEN 1 ELSE 2, ![k.p] = 0],
                   murky \cup (IF fs[k.p] = 0 \/ hops[k.p] = 2 \/ k.p \in murky
                             THEN {k.p, k.q} ELSE {}))

\* Without metadata: a directory, with all that is inside, or nothing.
RenamedDir(c) ==
    LET k == call[c]
        From(r) == [r EXCEPT !.dir = k.p.name]
        moves == k.p \in DirPaths /\ fs[k.p] # 0 /\ fs[k.q] = 0
                 /\ \A r \in Inside(k.q) : fs[r] = 0
    IN  /\ Returns(c, "rename") /\ k.err = "none" /\ k.md = NoMd
        /\ IF moves
           THEN Told(c, [r \in Paths |-> IF r = k.q THEN fs[k.p]
                                         ELSE IF r \in Inside(k.q) THEN fs[From(r)]
                                         ELSE IF r \in About(k.p, k.p) THEN 0 ELSE fs[r]],
                        [r \in Paths |-> IF r \in Inside(k.q) /\ fs[From(r)] # 0 THEN 2
                                         ELSE IF r \in Inside(k.p) THEN 0 ELSE hops[r]],
                        murky \cup (IF About(k.p, k.q) \cap murky # {} THEN About(k.p, k.q) ELSE {}))
           ELSE Told(c, fs, hops, murky \cup About(k.p, k.q))

Made(c) ==
    /\ Returns(c, "mkdir") /\ call[c].err # "failed"
    /\ Told(c, [fs EXCEPT ![call[c].p] = 1], hops, murky)
Removed(c) ==
    /\ Returns(c, "rmdir") /\ call[c].err = "none"
    /\ Told(c, [fs EXCEPT ![call[c].p] = 0], hops, murky)

\* A write through a new descriptor of the file, see StripedFile: one more block, whose
\* servers make the pieces they miss, and the new size where the metadata are.
write(c, p) ==
    LET md == XpnReadMetadata(c, p).md
        longer == [md EXCEPT !.size = @ + 1]
        to == BlockHolders(md, md.size)
    IN  /\ call[c] = Idle /\ error[c] = {} /\ p \in FilePaths
        /\ md # NoMd /\ md.size < MaxSize
        /\ p \notin murky /\ \A k \in Clients : call[k] # Idle => p \notin Uses(call[k].p, call[k].q)
        /\ disk' = [s \in Servers |->
                      [disk[s] EXCEPT ![p] =
                         IF s \in After(master_node(p), replication) /\ @.md # NoMd
                         THEN Piece([@.md EXCEPT !.size = longer.size])
                         ELSE IF s \in to /\ HasParent(disk[s], p) /\ @ = Absent THEN Piece(NoMd)
                         ELSE @]]
        /\ UNCHANGED <<mode, local, error, call, failures, calls, ghosts>>

xpn_simple_mark_error_server(c, s) ==
    /\ call[c] = Idle /\ s \notin error[c] /\ Cardinality(error[c]) < mode.max_errors
    /\ error' = [error EXCEPT ![c] = @ \cup {s}]
    /\ UNCHANGED <<mode, local, disk, call, failures, calls, ghosts>>

-----------------------------------------------------------------------------
Calls(c) ==
    /\ call[c] = Idle
    /\ \/ \E p \in FilePaths : unlink(c, p) \/ write(c, p)
                               \/ \E trunc \in BOOLEAN : create(c, p, trunc) \/ open(c, p, trunc)
       \/ \E p \in DirPaths : mkdir(c, p) \/ rmdir(c, p)
       \/ \E p, q \in FilePaths : rename(c, p, q)
       \/ \E p, q \in DirPaths : rename(c, p, q)
       \/ \E s \in Servers : xpn_simple_mark_error_server(c, s)
Steps(c) == Serve(c) \/ XpnUpdateMetadata(c) \/ WriteMetadata(c)
Ends(c) == \/ Fails(c) \/ Created(c) \/ Opened(c) \/ Unlinked(c) \/ Renamed(c) \/ RenamedDir(c)
           \/ Made(c) \/ Removed(c)

Next == \E c \in Clients : Calls(c) \/ Steps(c) \/ Ends(c)

Spec == Init /\ [][Next]_vars

-----------------------------------------------------------------------------
\* No call is about p or what p is in, and no failure, overlap or server left out blurred it.
Settled(p) == /\ \A r \in murky : r \notin About(p, p) \cup Parent(p)
              /\ \A c \in Clients : call[c] # Idle => p \notin Uses(call[c].p, call[c].q)

\* A file that was created, or renamed inside its directory, is on the server that open
\* goes to and is listed by readdir, also of a client that marked as many servers in error
\* as there are copies (XpnGetEntry), and has its metadata where stat looks for them.
FoundAgain ==
    \A p \in FilePaths : fs[p] # 0 /\ Settled(p) =>
        /\ disk[master_node(p)][p].md.id = fs[p]
        /\ hops[p] < 2 =>
             /\ disk[master_dir(p)][p].kind = "file"
             /\ \A c \in Clients :
                  Cardinality(error[c]) <= replication => p \in XpnGetEntry(c, p.dir)

\* unlink, rmdir and rename leave no piece on any server, so that the directory can be
\* removed, unless the file was renamed more than once or to another directory.
NothingLeft ==
    \A p \in Paths : fs[p] = 0 /\ Settled(p) => \A s \in Servers : disk[s][p] = Absent

\* A directory is on every server, so that files can be created wherever they hash to.
DirEverywhere ==
    \A d \in DirPaths : fs[d] # 0 /\ Settled(d) => \A s \in Servers : disk[s][d] = Dir

\* stat reports the size that the other clients see while fewer servers are in error than
\* there are copies besides the first, and few enough for the search, whose steps grow:
\* after k servers in error it is k(k + 1)/2 beyond the first, which must be a copy.  With
\* three in error and four copies besides the first it is not.
StatFromReplica ==
    \A p \in FilePaths : fs[p] # 0 /\ Settled(p) =>
        \A c \in Clients :
            LET k == Cardinality(error[c])
            IN  k < replication /\ k * (k + 1) <= 2 * replication =>
                  XpnGetAtribPath(c, p) = disk[master_node(p)][p].md.size

=============================================================================
