------------------------------ MODULE TreeWalk ------------------------------
(***************************************************************************)
(* The walk of the MPI utilities over the tree of a partition: main() and  *)
(* list() of xpn_preload, xpn_flush, xpn_expand, xpn_shrink, xpn_rebuild,  *)
(* xpn_rebuild_active_reader and xpn_rebuild_active_writer.                *)
(*                                                                         *)
(* One rank reads a directory and broadcasts its entries, all ranks copy   *)
(* each entry and go down into the sub-directories.  Nothing but the order *)
(* of the calls says which collective operation of one rank belongs to     *)
(* which of another: the k-th of each belong together.  What copy() does   *)
(* with the data of a file is in Movement; here it is its collectives, the *)
(* directories it needs and the ways it gives up.                          *)
(***************************************************************************)
EXTENDS Integers, Sequences, FiniteSets, FiniteSetsExt, SequencesExt

CONSTANTS
    Jobs,           \* [tool, dirs, files, hosts, old, new]: the tree, the host of
                    \* each rank, and the lines of the old and the new hostfile
    MaxRanks,       \* bound: ranks of a job
    HashOf(_),      \* hash of a path before the modulo
    LineNames(_, _), \* the line of a hostfile contains the name of a host
    MaxFailures     \* bound: calls that fail

VARIABLES
    util,      \* the utility, its tree and its ranks
    stack,     \* calls of list() of each rank, innermost first
    ops,       \* what each rank does before it goes on with the loop of list()
    passed,    \* collectives that each rank has left
    inside,    \* whether it is in the next one
    net,       \* the collectives that some rank has entered
    has,       \* directories on the disk of each host
    outside,   \* what xpn_flush has made in the destination
    copied,    \* entries that each rank has copied
    skipped,   \* entries that were not sent, or that the ranks gave up
    missed,    \* entries that some rank could not create for want of a directory
    failures,  \* calls that failed
    torn,      \* a rank has returned from list() or copy() that others are in
    aborted    \* MPI_Abort

comm == <<passed, inside, net>>
disks == <<has, outside, copied, missed>>
faults == <<failures, torn, aborted>>
walkVars == <<util, stack, ops, comm, disks, skipped, faults>>

Root == <<>>
End == <<"end">>

\* What the utilities are run on: a tree of names, and a rank for each host they are given.
ASSUME TreeWalkAssumption ==
    /\ MaxRanks \in Nat /\ MaxFailures \in Nat
    /\ \A j \in Jobs :
         /\ j.tool \in {"preload", "flush", "expand", "shrink", "rebuild", "active_reader", "active_writer"}
         /\ j.dirs \cup j.files \subseteq Seq(STRING) /\ j.dirs \cap j.files = {}
         /\ Root \in j.dirs /\ End \notin j.dirs \cup j.files
         /\ \A p \in (j.dirs \cup j.files) \ {Root} : Front(p) \in j.dirs
         /\ \A p \in j.dirs \cup j.files : HashOf(p) \in Nat
         /\ Len(j.hosts) \in 1..MaxRanks
         /\ {j.hosts, j.old, j.new} \subseteq Seq(STRING)
         /\ j.tool = "expand" => j.old # <<>>

Rebuilds == {"rebuild", "active_reader", "active_writer"}
Ranks == 0..(Len(util.hosts) - 1)
Size == Len(util.hosts)

-----------------------------------------------------------------------------
(* Ranks and servers: calculate_ranks_sizes() and main() of the rebuilds.   *)
(* A host with a line in each hostfile has two ranks, except in xpn_rebuild.*)

HostOf(r) == util.hosts[r + 1]

\* The last line that contains the name of the host counts.
calculate_rank(lines, h) ==
    LET found == {i \in 1..Len(lines) : LineNames(lines[i], h)}
    IN  IF found = {} THEN -1 ELSE Max(found) - 1

\* The two variants of the rebuild are started with a rank for every line of both
\* hostfiles, whose names are told apart by the last line that contains them.
ASSUME RanksAssumption ==
    \A j \in Jobs : j.tool \in {"active_reader", "active_writer"} =>
        /\ \A lines \in {j.old, j.new} : \A i \in 1..Len(lines) :
              calculate_rank(lines, lines[i]) = i - 1 /\ \E k \in 1..Len(j.hosts) : j.hosts[k] = lines[i]
        /\ \A k \in 1..Len(j.hosts) :
              calculate_rank(j.old, j.hosts[k]) # -1 /\ calculate_rank(j.new, j.hosts[k]) # -1 =>
                  \E l \in 1..Len(j.hosts) : l # k /\ j.hosts[l] = j.hosts[k]

old_rank(r) == calculate_rank(util.old, HostOf(r))
new_rank(r) == calculate_rank(util.new, HostOf(r))

\* Of several ranks with the same role the last one reads and the first one
\* writes.  ReadsFirst takes the first one for both.
ReadsFirst(r) == \A s \in Ranks : s < r => old_rank(s) # old_rank(r)
Reads(r) == \A s \in Ranks : s > r => old_rank(s) # old_rank(r)
Writes(r) == \A s \in Ranks : s < r => new_rank(s) # new_rank(r)
rank_actual_to_old == [r \in Ranks |-> IF util.tool = "rebuild" \/ Reads(r) THEN old_rank(r) ELSE -1]
rank_actual_to_new == [r \in Ranks |-> IF util.tool = "rebuild" \/ Writes(r) THEN new_rank(r) ELSE -1]

master_old == LET first == {r \in Ranks : rank_actual_to_old[r] = 0}
              IN  IF first = {} THEN 0 ELSE Max(first)

\* The rank that reads a directory and sends its entries, and the one that has
\* the metadata of a file.  xpn_expand counts the old servers only.
MasterOf(path) ==
    IF util.tool \in Rebuilds THEN master_old
    ELSE HashOf(path) % (IF util.tool = "expand" THEN Len(util.old) ELSE Size)

\* Every rank of xpn_preload reads the source by itself.
ReadsDir(r, dir) == util.tool = "preload" \/ r = MasterOf(dir)

-----------------------------------------------------------------------------
(* The tree.                                                                *)

IsDir(path) == path \in util.dirs
Parent(path) == Front(path)
Entries(dir) == {p \in util.files \cup (util.dirs \ {Root}) : Parent(p) = dir}

-----------------------------------------------------------------------------
(* What a rank does with an entry: calls that all ranks make together, and  *)
(* steps of its own.                                                        *)

Entry(dir, path) == [kind |-> "entry", root |-> MasterOf(dir), value |-> path]   \* Bcast
Ready(path) == [kind |-> "ready", root |-> 0, value |-> path]                    \* Bcast
Header(path) == [kind |-> "header", root |-> MasterOf(path), value |-> path]     \* Bcast
Barrier == [kind |-> "barrier", root |-> -1, value |-> End]
Exchange == [kind |-> "exchange", root |-> -1, value |-> End]  \* Allreduce, Allgather, split
Local(kind, path) == [kind |-> kind, root |-> -1, value |-> path]
Bcasts == {"entry", "ready", "header"}
Collectives == Bcasts \cup {"barrier", "exchange"}

\* copy() of xpn_flush, as long as no call of it fails (CopyFails).  FlushCopyHasty goes on before the directory is made.
FlushFile(path) == <<Local("creat", path), Ready(path), Barrier, Local("open", path),
                     Header(path), Local("copy", path)>>
FlushCopyHasty(path) == IF IsDir(path) THEN <<Local("copy", path)>> ELSE FlushFile(path)
FlushCopy(path) == IF IsDir(path) THEN <<Local("copy", path), Barrier>> ELSE FlushFile(path)

\* copy() of the rebuilds.  The loop over the blocks of a file ends with a break
\* of a reader or of a writer, in the two variants.  LoopEndsReader has only the
\* first.
LoopEndsReader(r) == util.tool = "rebuild" \/ rank_actual_to_old[r] # -1
LoopEnds(r) == util.tool = "rebuild" \/ rank_actual_to_old[r] # -1 \/ rank_actual_to_new[r] # -1

RebuildFile(r, path) ==
    IF util.tool = "rebuild" THEN <<Local("copy", path), Exchange>>
    ELSE <<Local(IF LoopEnds(r) THEN "copy" ELSE "spin", path), Barrier>>
RebuildCopy(r, path) ==
    <<Barrier>> \o (IF util.tool = "rebuild" THEN <<>> ELSE <<Exchange>>) \o <<Header(path)>>
    \o (IF IsDir(path) THEN <<Local("copy", path)>> ELSE RebuildFile(r, path))
    \o <<Barrier>>

CopyOps(r, path) ==
    CASE util.tool = "preload" -> <<Local("copy", path)>>
      [] util.tool = "flush" -> FlushCopy(path)
      [] util.tool \in Rebuilds -> RebuildCopy(r, path)
      [] util.tool = "expand" -> IF IsDir(path) THEN <<>> ELSE <<Header(path), Local("copy", path)>>
      [] util.tool = "shrink" -> IF IsDir(path) THEN <<>>
                                 ELSE <<Header(path), Exchange, Local("copy", path)>>

\* In xpn_rebuild only the rank that reads the directory goes down.
\* DescendsMaster is that of xpn_rebuild for all.
DescendsMaster(r, path) == IsDir(path) /\ ReadsDir(r, Parent(path))
Descends(r, path) == IsDir(path) /\ (util.tool = "rebuild" => r = master_old)

EntryOps(r, path) ==
    CopyOps(r, path) \o (IF Descends(r, path) THEN <<Local("list", path)>> ELSE <<>>)

Send(dir, value) == IF util.tool = "preload" THEN <<>> ELSE <<Entry(dir, value)>>

-----------------------------------------------------------------------------
(* list().                                                                  *)

Call(dir) == [dir |-> dir, at |-> "open", left |-> {}]
Listing(r) == ~aborted /\ r \in Ranks /\ ops[r] = <<>>
Top(r) == Head(stack[r])
At(r, at) == Listing(r) /\ stack[r] # <<>> /\ Top(r).at = at
Returned(r) == [stack EXCEPT ![r] = Tail(@)]

Opendir(r) ==
    /\ At(r, "open") /\ ReadsDir(r, Top(r).dir)
    /\ stack' = [stack EXCEPT ![r][1] = [@ EXCEPT !.at = "read", !.left = Entries(Top(r).dir)]]
    /\ UNCHANGED <<util, ops, comm, disks, skipped, faults>>

\* The rebuilds abort; the others return to the caller, although the other
\* ranks wait for the entries of the directory.
OpendirFails(r) ==
    /\ At(r, "open") /\ ReadsDir(r, Top(r).dir) /\ failures < MaxFailures
    /\ failures' = failures + 1
    /\ aborted' = (util.tool \in Rebuilds)
    /\ torn' = (util.tool \notin Rebuilds \cup {"preload"})
    /\ skipped' = skipped \cup Entries(Top(r).dir)
    /\ stack' = Returned(r)
    /\ UNCHANGED <<util, ops, comm, disks>>

ReadEntry(r, path) ==
    /\ At(r, "read") /\ path \in Top(r).left
    /\ stack' = [stack EXCEPT ![r][1].left = @ \ {path}]
    /\ ops' = [ops EXCEPT ![r] = Send(Top(r).dir, path) \o EntryOps(r, path)]
    /\ UNCHANGED <<util, comm, disks, skipped, faults>>

StatFails(r, path) ==
    /\ At(r, "read") /\ path \in Top(r).left /\ failures < MaxFailures
    /\ stack' = [stack EXCEPT ![r][1].left = @ \ {path}]
    /\ failures' = failures + 1
    /\ skipped' = skipped \cup {path}
    /\ UNCHANGED <<util, ops, comm, disks, torn, aborted>>

EndOfDir(r) ==
    /\ At(r, "read") /\ Top(r).left = {}
    /\ stack' = [stack EXCEPT ![r][1].at = "close"]
    /\ ops' = [ops EXCEPT ![r] = Send(Top(r).dir, End)]
    /\ UNCHANGED <<util, comm, disks, skipped, faults>>

Closedir(r) ==
    /\ At(r, "close")
    /\ stack' = Returned(r)
    /\ UNCHANGED <<util, ops, comm, disks, skipped, faults>>

\* The loop of the other ranks; what comes decides how it goes on (Leave).
AwaitEntry(r) ==
    /\ At(r, "open") /\ ~ReadsDir(r, Top(r).dir)
    /\ ops' = [ops EXCEPT ![r] = <<Entry(Top(r).dir, Root)>>]
    /\ UNCHANGED <<util, stack, comm, disks, skipped, faults>>

\* The end of main().
LastBarrier(r) ==
    /\ Listing(r) /\ stack[r] = <<>>
    /\ ops' = [ops EXCEPT ![r] = <<Barrier, Local("exit", Root)>>]
    /\ UNCHANGED <<util, stack, comm, disks, skipped, faults>>

Ended(r) == ops[r] = <<Local("exit", Root)>>

-----------------------------------------------------------------------------
(* The collective operations.                                               *)

Doing(r, kinds) == ~aborted /\ r \in Ranks /\ ops[r] # <<>> /\ Head(ops[r]).kind \in kinds

\* What the root of a broadcast sends.  Rank 0 of xpn_flush sends whether it
\* has created the file; the variable is not set if another rank has to.
Sent(op) ==
    IF op.kind # "ready" THEN {op.value}
    ELSE IF MasterOf(op.value) # 0 THEN {op.value, End}
    ELSE IF op.value \in outside THEN {op.value} ELSE {End}

Enter(r) ==
    LET op == Head(ops[r])
        k == passed[r] + 1
    IN  /\ Doing(r, Collectives) /\ ~inside[r]
        /\ inside' = [inside EXCEPT ![r] = TRUE]
        /\ \E value \in IF r = op.root THEN Sent(op) ELSE {Root} :
              net' = IF k > Len(net) THEN Append(net, [kind |-> op.kind, root |-> op.root,
                                                       value |-> value, in |-> {r}])
                     ELSE [net EXCEPT ![k] = [net[k] EXCEPT !.in = @ \cup {r},
                                                            !.value = IF r = op.root THEN value ELSE @]]
        /\ UNCHANGED <<util, stack, ops, passed, disks, skipped, faults>>

Agree(op, c) == op.kind = c.kind /\ op.root = c.root

\* The root of a broadcast need not wait; the others wait for the root, and in
\* the other operations all wait for all.
Over(r, c) == IF c.kind \in Bcasts THEN c.root \in c.in ELSE c.in = Ranks

Leave(r) ==
    LET op == Head(ops[r])
        c == net[passed[r] + 1]
        awaited == op.kind = "entry" /\ r # op.root
        gives_up == op.kind = "ready" /\ c.value = End
    IN  /\ Doing(r, Collectives) /\ inside[r] /\ Agree(op, c) /\ Over(r, c)
        /\ inside' = [inside EXCEPT ![r] = FALSE]
        /\ passed' = [passed EXCEPT ![r] = @ + 1]
        /\ ops' = [ops EXCEPT ![r] = IF awaited /\ c.value # End THEN EntryOps(r, c.value)
                                     ELSE IF gives_up THEN <<>> ELSE Tail(@)]
        /\ stack' = IF awaited /\ c.value = End THEN Returned(r) ELSE stack
        /\ skipped' = IF gives_up THEN skipped \cup {op.value} ELSE skipped
        /\ UNCHANGED <<util, net, disks, faults>>

-----------------------------------------------------------------------------
(* The steps of a rank of its own.                                          *)

Done(r) == [ops EXCEPT ![r] = Tail(@)]

Descend(r) ==
    /\ Doing(r, {"list"})
    /\ stack' = [stack EXCEPT ![r] = <<Call(Head(ops[r]).value)>> \o @]
    /\ ops' = Done(r)
    /\ UNCHANGED <<util, comm, disks, skipped, faults>>

\* The master node of a file creates it in the destination of xpn_flush.
FlushCreat(r) ==
    LET path == Head(ops[r]).value
        there == Parent(path) \in outside
    IN  /\ Doing(r, {"creat"})
        /\ outside' = IF r = MasterOf(path) /\ there THEN outside \cup {path} ELSE outside
        /\ missed' = IF r = MasterOf(path) /\ ~there THEN missed \cup {path} ELSE missed
        /\ ops' = Done(r)
        /\ UNCHANGED <<util, stack, comm, has, copied, skipped, faults>>

FlushOpen(r) ==
    LET path == Head(ops[r]).value
    IN  /\ Doing(r, {"open"})
        /\ ops' = IF path \in outside THEN Done(r) ELSE [ops EXCEPT ![r] = <<>>]
        /\ skipped' = IF path \in outside THEN skipped ELSE skipped \cup {path}
        /\ UNCHANGED <<util, stack, comm, disks, faults>>

\* copy() of xpn_flush returns where it has no memory or a call fails: a stat, or rank 0's
\* mkdir, before any collective, the open of the source before the barrier, or that of a
\* destination that is there after it.  Nobody tells the other ranks, which go on with the
\* collectives of the entry while this one goes on to the next, or down.
Returns(r, path) == \/ Doing(r, {"creat", "open"})
                    \/ Doing(r, {"copy"}) /\ IsDir(path)
                    \/ Doing(r, {"barrier"}) /\ ~IsDir(path) /\ ~inside[r]
CopyFails(r) ==
    LET path == Last(ops[r]).value
    IN  /\ util.tool = "flush" /\ failures < MaxFailures /\ Returns(r, path)
        /\ failures' = failures + 1 /\ torn' = TRUE
        /\ skipped' = skipped \cup {path}
        /\ ops' = [ops EXCEPT ![r] = IF IsDir(path) THEN <<Local("list", path)>> ELSE <<>>]
        /\ UNCHANGED <<util, stack, comm, disks, aborted>>

\* Ranks that create the entry on their own disk.
Creates(r) == \/ util.tool \in {"preload", "expand"}
              \/ util.tool \in Rebuilds /\ rank_actual_to_new[r] # -1

\* A directory is made, or the file is copied (Movement).  A rank that has no
\* directory to create the file in aborts all.
Copy(r) ==
    LET path == Head(ops[r]).value
        lacking == Creates(r) /\ Parent(path) \notin has[HostOf(r)]
    IN  /\ Doing(r, {"copy"})
        /\ has' = IF Creates(r) /\ IsDir(path) /\ ~lacking
                  THEN [has EXCEPT ![HostOf(r)] = @ \cup {path}] ELSE has
        /\ outside' = IF util.tool = "flush" /\ IsDir(path) /\ r = 0
                      THEN outside \cup {path} ELSE outside
        /\ missed' = IF lacking THEN missed \cup {path} ELSE missed
        /\ aborted' = (lacking /\ util.tool # "preload")
        /\ copied' = [copied EXCEPT ![r] = @ \cup {path}]
        /\ ops' = Done(r)
        /\ UNCHANGED <<util, stack, comm, skipped, failures, torn>>

-----------------------------------------------------------------------------
\* The hosts that have the tree before the utility runs.
HasTree(h) ==
    CASE util.tool = "preload" -> FALSE
      [] util.tool \in {"flush", "shrink"} -> TRUE
      [] OTHER -> \E i \in 1..Len(util.old) : util.old[i] = h

WalkInit ==
    /\ util \in Jobs
    /\ stack = [r \in Ranks |-> <<Call(Root)>>]
    /\ ops = [r \in Ranks |-> <<>>]
    /\ passed = [r \in Ranks |-> 0] /\ inside = [r \in Ranks |-> FALSE] /\ net = <<>>
    /\ has = [h \in ToSet(util.hosts) |-> IF HasTree(h) THEN util.dirs ELSE {Root}]
    /\ outside = {Root}
    /\ copied = [r \in Ranks |-> {}] /\ skipped = {} /\ missed = {}
    /\ failures = 0 /\ torn = FALSE /\ aborted = FALSE

\* A step of rank r that is not the failure of a call.
Step(r) ==
    \/ Opendir(r) \/ EndOfDir(r) \/ Closedir(r) \/ AwaitEntry(r) \/ LastBarrier(r)
    \/ \E path \in util.files \cup util.dirs : ReadEntry(r, path)
    \/ Enter(r) \/ Leave(r)
    \/ Descend(r) \/ FlushCreat(r) \/ FlushOpen(r) \/ Copy(r)

WalkNext ==
    \E r \in Ranks : \/ Step(r) \/ OpendirFails(r) \/ CopyFails(r)
                     \/ \E path \in util.files \cup util.dirs : StatFails(r, path)

WalkSpec == WalkInit /\ [][WalkNext]_walkVars /\ \A r \in 0..(MaxRanks - 1) : WF_walkVars(Step(r))

-----------------------------------------------------------------------------
\* The walk of xpn_rebuild over sub-directories is not followed: see Descends.
Walkable == util.tool = "rebuild" => util.dirs = {Root}

\* The ranks that are in their k-th collective operation are in the same one:
\* however far one is ahead of another, list() and copy() keep the calls of all
\* in step.  Two things put them out of step (torn): the rank that reads a directory fails
\* to open it, or copy() of xpn_flush returns on one rank before a collective of the others.
WalksMeet ==
    (Walkable /\ ~torn) =>
        \A r \in Ranks : inside[r] => Agree(Head(ops[r]), net[passed[r] + 1])

\* When the utility has ended every rank has copied every entry that no rank
\* failed to send or gave up: no piece of a file stays where it was.
EveryEntryCopied ==
    LET All == IF util.tool \in {"expand", "shrink"} THEN util.files
               ELSE util.files \cup (util.dirs \ {Root})
        Below(p) == \E q \in skipped : IsPrefix(q, p)
    IN  (Walkable /\ ~torn /\ ~aborted /\ \A r \in Ranks : Ended(r)) =>
            \A r \in Ranks : /\ {p \in All : ~Below(p)} \subseteq copied[r]
                             /\ util.tool # "preload" => copied[r] = copied[0]

\* Nobody creates a file in a directory that is still to be made, although it
\* is another rank or another process that makes it.  xpn_expand makes none, and in
\* xpn_flush a mkdir of rank 0 may fail (torn).
DirMadeFirst == util.tool # "expand" /\ ~torn => missed = {}

\* The tree is copied whole, from the top.
TreeCopied == EveryEntryCopied /\ DirMadeFirst

\* Started with a rank for every line of the two hostfiles, every old server
\* has one rank that reads, every new one has one that writes, and no rank has
\* to do both at once.
RolesSplit ==
    util.tool \in {"active_reader", "active_writer"} =>
        /\ \A i \in 0..(Len(util.old) - 1) : \E r \in Ranks : rank_actual_to_old[r] = i
        /\ \A i \in 0..(Len(util.new) - 1) : \E r \in Ranks : rank_actual_to_new[r] = i
        /\ \A r \in Ranks : rank_actual_to_old[r] = -1 \/ rank_actual_to_new[r] = -1

\* The utility ends, for all of its ranks, unless a rank has left the others in a
\* collective: after a failed opendir, or a call of copy() in xpn_flush, it hangs.
WalkEnds == <>(~Walkable \/ torn \/ aborted \/ \A r \in Ranks : Ended(r))

=============================================================================
