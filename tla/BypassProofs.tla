---------------------------- MODULE BypassProofs ----------------------------
(***************************************************************************)
(* Proofs about the preloaded library, for any number of threads and of    *)
(* open files and for any first sizes of its tables.                       *)
(***************************************************************************)
EXTENDS Bypass, NaturalsInduction, WellFoundedInduction, TLAPS

\* Where a thread is while it changes a table, or moves an offset and comes back.
Opening == {"dirput", "search", "store", "last"}
Changing == Opening \cup {"remove", "dirremove", "closedir"}
Moving == {"pread", "pwrite", "back"}

Ats == {"idle"} \cup Changing \cup Moving
Entries == [type : {"FD_FREE", "FD_XPN"}, real_fd : Int]

\* A call; what its fd is depends on its place.
IsCall(c) ==
    /\ c = [at |-> c.at, id |-> c.id, fd |-> c.fd, slot |-> c.slot]
    /\ c.at \in Ats /\ c.id \in Ids \cup {None}

TableType ==
    /\ fds \in Seq(Entries) /\ dirs \in Seq(Ids \cup {None}) /\ dirsFree \in Nat
    /\ xpn \in [Slots -> Ids \cup {None}] /\ links \in [Ids -> Int]
    /\ held \in [Ids -> Int] /\ dirfd \in [Ids -> Int]
    /\ call = [t \in Threads |-> call[t]] /\ \A t \in Threads : IsCall(call[t])
    /\ pos = [o \in Ids |-> pos[o]]

\* Entry i of fdstable leads to entry i of the API's table, or to nothing.
EntrySet(i) == i < Len(fds) /\ fds[i + 1] = [type |-> "FD_XPN", real_fd |-> i]
EntryFree(i) == i < Len(fds) => fds[i + 1] = FREE

Busy(o) == \E t \in Threads : call[t].at \in Changing /\ call[t].id = o

\* What the program opened as o has the same number in both tables.
InPlace(o) ==
    \E i \in Slots :
      /\ xpn[i] = o /\ held[o] = i + PLUSXPN /\ EntrySet(i)
      /\ dirfd[o] # NoFd => dirfd[o] = held[o] /\ fdsdirtable_get(o) # {}

\* A file that is being opened: the API has it, at its first free entry, and fdstable
\* has not.
OpeningOk(c) ==
    c.at \in Opening =>
      /\ c.id \in Ids /\ c.fd \in Slots /\ xpn[c.fd] = c.id /\ held[c.id] = NoFd
      /\ EntryFree(c.fd)
      /\ \A j \in Slots : j < c.fd => xpn[j] # None
      /\ c.at \in {"store", "last"} => c.slot = c.fd /\ c.fd < Len(fds)
      /\ c.at # "dirput" /\ dirfd[c.id] # NoFd => fdsdirtable_get(c.id) # {}

\* A file that is being closed: fdstable has it and the API has not, and for a directory
\* the other way round.
ClosingOk(c) ==
    /\ c.at = "remove" =>
         /\ c.id \in Ids /\ dirfd[c.id] = NoFd /\ c.fd = held[c.id]
         /\ \A i \in Slots : xpn[i] # c.id
         /\ \E i \in Slots : c.fd = i + PLUSXPN /\ xpn[i] = None /\ EntrySet(i)
    /\ c.at = "dirremove" => c.id \in Ids /\ InPlace(c.id) /\ dirfd[c.id] # NoFd
    /\ c.at = "closedir" =>
         c.id \in Ids /\ \E i \in Slots : /\ held[c.id] = i + PLUSXPN /\ dirfd[c.id] = i
                                          /\ xpn[i] = c.id /\ EntryFree(i)

\* The file of a positioned call is not being closed.
MovingOk(c) == c.at \in Moving => c.id \in Ids /\ c.slot = c.id /\ ~Busy(c.id)

OneChanges ==
    \A t, u \in Threads : call[t].at \in Changing /\ call[u].at \in Changing => t = u

\* The files of the API are those the program holds.
FilesOk ==
    /\ \A i \in Slots : xpn[i] # None =>
         /\ ~Busy(xpn[i]) => InPlace(xpn[i])
         /\ links[xpn[i]] = 1 /\ running = TRUE
    /\ \A i, j \in Slots : xpn[i] # None /\ xpn[i] = xpn[j] => i = j
    /\ \A o \in Ids : held[o] # NoFd /\ ~Busy(o) => InPlace(o)

\* The entries in use, and none that is free below fdstable_first_free.
EntriesOk ==
    /\ \A i \in 0..(Len(fds) - 1) : fds[i + 1] # FREE =>
         i \in Slots /\ EntrySet(i) /\ (xpn[i] # None \/ \E t \in Threads : call[t].at = "remove" /\ call[t].fd = i + PLUSXPN)
    /\ fdsFree \in 0..Len(fds) /\ \A j \in 0..(fdsFree - 1) : fds[j + 1] # FREE

TableInv ==
    /\ TableType /\ OneChanges /\ FilesOk /\ EntriesOk
    /\ \A t \in Threads : OpeningOk(call[t]) /\ ClosingOk(call[t]) /\ MovingOk(call[t])

\* Nobody moved an offset between the calls of a pread or pwrite.
OffsetInv ==
    "moved" \notin flags =>
      /\ "misplaced" \notin flags
      /\ \A t \in Threads : call[t].at \in {"pread", "pwrite"} => pos[call[t].slot] = call[t].fd

\* The API runs once the library says so, or a thread is starting it.
ApiInv ==
    flags \cap {"inherited", "mkstemp", "finalized", "overtaken"} = {} =>
      /\ "early" \notin flags
      /\ Alive => (called => running \/ Starting) /\ (env => asked)

Stages == {"out", "test", "mark", "fds", "dirs", "ready"}

BypassInv ==
    /\ called \in BOOLEAN /\ env \in BOOLEAN /\ asked \in BOOLEAN /\ running \in BOOLEAN
    /\ stage \in [Threads -> Stages] /\ \A t \in Threads : stage[t] # "out" => asked
    /\ ApiInv
    /\ Regular => TableInv /\ OffsetInv

-----------------------------------------------------------------------------
(* Numbers, entries and flags *)

LEMMA MinOfIs ==
    ASSUME NEW S \in SUBSET Nat, S # {}
    PROVE  MinOf(S) \in S /\ \A j \in S : MinOf(S) <= j
  <1> DEFINE Less == {ss \in Nat \X Nat : ss[1] < ss[2]}
  <1>1. IsWellFoundedOn(Less, Nat)
    BY NatLessThanWellFounded, Zenon DEF OpToRel
  <1>2. \E i \in S : \A j \in S : i <= j
    <2> HIDE DEF Less
    <2>1. PICK i \in S : \A j \in S : ~(<<j, i>> \in Less)
      BY <1>1, WFMin
    <2>2. ASSUME NEW j \in S PROVE i <= j
      <3>1. i \in Nat /\ j \in Nat /\ <<j, i>> \notin Less
        BY <2>1
      <3>2. <<j, i>> \in Less <=> j < i
        BY <3>1 DEF Less
      <3> QED
        BY <3>1, <3>2
    <2> QED
      BY <2>2
  <1> QED
    BY <1>2 DEF MinOf

\* Flags are kept, but by exec.
LEMMA FlagsKept ==
    ASSUME flags \subseteq flags'
    PROVE  /\ Regular' => Regular
           /\ Alive' => Alive
           /\ (flags \cap {"inherited", "mkstemp", "finalized", "overtaken"} = {})' =>
                flags \cap {"inherited", "mkstemp", "finalized", "overtaken"} = {}
  BY DEF Regular, Alive

LEMMA RegularIsAlive == Regular => Alive
  BY DEF Regular, Alive

\* The tables at most get longer.
Grows ==
    /\ fds' \in Seq(Entries) /\ Len(fds) <= Len(fds')
    /\ \A k \in 1..Len(fds) : fds'[k] = fds[k]
    /\ \A k \in (Len(fds) + 1)..Len(fds') : fds'[k] = FREE
    /\ dirs' \in Seq(Ids \cup {None})
    /\ \A o \in Ids : fdsdirtable_get(o) # {} => fdsdirtable_get(o)' # {}
    /\ running => running' = TRUE

LEMMA FreeIsEntry == FREE \in Entries
  BY DEF FREE, Entries, NoFd

LEMMA FdsGrow ==
    ASSUME fds \in Seq(Entries)
    PROVE  /\ fdstable_realloc \in Seq(Entries) /\ Len(fds) < Len(fdstable_realloc)
           /\ \A k \in 1..Len(fds) : fdstable_realloc[k] = fds[k]
           /\ \A k \in (Len(fds) + 1)..Len(fdstable_realloc) : fdstable_realloc[k] = FREE
  <1> DEFINE n == IF fds = <<>> THEN MAX_FDS ELSE Len(fds)
             new == [i \in 1..n |-> FREE]
  <1>1. n \in Nat \ {0}
    BY BypassAssumption
  <1> HIDE DEF n
  <1>2. new \in Seq(Entries) /\ Len(new) = n
    BY <1>1, FreeIsEntry
  <1>3. fdstable_realloc = fds \o new
    BY DEF fdstable_realloc, n
  <1> HIDE DEF new
  <1>4. \A k \in 1..n : new[k] = FREE
    BY <1>1 DEF new
  <1> QED
    BY <1>1, <1>2, <1>3, <1>4

LEMMA DirsGrow ==
    ASSUME dirs \in Seq(Ids \cup {None})
    PROVE  /\ fdsdirtable_realloc \in Seq(Ids \cup {None}) /\ Len(dirs) < Len(fdsdirtable_realloc)
           /\ \A k \in 1..Len(dirs) : fdsdirtable_realloc[k] = dirs[k]
  <1> DEFINE n == IF dirs = <<>> THEN MAX_DIRS ELSE Len(dirs)
             new == [i \in 1..n |-> None]
  <1>1. n \in Nat \ {0}
    BY BypassAssumption
  <1> HIDE DEF n
  <1>2. new \in Seq(Ids \cup {None}) /\ Len(new) = n
    BY <1>1
  <1>3. fdsdirtable_realloc = dirs \o new
    BY DEF fdsdirtable_realloc, n
  <1> HIDE DEF new
  <1> QED
    BY <1>1, <1>2, <1>3

\* A longer table of directories lists those it listed.
LEMMA StillListed ==
    ASSUME dirs \in Seq(Ids \cup {None}), dirs' \in Seq(Ids \cup {None}), Len(dirs) <= Len(dirs'),
           NEW o, fdsdirtable_get(o) # {}, \A k \in 1..Len(dirs) : dirs[k] = o => dirs'[k] = o
    PROVE  fdsdirtable_get(o)' # {}
  <1>1. PICK i \in 0..(Len(dirs) - 1) : dirs[i + 1] = o
    BY DEF fdsdirtable_get
  <1>2. i \in 0..(Len(dirs') - 1) /\ dirs'[i + 1] = o
    BY <1>1
  <1> QED
    BY <1>2 DEF fdsdirtable_get

\* xpn_adaptor_keepInit leaves the mark set only if the API runs or is being started.
Kept == \E t \in Threads : xpn_adaptor_keepInit(t)

LEMMA KeepInitStarts ==
    ASSUME BypassInv, Alive, Kept
    PROVE  /\ called' \in BOOLEAN /\ env' \in BOOLEAN /\ asked' \in BOOLEAN /\ running' \in BOOLEAN
           /\ stage' \in [Threads -> Stages] /\ \A u \in Threads : stage'[u] # "out" => asked'
           /\ flags \cap {"inherited", "mkstemp", "finalized", "overtaken"} = {} =>
                /\ Api = {} \/ "overtaken" \in Api
                /\ called' => running' \/ Starting'
                /\ env' => asked'
  <1>1. PICK t \in Threads : xpn_adaptor_keepInit(t)
    BY DEF Kept
  <1>2. env' = env /\ running' = running /\ stage' = [stage EXCEPT ![t] = "out"]
        /\ stage[t] \in {"out", "ready"} /\ stage \in [Threads -> Stages]
    BY <1>1 DEF xpn_adaptor_keepInit, BypassInv
  <1>3. stage' \in [Threads -> Stages]
    BY <1>2 DEF Stages
  <1>4. Starting => Starting'
    <2>1. \A u \in Threads : stage[u] \in {"mark", "fds", "dirs"} => stage'[u] = stage[u]
      BY <1>2
    <2> QED
      BY <2>1 DEF Starting
  <1>5. \/ called' = called /\ asked' = asked
        \/ Known /\ called' = TRUE /\ asked' = TRUE
    BY <1>1 DEF xpn_adaptor_keepInit
  <1>6. called \in BOOLEAN /\ env \in BOOLEAN /\ asked \in BOOLEAN /\ running \in BOOLEAN
    BY DEF BypassInv
  <1>7. ASSUME flags \cap {"inherited", "mkstemp", "finalized", "overtaken"} = {}
        PROVE  (called => running \/ Starting) /\ (env => asked)
    BY <1>7 DEF BypassInv, ApiInv
  <1>8. ASSUME flags \cap {"inherited", "mkstemp", "finalized", "overtaken"} = {}
        PROVE  (called' => running' \/ Starting) /\ (env' => asked')
    BY <1>2, <1>5, <1>6, <1>7, <1>8 DEF Known
  <1>9. ASSUME flags \cap {"inherited", "mkstemp", "finalized", "overtaken"} = {}
        PROVE  Api = {} \/ "overtaken" \in Api
    <2>1. CASE Starting
      BY <2>1 DEF Api
    <2>2. CASE ~Starting
      <3>1. running' \/ ~called'
        BY <1>8, <1>9, <2>2
      <3>2. asked' \/ called'
        BY <1>1, <1>2, <1>5, <1>6, <1>7, <1>9 DEF xpn_adaptor_keepInit, BypassInv
      <3> QED
        BY <3>1, <3>2 DEF Api
    <2> QED
      BY <2>1, <2>2
  <1>10. /\ called' \in BOOLEAN /\ env' \in BOOLEAN /\ asked' \in BOOLEAN /\ running' \in BOOLEAN
    BY <1>2, <1>5, <1>6
  <1>11. \A u \in Threads : stage'[u] # "out" => asked'
    BY <1>2, <1>5 DEF BypassInv
  <1> QED
    BY <1>3, <1>4, <1>8, <1>9, <1>10, <1>11

LEMMA KeepInitGrows ==
    ASSUME BypassInv, Regular, Kept
    PROVE  Grows
  <1>1. UNCHANGED <<running, fds, dirs>>
    BY DEF Kept, xpn_adaptor_keepInit
  <1> QED
    BY <1>1 DEF BypassInv, TableInv, TableType, Grows, fdsdirtable_get

\* What stays in the tables when they grow.
LEMMA GrowsKeepsEntries ==
    ASSUME TableInv, Grows
    PROVE  /\ \A i \in Nat : EntrySet(i) => EntrySet(i)'
           /\ \A i \in Nat : EntryFree(i) => EntryFree(i)'
           /\ \A i \in 0..(Len(fds') - 1) : fds'[i + 1] # FREE => i < Len(fds) /\ fds[i + 1] = fds'[i + 1]
  <1>1. Len(fds) \in Nat /\ Len(fds') \in Nat
    BY DEF Grows, TableInv, TableType
  <1>2. ASSUME NEW i \in Nat, i < Len(fds) PROVE fds'[i + 1] = fds[i + 1] /\ i < Len(fds')
    BY <1>1, <1>2 DEF Grows
  <1>3. ASSUME NEW i \in Nat, i < Len(fds'), ~(i < Len(fds)) PROVE fds'[i + 1] = FREE
    BY <1>1, <1>3 DEF Grows
  <1>4. ASSUME NEW i \in Nat, EntrySet(i) PROVE EntrySet(i)'
    BY <1>2, <1>4 DEF EntrySet
  <1>5. ASSUME NEW i \in Nat, EntryFree(i) PROVE EntryFree(i)'
    <2>1. CASE i < Len(fds)
      BY <1>2, <1>5, <2>1 DEF EntryFree
    <2>2. CASE ~(i < Len(fds))
      BY <1>3, <2>2 DEF EntryFree
    <2> QED
      BY <2>1, <2>2
  <1>6. ASSUME NEW i \in 0..(Len(fds') - 1), fds'[i + 1] # FREE
        PROVE  i < Len(fds) /\ fds[i + 1] = fds'[i + 1]
    <2>1. i \in Nat /\ i < Len(fds')
      BY <1>1
    <2>2. i < Len(fds)
      BY <1>3, <1>6, <2>1
    <2> QED
      BY <1>2, <2>1, <2>2
  <1> QED
    BY <1>4, <1>5, <1>6

LEMMA SlotsAre == Slots \subseteq Nat /\ None \notin Ids /\ NoFd \notin Nat /\ Ids \subseteq Nat /\ PLUSXPN \in Nat
  BY BypassAssumption DEF Slots, Ids, None, NoFd

LEMMA GrowsKeepsPlaces ==
    ASSUME TableInv, Grows, NEW o \in Ids, InPlace(o), xpn' = xpn, held' = held, dirfd' = dirfd
    PROVE  InPlace(o)'
  <1>1. PICK i \in Slots : /\ xpn[i] = o /\ held[o] = i + PLUSXPN /\ EntrySet(i)
                           /\ dirfd[o] # NoFd => dirfd[o] = held[o] /\ fdsdirtable_get(o) # {}
    BY DEF InPlace
  <1>2. EntrySet(i)' /\ (fdsdirtable_get(o) # {} => fdsdirtable_get(o)' # {})
    BY <1>1, GrowsKeepsEntries, SlotsAre DEF Grows
  <1> QED
    BY <1>1, <1>2 DEF InPlace

\* A step that changes no table but for its length, and no call that changes one.
Aside ==
    /\ Grows
    /\ UNCHANGED <<fdsFree, dirsFree, dirfd, xpn, links, held>>
    /\ call' = [t \in Threads |-> call'[t]] /\ pos' = [o \in Ids |-> pos'[o]]
    /\ \A t \in Threads :
         \/ call'[t] = call[t]
         \/ /\ call[t].at \notin Changing /\ call'[t].at \notin Changing /\ IsCall(call'[t])
            /\ call'[t].at \in Moving => call'[t].id \in Ids /\ call'[t].slot = call'[t].id /\ ~Busy(call'[t].id)

LEMMA AsideKeeps == ASSUME TableInv, Aside PROVE TableInv'
  <1>1. \A o : Busy(o)' <=> Busy(o)
    BY DEF Aside, Busy
  <1>2. \A t \in Threads : call[t].at \in Changing \/ call'[t].at \in Changing => call'[t] = call[t]
    BY DEF Aside
  <1>3. TableType'
    <2>1. \A t \in Threads : IsCall(call'[t])
      BY DEF Aside, TableInv, TableType
    <2> QED
      BY <2>1 DEF Aside, Grows, TableInv, TableType
  <1>4. OneChanges'
    BY <1>2 DEF TableInv, OneChanges
  <1>5. ASSUME NEW o \in Ids, InPlace(o) PROVE InPlace(o)'
    BY <1>5, GrowsKeepsPlaces DEF Aside
  <1>6. FilesOk'
    <2>1. \A i \in Slots : xpn[i] # None => xpn[i] \in Ids
      BY DEF TableInv, TableType
    <2> QED
      BY <1>1, <1>5, <2>1 DEF Aside, Grows, TableInv, FilesOk
  <1>7. EntriesOk'
    <2>1. ASSUME NEW i \in 0..(Len(fds') - 1), fds'[i + 1] # FREE
          PROVE  /\ i \in Slots /\ EntrySet(i)'
                 /\ xpn[i] # None \/ \E t \in Threads : call'[t].at = "remove" /\ call'[t].fd = i + PLUSXPN
      <3>1. i \in 0..(Len(fds) - 1) /\ fds[i + 1] # FREE
        <4>0. Grows
          BY DEF Aside
        <4>1. Len(fds) \in Nat /\ Len(fds') \in Nat
          BY <4>0 DEF Grows, TableInv, TableType
        <4>2. i < Len(fds) /\ fds[i + 1] = fds'[i + 1]
          BY <2>1, <4>0, <4>1, GrowsKeepsEntries
        <4> QED
          BY <2>1, <4>1, <4>2
      <3>2. i \in Slots /\ EntrySet(i)
            /\ (xpn[i] # None \/ \E t \in Threads : call[t].at = "remove" /\ call[t].fd = i + PLUSXPN)
        BY <3>1 DEF TableInv, EntriesOk
      <3>3. EntrySet(i)'
        BY <3>2, SlotsAre, GrowsKeepsEntries DEF Aside
      <3> QED
        BY <1>2, <3>2, <3>3 DEF Changing
    <2>2. fdsFree \in 0..Len(fds') /\ \A j \in 0..(fdsFree - 1) : fds'[j + 1] # FREE
      <3>1. /\ Len(fds) \in Nat /\ Len(fds') \in Nat /\ Len(fds) <= Len(fds')
            /\ \A k \in 1..Len(fds) : fds'[k] = fds[k]
        BY DEF Aside, Grows, TableInv, TableType
      <3>2. fdsFree \in 0..Len(fds) /\ \A j \in 0..(fdsFree - 1) : fds[j + 1] # FREE
        BY DEF TableInv, EntriesOk
      <3> QED
        BY <3>1, <3>2
    <2> QED
      BY <2>1, <2>2 DEF EntriesOk, Aside
  <1>8. ASSUME NEW t \in Threads PROVE OpeningOk(call[t])' /\ ClosingOk(call[t])' /\ MovingOk(call[t])'
    <2>1. OpeningOk(call[t])'
      <3> SUFFICES ASSUME call'[t].at \in Opening PROVE OpeningOk(call[t])'
        BY DEF OpeningOk
      <3>1. call'[t] = call[t] /\ OpeningOk(call[t])
        BY <1>2 DEF Changing, TableInv
      <3>2. EntryFree(call[t].fd)' /\ (fdsdirtable_get(call[t].id) # {} => fdsdirtable_get(call[t].id)' # {})
        BY <3>1, SlotsAre, GrowsKeepsEntries DEF Aside, Grows, OpeningOk
      <3>3. Len(fds) <= Len(fds') /\ Len(fds) \in Nat /\ Len(fds') \in Nat
        BY DEF Aside, Grows, TableInv, TableType
      <3> QED
        BY <3>1, <3>2, <3>3, SlotsAre DEF Aside, OpeningOk
    <2>2. ClosingOk(call[t])'
      <3> SUFFICES ASSUME call'[t].at \in {"remove", "dirremove", "closedir"} PROVE ClosingOk(call[t])'
        BY DEF ClosingOk
      <3>1. call'[t] = call[t] /\ ClosingOk(call[t])
        BY <1>2 DEF Changing, TableInv
      <3>2. \A i \in Slots : (EntrySet(i) => EntrySet(i)') /\ (EntryFree(i) => EntryFree(i)')
        BY SlotsAre, GrowsKeepsEntries DEF Aside
      <3> QED
        BY <1>5, <3>1, <3>2 DEF Aside, ClosingOk
    <2>3. MovingOk(call[t])'
      BY <1>1 DEF Aside, TableInv, MovingOk
    <2> QED
      BY <2>1, <2>2, <2>3
  <1> QED
    BY <1>3, <1>4, <1>6, <1>7, <1>8 DEF TableInv

-----------------------------------------------------------------------------
(* Steps that leave the entries of the tables alone *)

\* A step of this program: it starts the API first, or leaves it as it is; mkstemp apart,
\* only one that starts it calls it.
Step ==
    /\ Alive /\ flags \subseteq flags'
    /\ Kept \/ UNCHANGED <<called, env, asked, stage, running>>
    /\ "early" \in flags' =>
         "early" \in flags \/ (Kept /\ "early" \in Api /\ Api \subseteq flags') \/ "mkstemp" \in flags'

LEMMA StepKeeps ==
    ASSUME BypassInv, Step, Regular' => TableInv' /\ OffsetInv'
    PROVE  BypassInv'
  <1>1. /\ called' \in BOOLEAN /\ env' \in BOOLEAN /\ asked' \in BOOLEAN /\ running' \in BOOLEAN
        /\ stage' \in [Threads -> Stages] /\ \A u \in Threads : stage'[u] # "out" => asked'
    BY KeepInitStarts DEF Step, BypassInv
  <1>2. ApiInv'
    <2> SUFFICES ASSUME (flags \cap {"inherited", "mkstemp", "finalized", "overtaken"} = {})'
                 PROVE  "early" \notin flags' /\ (called' => running' \/ Starting') /\ (env' => asked')
      BY DEF ApiInv
    <2>1. /\ flags \cap {"inherited", "mkstemp", "finalized", "overtaken"} = {} /\ Alive
          /\ "mkstemp" \notin flags' /\ "overtaken" \notin flags'
      BY DEF Step
    <2>2. "early" \notin flags /\ (called => running \/ Starting) /\ (env => asked)
      BY <2>1 DEF BypassInv, ApiInv
    <2>3. CASE Kept
      BY <2>1, <2>2, <2>3, KeepInitStarts DEF Step
    <2>4. CASE UNCHANGED <<called, env, asked, stage, running>> /\ ~Kept
      BY <2>1, <2>2, <2>4 DEF Step, Starting
    <2> QED
      BY <2>3, <2>4 DEF Step
  <1> QED
    BY <1>1, <1>2 DEF BypassInv

\* A step that at most starts the API and notes something.
Quiet ==
    /\ Step
    /\ Kept \/ UNCHANGED <<running, fds, dirs>>
    /\ UNCHANGED <<fdsFree, dirsFree, dirfd, xpn, links, pos, held, call>>
    /\ "misplaced" \in flags' => "misplaced" \in flags

LEMMA SameTablesGrow ==
    ASSUME BypassInv, Regular, UNCHANGED <<running, fds, dirs>>
    PROVE  Grows
  BY DEF BypassInv, TableInv, TableType, Grows, fdsdirtable_get

LEMMA QuietKeeps == ASSUME BypassInv, Quiet PROVE BypassInv'
  <1> SUFFICES ASSUME Regular' PROVE TableInv' /\ OffsetInv'
    BY StepKeeps DEF Quiet
  <1>1. Regular /\ TableInv /\ OffsetInv
    BY FlagsKept DEF Quiet, Step, BypassInv
  <1>2. Grows
    BY <1>1, KeepInitGrows, SameTablesGrow DEF Quiet
  <1>3. Aside
    BY <1>1, <1>2 DEF Quiet, Aside, TableInv, TableType
  <1>4. OffsetInv'
    BY <1>1 DEF Quiet, Step, OffsetInv
  <1> QED
    BY <1>1, <1>3, <1>4, AsideKeeps

\* The steps of a start: the tables get longer, the mark is set and taken back.
LEMMA StartKeeps == ASSUME BypassInv, NEW t \in Threads, Start(t) PROVE BypassInv'
  <1>1. /\ Alive /\ flags \subseteq flags' /\ flags' \subseteq flags \cup {"mixed"}
        /\ UNCHANGED <<fdsFree, dirsFree, dirfd, xpn, links, pos, held, call>>
    BY DEF Start, StartBegins, StartMarks, fdstable_init, fdsdirtable_init, xpn_init, Enters, Mixed, tables, api
  <1>2. PICK at \in Stages : stage' = [stage EXCEPT ![t] = at]
    BY DEF Start, StartBegins, StartMarks, fdstable_init, fdsdirtable_init, xpn_init, Stages
  <1>3. /\ stage \in [Threads -> Stages] /\ stage' \in [Threads -> Stages]
        /\ stage'[t] = at /\ \A u \in Threads \ {t} : stage'[u] = stage[u]
    BY <1>2 DEF BypassInv
  <1>4. called \in BOOLEAN /\ env \in BOOLEAN /\ asked \in BOOLEAN /\ running \in BOOLEAN
    BY DEF BypassInv
  <1>5. called' \in BOOLEAN /\ env' \in BOOLEAN /\ asked' \in BOOLEAN /\ running' \in BOOLEAN
    BY <1>4 DEF Start, StartBegins, StartMarks, fdstable_init, fdsdirtable_init, xpn_init
  <1>51. \A u \in Threads : stage'[u] # "out" => asked'
    <2>1. \A u \in Threads : stage[u] # "out" => asked
      BY DEF BypassInv
    <2>2. CASE asked'
      BY <2>2
    <2>3. CASE ~asked'
      BY <1>3, <1>4, <2>1, <2>3 DEF Start, StartBegins, StartMarks, fdstable_init, fdsdirtable_init, xpn_init
    <2> QED
      BY <2>2, <2>3
  <1>6. ASSUME flags \cap {"inherited", "mkstemp", "finalized", "overtaken"} = {}
        PROVE  (called' => running' \/ Starting') /\ (env' => asked')
    <2>1. (called => running \/ Starting) /\ (env => asked)
      BY <1>1, <1>6 DEF BypassInv, ApiInv
    <2>2. CASE StartBegins(t)
      BY <2>2, <1>4 DEF StartBegins
    <2>3. CASE StartMarks(t)
      <3>1. stage'[t] = "mark"
        BY <1>3, <2>3 DEF StartMarks
      <3>2. asked
        BY <1>1, <1>6, <2>3 DEF StartMarks, BypassInv
      <3> QED
        BY <3>1, <3>2, <2>3 DEF StartMarks, Starting
    <2>4. CASE fdstable_init(t) \/ fdsdirtable_init(t)
      <3>1. stage'[t] \in {"mark", "fds", "dirs"}
        BY <1>3, <2>4 DEF fdstable_init, fdsdirtable_init
      <3> QED
        BY <2>1, <2>4, <3>1 DEF fdstable_init, fdsdirtable_init, Starting
    <2>5. CASE xpn_init(t)
      <3>1. asked
        BY <2>5 DEF xpn_init, BypassInv
      <3> QED
        BY <2>5, <3>1 DEF xpn_init
    <2> QED
      BY <2>2, <2>3, <2>4, <2>5 DEF Start
  <1>7. ApiInv'
    BY <1>1, <1>6 DEF ApiInv, BypassInv
  <1>8. ASSUME Regular' PROVE TableInv' /\ OffsetInv'
    <2>1. Regular /\ TableInv /\ OffsetInv
      BY <1>1, <1>8, FlagsKept DEF BypassInv
    <2>2. Grows
      <3>1. fds \in Seq(Entries) /\ dirs \in Seq(Ids \cup {None})
        BY <2>1 DEF TableInv, TableType
      <3>2. CASE UNCHANGED <<running, fds, dirs>>
        BY <2>1, <3>2, SameTablesGrow
      <3>3. CASE fdstable_init(t)
        BY <3>1, <3>3, <1>4, FdsGrow DEF fdstable_init, Grows, fdsdirtable_get
      <3>4. CASE fdsdirtable_init(t)
        <4>1. /\ dirs' \in Seq(Ids \cup {None}) /\ Len(dirs) <= Len(dirs')
              /\ \A k \in 1..Len(dirs) : dirs'[k] = dirs[k]
          BY <3>1, <3>4, DirsGrow DEF fdsdirtable_init
        <4>2. \A o \in Ids : fdsdirtable_get(o) # {} => fdsdirtable_get(o)' # {}
          BY <3>1, <4>1, StillListed
        <4> QED
          BY <3>1, <3>4, <1>4, <4>1, <4>2 DEF fdsdirtable_init, Grows
      <3>5. CASE xpn_init(t)
        BY <3>1, <3>5, <1>4 DEF xpn_init, tables, Grows, fdsdirtable_get
      <3> QED
        BY <3>2, <3>3, <3>4, <3>5 DEF Start, StartBegins, StartMarks, tables
    <2>3. Aside
      BY <1>1, <2>1, <2>2 DEF Aside, TableInv, TableType
    <2>4. OffsetInv'
      BY <1>1, <2>1 DEF OffsetInv
    <2> QED
      BY <2>1, <2>3, <2>4, AsideKeeps
  <1> QED
    BY <1>3, <1>5, <1>51, <1>7, <1>8 DEF BypassInv

LEMMA PathCallKeeps == ASSUME BypassInv, NEW t \in Threads, PathCall(t) \/ Starts(t) PROVE BypassInv'
  <1>1. Quiet
    BY DEF PathCall, Starts, Enters, Quiet, Step, Kept, Api, api
  <1> QED
    BY <1>1, QuietKeeps

LEMMA PathCallsKeep == ASSUME BypassInv, NEW t \in Threads, PathCalls(t) PROVE BypassInv'
  BY PathCallKeeps DEF PathCalls, stat, statfs, statfs64, xstat, xstat64, lxstat, lxstat64, rename, unlink, remove, mkdir, rmdir, chdir, chmod, chown, access, realpath,
     realpath_chk, MPI_Init, MPI_Init_thread

LEMMA SystemCallsKeep == ASSUME BypassInv, NEW t \in Threads, SystemCalls(t) PROVE BypassInv'
  <1>1. Quiet
    BY DEF SystemCalls, dlsym_open, dlsym_close, Regular, Enters, Quiet, Step, Kept, init, tables, api
  <1> QED
    BY <1>1, QuietKeeps

LEMMA fdopenKeeps == ASSUME BypassInv, NEW t \in Threads, NEW o \in Ids, fdopen(t, o) PROVE BypassInv'
  <1>1. Quiet
    BY DEF fdopen, Enters, Quiet, Step, Kept, init, tables, api
  <1> QED
    BY <1>1, QuietKeeps

LEMMA AsksKeeps ==
    ASSUME BypassInv, NEW t \in Threads, NEW o \in Ids, Asks(t, o) \/ Answered(t, o)
    PROVE  BypassInv'
  <1>1. Quiet
    BY DEF Asks, Answered, FileOp, Enters, Quiet, Step, Kept, Api, vars, init, tables, api
  <1> QED
    BY <1>1, QuietKeeps

\* A duplicate takes the program out of what the library can do.
LEMMA DupKeeps ==
    ASSUME BypassInv, NEW t \in Threads, NEW o \in Ids, NEW i, Dup(t, o, i) \/ dup2_over(t, o)
    PROVE  BypassInv'
  <1>1. CASE "dup" \in flags'
    <2>1. Step /\ ~Regular'
      BY <1>1 DEF Dup, dup2_over, Enters, Step, Kept, Full, Api, init, Regular
    <2> QED
      BY <2>1, StepKeeps
  <1>2. CASE "dup" \notin flags'
    <2>1. Quiet
      BY <1>2 DEF Dup, dup2_over, Enters, Quiet, Step, Kept, Api, init, tables, api
    <2> QED
      BY <2>1, QuietKeeps
  <1> QED
    BY <1>1, <1>2

-----------------------------------------------------------------------------
(* Offsets *)

\* The way through both tables leads back to the file.
LEMMA BehindIs ==
    ASSUME TableInv, NEW o \in Ids, InPlace(o)
    PROVE  \E i \in Slots : /\ xpn[i] = o /\ held[o] = i + PLUSXPN /\ EntrySet(i)
                            /\ fdstable_get(held[o]) = [type |-> "FD_XPN", real_fd |-> i]
                            /\ Behind(held[o]) = o /\ IsXpn(held[o])
  <1>1. PICK i \in Slots : xpn[i] = o /\ held[o] = i + PLUSXPN /\ EntrySet(i)
    BY DEF InPlace
  <1>2. fdstable_get(held[o]) = [type |-> "FD_XPN", real_fd |-> i]
    <2>1. /\ i \in Nat /\ PLUSXPN \in Nat /\ i + PLUSXPN >= PLUSXPN /\ i + PLUSXPN - PLUSXPN + 1 = i + 1
      BY SlotsAre
    <2>2. fds # <<>> /\ fds[i + 1] = [type |-> "FD_XPN", real_fd |-> i]
      BY <1>1, <2>1 DEF EntrySet, TableInv, TableType
    <2> QED
      BY <1>1, <2>1, <2>2 DEF fdstable_get
  <1> QED
    BY <1>1, <1>2 DEF Behind, IsXpn

LEMMA FileOpIs ==
    ASSUME BypassInv, Regular, NEW t \in Threads, NEW o \in Ids, FileOp(t, o)
    PROVE  TableInv /\ OffsetInv /\ ~Busy(o) /\ InPlace(o) /\ Behind(held[o]) = o /\ call[t] = Idle /\ Grows
  <1>1. TableInv /\ OffsetInv /\ Grows
    BY KeepInitGrows DEF BypassInv, FileOp, Kept
  <1>2. ~Busy(o) /\ call[t] = Idle
    BY DEF Busy, FileOp, Enters, Changing, Opening
  <1>3. InPlace(o)
    BY <1>1, <1>2 DEF FileOp, TableInv, FilesOk
  <1> QED
    BY <1>1, <1>2, <1>3, BehindIs

LEMMA IdleIs == Idle.at = "idle" /\ IsCall(Idle) /\ "idle" \notin Changing /\ "idle" \notin Moving
  BY DEF Idle, IsCall, Ats, Changing, Opening, Moving

\* The offset of a file moves, and whoever is in the middle of a positioned call on it
\* is told.
LEMMA MoveKeeps ==
    ASSUME BypassInv, NEW t \in Threads, NEW o \in Ids, NEW v, FileOp(t, o), call' = call,
           pos' = [pos EXCEPT ![Behind(held[o])] = v],
           flags' = flags \cup Api \cup Moved(t, Behind(held[o]))
    PROVE  BypassInv'
  <1>1. Step
    BY DEF FileOp, Enters, Step, Kept, Api, Moved
  <1> SUFFICES ASSUME Regular' PROVE TableInv' /\ OffsetInv'
    BY <1>1, StepKeeps
  <1>2. Regular /\ TableInv /\ OffsetInv /\ Behind(held[o]) = o /\ Grows
    BY <1>1, FlagsKept, FileOpIs DEF Step
  <1>3. Aside
    BY <1>2 DEF FileOp, Aside, TableInv, TableType
  <1>4. OffsetInv'
    <2> SUFFICES ASSUME "moved" \notin flags'
                 PROVE  /\ "misplaced" \notin flags'
                        /\ \A u \in Threads : call[u].at \in {"pread", "pwrite"} => pos'[call[u].slot] = call[u].fd
      BY DEF OffsetInv
    <2>1. "moved" \notin flags /\ Moved(t, o) = {}
      BY <1>2 DEF Moved
    <2>2. ASSUME NEW u \in Threads, call[u].at \in {"pread", "pwrite"} PROVE call[u].slot \in Ids /\ call[u].slot # o
      <3>1. u # t
        BY <2>2, IdleIs DEF FileOp, Enters
      <3>2. call[u].slot # o
        BY <2>1, <2>2, <3>1 DEF Moved
      <3> QED
        BY <1>2, <2>2, <3>2 DEF TableInv, MovingOk, Moving
    <2>3. \A x \in Ids : x # o => pos'[x] = pos[x]
      BY <1>2 DEF TableInv, TableType
    <2> QED
      BY <1>2, <2>1, <2>2, <2>3 DEF OffsetInv, Api
  <1> QED
    BY <1>2, <1>3, <1>4, AsideKeeps

\* Nothing is behind the descriptor, or the API does not run.
LEMMA LostKeeps ==
    ASSUME BypassInv, NEW t \in Threads, NEW o \in Ids, FileOp(t, o), UNCHANGED <<pos, size, call>>,
           flags \subseteq flags', flags' \subseteq flags \cup Api \cup {"wild"},
           Api \subseteq flags' \/ flags' = flags \cup {"wild"}
    PROVE  BypassInv'
  <1>1. Quiet
    BY DEF FileOp, Enters, Quiet, Step, Kept, Api
  <1> QED
    BY <1>1, QuietKeeps

LEMMA readKeeps ==
    ASSUME BypassInv, NEW t \in Threads, NEW o \in Ids, read(t, o) \/ fread(t, o)
    PROVE  BypassInv'
  <1> DEFINE x == Behind(held[o])
  <1>1. CASE running' /\ x # None
    <2>1. FileOp(t, o) /\ call' = call /\ flags' = flags \cup Api \cup Moved(t, x)
          /\ pos' = [pos EXCEPT ![x] = Min2(@ + 1, IF @ > size THEN @ ELSE size)]
      BY <1>1 DEF read, fread, Moves, XpnRead
    <2> QED
      BY <2>1, MoveKeeps
  <1>2. CASE ~(running' /\ x # None)
    <2>1. FileOp(t, o) /\ UNCHANGED <<pos, size, call>> /\ flags' = flags \cup Api
      BY <1>2 DEF read, fread, Moves
    <2> QED
      BY <2>1, LostKeeps
  <1> QED
    BY <1>1, <1>2

LEMMA writeKeeps ==
    ASSUME BypassInv, NEW t \in Threads, NEW o \in Ids, write(t, o) \/ fwrite(t, o)
    PROVE  BypassInv'
  <1> DEFINE x == Behind(held[o])
  <1>1. CASE running' /\ x # None
    <2>1. FileOp(t, o) /\ call' = call /\ flags' = flags \cup Api \cup Moved(t, x)
          /\ pos' = [pos EXCEPT ![x] = @ + 1]
      BY <1>1 DEF write, fwrite, Moves, XpnWrite
    <2> QED
      BY <2>1, MoveKeeps
  <1>2. CASE ~(running' /\ x # None)
    <2>1. FileOp(t, o) /\ UNCHANGED <<pos, size, call>> /\ flags' = flags \cup Api
      BY <1>2 DEF write, fwrite, Moves
    <2> QED
      BY <2>1, LostKeeps
  <1> QED
    BY <1>1, <1>2

\* Offsets set by lseek and its like.
LEMMA SeekKeeps ==
    ASSUME BypassInv, NEW t \in Threads, NEW o \in Ids, NEW off,
           FileOp(t, o), call' = call,
           IF running' /\ Behind(held[o]) # None
           THEN /\ pos' = [pos EXCEPT ![Behind(held[o])] = off]
                /\ flags' = flags \cup Api \cup Moved(t, Behind(held[o]))
           ELSE flags' = flags \cup Api \cup {"wild"} /\ UNCHANGED <<pos, size>>
    PROVE  BypassInv'
  <1>1. CASE running' /\ Behind(held[o]) # None
    BY <1>1, MoveKeeps
  <1>2. CASE ~(running' /\ Behind(held[o]) # None)
    BY <1>2, LostKeeps
  <1> QED
    BY <1>1, <1>2

LEMMA SeeksKeep ==
    ASSUME BypassInv, NEW t \in Threads, NEW o \in Ids, NEW off,
           \/ lseek(t, o, off) \/ lseek64(t, o, off) \/ fseek(t, o, off)
           \/ rewind(t, o) \/ ftell(t, o) \/ feof(t, o)
    PROVE  BypassInv'
  <1> DEFINE x == Behind(held[o])
  <1>1. CASE lseek(t, o, off) \/ lseek64(t, o, off) \/ fseek(t, o, off)
    BY <1>1, SeekKeeps DEF lseek, lseek64, fseek, Seeks, Moves, XpnSeek
  <1>2. CASE rewind(t, o)
    BY <1>2, SeekKeeps DEF rewind, Seeks, Moves, XpnSeek
  <1>3. CASE ftell(t, o)
    BY <1>3, SeekKeeps DEF ftell, Seeks, Moves, XpnSeek
  <1>4. CASE feof(t, o)
    BY <1>4, SeekKeeps DEF feof, Seeks, Moves, XpnSeek
  <1> QED
    BY <1>1, <1>2, <1>3, <1>4

\* The first call of a pread or pwrite.
LEMMA SetOffsetKeeps ==
    ASSUME BypassInv, NEW t \in Threads, NEW o \in Ids, NEW off, NEW op \in {"pread", "pwrite"},
           SetOffset(t, o, off, op)
    PROVE  BypassInv'
  <1> DEFINE x == Behind(held[o])
  <1>1. CASE running' /\ x # None
    <2>1. /\ FileOp(t, o) /\ flags' = flags \cup Api \cup Moved(t, x)
          /\ pos' = [pos EXCEPT ![x] = off]
          /\ call' = [call EXCEPT ![t] = [at |-> op, id |-> o, fd |-> off, slot |-> x]]
      BY <1>1 DEF SetOffset, XpnSeek
    <2>2. Step
      BY <2>1 DEF FileOp, Enters, Step, Kept, Api, Moved
    <2> SUFFICES ASSUME Regular' PROVE TableInv' /\ OffsetInv'
      BY <2>2, StepKeeps
    <2>3. Regular /\ TableInv /\ OffsetInv /\ x = o /\ Grows /\ ~Busy(o) /\ call[t] = Idle
      BY <2>1, <2>2, FlagsKept, FileOpIs DEF Step
    <2>4. /\ call' = [u \in Threads |-> call'[u]]
          /\ call'[t] = [at |-> op, id |-> o, fd |-> off, slot |-> o]
          /\ \A u \in Threads \ {t} : call'[u] = call[u]
      BY <2>1, <2>3 DEF TableInv, TableType
    <2>5. /\ pos' = [y \in Ids |-> pos'[y]] /\ pos'[o] = off
          /\ \A y \in Ids : y # o => pos'[y] = pos[y]
      BY <2>1, <2>3 DEF TableInv, TableType
    <2>6. Aside
      <3>1. IsCall(call'[t]) /\ call'[t].at \notin Changing /\ call[t].at \notin Changing
        BY <2>3, <2>4, IdleIs DEF IsCall, Ats, Moving, Changing, Opening
      <3>2. Grows /\ UNCHANGED <<fdsFree, dirsFree, dirfd, xpn, links, held>>
        BY <2>1, <2>3 DEF FileOp
      <3> QED
        BY <2>3, <2>4, <2>5, <3>1, <3>2 DEF Aside
    <2>7. OffsetInv'
      <3> SUFFICES ASSUME "moved" \notin flags'
                   PROVE  /\ "misplaced" \notin flags'
                          /\ \A u \in Threads :
                               call'[u].at \in {"pread", "pwrite"} => pos'[call'[u].slot] = call'[u].fd
        BY DEF OffsetInv
      <3>1. "moved" \notin flags /\ Moved(t, o) = {}
        BY <2>1, <2>3 DEF Moved
      <3>2. ASSUME NEW u \in Threads \ {t}, call[u].at \in {"pread", "pwrite"}
            PROVE  call[u].slot \in Ids /\ call[u].slot # o
        <4>1. call[u].slot # o
          BY <3>1, <3>2 DEF Moved
        <4> QED
          BY <2>3, <3>2, <4>1 DEF TableInv, MovingOk, Moving
      <3>3. "misplaced" \notin flags'
        BY <2>1, <2>3, <3>1 DEF OffsetInv, Api
      <3> QED
        BY <2>3, <2>4, <2>5, <3>1, <3>2, <3>3 DEF OffsetInv
    <2> QED
      BY <2>3, <2>6, <2>7, AsideKeeps
  <1>2. CASE ~(running' /\ x # None)
    <2>1. FileOp(t, o) /\ UNCHANGED <<pos, size, call>> /\ flags' = flags \cup {"wild"}
      BY <1>2 DEF SetOffset
    <2> QED
      BY <2>1, LostKeeps
  <1> QED
    BY <1>1, <1>2

\* The second and the third.
LEMMA GoOnKeeps ==
    ASSUME BypassInv, NEW t \in Threads, MoveData(t, "pread") \/ MoveData(t, "pwrite") \/ GoBack(t)
    PROVE  BypassInv'
  <1> DEFINE c == call[t]
  <1>1. /\ Alive /\ c.at \in Moving /\ UNCHANGED <<init, running, tables, dirfd, xpn, links, held>>
        /\ flags \subseteq flags' /\ flags' \subseteq flags \cup {"moved", "misplaced"}
        /\ Moved(t, c.slot) \subseteq flags'
        /\ \E v : pos' = [pos EXCEPT ![c.slot] = v]
        /\ c.at # "back" /\ pos[c.slot] = c.fd => ("misplaced" \in flags' => "misplaced" \in flags)
        /\ c.at = "back" => ("misplaced" \in flags' => "misplaced" \in flags)
    BY DEF MoveData, GoBack, XpnRead, XpnWrite, XpnSeek, Moving, Moved
  <1>2. \/ \E v : call' = [call EXCEPT ![t].at = "back", ![t].fd = v]
        \/ call' = [call EXCEPT ![t] = Idle]
    BY DEF MoveData, GoBack
  <1>3. Step
    BY <1>1 DEF Step, init
  <1> SUFFICES ASSUME Regular' PROVE TableInv' /\ OffsetInv'
    BY <1>3, StepKeeps
  <1>4. Regular /\ TableInv /\ OffsetInv
    BY <1>3, FlagsKept DEF Step, BypassInv
  <1>5. Grows
    BY <1>1, <1>4, SameTablesGrow DEF tables
  <1>6. /\ call' = [u \in Threads |-> call'[u]]
        /\ \A u \in Threads \ {t} : call'[u] = call[u]
        /\ IsCall(call'[t]) /\ call'[t].at \notin Changing /\ call'[t].at \notin {"pread", "pwrite"}
        /\ call'[t].at \in Moving => call'[t].id = c.id /\ call'[t].slot = c.slot
    <2>1. call = [u \in Threads |-> call[u]] /\ IsCall(c)
      BY <1>4 DEF TableInv, TableType
    <2>2. CASE call' = [call EXCEPT ![t] = Idle]
      BY <2>1, <2>2, IdleIs DEF Moving
    <2>3. ASSUME NEW v, call' = [call EXCEPT ![t].at = "back", ![t].fd = v]
          PROVE  /\ call' = [u \in Threads |-> call'[u]]
                 /\ \A u \in Threads \ {t} : call'[u] = call[u]
                 /\ call'[t] = [at |-> "back", id |-> c.id, fd |-> v, slot |-> c.slot]
      BY <2>1, <2>3 DEF IsCall
    <2> QED
      <3>1. ASSUME NEW v, call' = [call EXCEPT ![t].at = "back", ![t].fd = v]
            PROVE  /\ IsCall(call'[t]) /\ call'[t].at \notin Changing /\ call'[t].at \notin {"pread", "pwrite"}
                   /\ call'[t].id = c.id /\ call'[t].slot = c.slot
        <4>1. call'[t] = [at |-> "back", id |-> c.id, fd |-> v, slot |-> c.slot]
          BY <3>1, <2>3
        <4> QED
          BY <2>1, <4>1 DEF IsCall, Ats, Moving, Changing, Opening
      <3> QED
        BY <1>2, <2>2, <2>3, <3>1
  <1>7. c.id \in Ids /\ c.slot = c.id /\ ~Busy(c.id)
    BY <1>1, <1>4 DEF TableInv, MovingOk
  <1>8. pos' = [y \in Ids |-> pos'[y]] /\ \A y \in Ids : y # c.slot => pos'[y] = pos[y]
    BY <1>1, <1>4 DEF TableInv, TableType
  <1>9. Aside
    <2>1. c.at \notin Changing
      BY <1>1 DEF Moving, Changing, Opening
    <2>2. UNCHANGED <<fdsFree, dirsFree, dirfd, xpn, links, held>>
      BY <1>1 DEF tables
    <2> QED
      BY <1>5, <1>6, <1>7, <1>8, <2>1, <2>2 DEF Aside
  <1>10. OffsetInv'
    <2> SUFFICES ASSUME "moved" \notin flags'
                 PROVE  /\ "misplaced" \notin flags'
                        /\ \A u \in Threads :
                             call'[u].at \in {"pread", "pwrite"} => pos'[call'[u].slot] = call'[u].fd
      BY DEF OffsetInv
    <2>1. "moved" \notin flags /\ Moved(t, c.slot) = {}
      BY <1>1 DEF Moved
    <2>2. ASSUME NEW u \in Threads \ {t}, call[u].at \in {"pread", "pwrite"}
          PROVE  call[u].slot \in Ids /\ call[u].slot # c.slot
      <3>1. call[u].slot # c.slot
        BY <2>1, <2>2 DEF Moved
      <3> QED
        BY <1>4, <2>2, <3>1 DEF TableInv, MovingOk, Moving
    <2>3. "misplaced" \notin flags'
      BY <1>1, <1>4, <2>1 DEF OffsetInv, Moving
    <2> QED
      BY <1>4, <1>6, <1>8, <2>1, <2>2, <2>3 DEF OffsetInv
  <1> QED
    BY <1>4, <1>9, <1>10, AsideKeeps

-----------------------------------------------------------------------------
(* Processes *)

\* The tables of a program that has not called anything.
Blank ==
    /\ fds = <<>> /\ fdsFree = 0 /\ dirs = <<>> /\ dirsFree = 0
    /\ dirfd = [o \in Ids |-> NoFd] /\ held = [o \in Ids |-> NoFd]
    /\ xpn = [i \in Slots |-> None] /\ links = [o \in Ids |-> 0] /\ pos = [o \in Ids |-> 0]
    /\ call = [t \in Threads |-> Idle]
    /\ "misplaced" \notin flags

LEMMA BlankIsRight == Blank => TableInv /\ OffsetInv
  <1> SUFFICES ASSUME Blank PROVE TableInv /\ OffsetInv
    OBVIOUS
  <1>1. \A t \in Threads : call[t] = Idle
    BY DEF Blank
  <1>2. TableType
    BY <1>1, IdleIs DEF Blank, TableType, NoFd
  <1>3. \A t \in Threads : call[t].at \notin Changing /\ call[t].at \notin Moving
    BY <1>1, IdleIs
  <1>4. OneChanges /\ OffsetInv
    BY <1>3 DEF OneChanges, OffsetInv, Blank, Moving
  <1>5. FilesOk
    BY DEF Blank, FilesOk
  <1>6. EntriesOk
    BY DEF Blank, EntriesOk
  <1>7. \A t \in Threads : OpeningOk(call[t]) /\ ClosingOk(call[t]) /\ MovingOk(call[t])
    BY <1>3 DEF OpeningOk, ClosingOk, MovingOk, Changing
  <1> QED
    BY <1>2, <1>4, <1>5, <1>6, <1>7 DEF TableInv

LEMMA InitBypassInv == Init => BypassInv
  <1> SUFFICES ASSUME Init PROVE BypassInv
    OBVIOUS
  <1>1. Blank
    BY DEF Init, Blank
  <1>2. ApiInv
    BY DEF Init, ApiInv
  <1>3. called \in BOOLEAN /\ env \in BOOLEAN /\ asked \in BOOLEAN /\ running \in BOOLEAN
        /\ stage \in [Threads -> Stages] /\ \A u \in Threads : stage[u] # "out" => asked
    BY DEF Init, Stages
  <1> QED
    BY <1>1, <1>2, <1>3, BlankIsRight DEF BypassInv

LEMMA ExecKeeps == ASSUME BypassInv, NEW t \in Threads, Exec(t) PROVE BypassInv'
  <1>1. Blank'
    BY DEF Exec, Blank
  <1>2. (Blank => TableInv /\ OffsetInv)'
    BY BlankIsRight, PTL
  <1>3. ApiInv'
    BY DEF Exec, ApiInv, BypassInv
  <1>4. called' \in BOOLEAN /\ env' \in BOOLEAN /\ asked' \in BOOLEAN /\ running' \in BOOLEAN
        /\ stage' \in [Threads -> Stages] /\ \A u \in Threads : stage'[u] # "out" => asked'
    BY DEF Exec, BypassInv, Stages
  <1> QED
    BY <1>1, <1>2, <1>3, <1>4 DEF BypassInv

LEMMA forkKeeps == ASSUME BypassInv, NEW t \in Threads, fork(t) PROVE BypassInv'
  <1>1. flags \subseteq flags' /\ flags' \subseteq flags \cup {"mixed"} /\ Alive
    BY DEF fork, Mixed, Enters
  <1>2. called' \in BOOLEAN /\ env' \in BOOLEAN /\ asked' \in BOOLEAN /\ running' \in BOOLEAN
        /\ stage' \in [Threads -> Stages] /\ \A u \in Threads : stage'[u] # "out" => asked'
    BY DEF fork, BypassInv, Stages
  <1>3. ApiInv'
    BY <1>1, FlagsKept DEF fork, ApiInv, BypassInv
  <1>4. ASSUME Regular' PROVE TableInv' /\ OffsetInv'
    <2>1. Regular /\ TableInv /\ OffsetInv
      BY <1>1, <1>4, FlagsKept DEF BypassInv
    <2>2. \A u \in Threads : call[u].at \notin Changing
      <3>1. ~Tabling(t)
        BY <1>4 DEF fork, Mixed, Regular
      <3>2. call[t].at \notin Changing
        BY IdleIs DEF fork, Enters
      <3> QED
        BY <3>1, <3>2 DEF Tabling, Changing, Opening
    <2>3. Grows
      BY <2>1, SameTablesGrow DEF fork, tables
    <2>4. Aside
      <3>1. \A u \in Threads : call'[u] = Idle
        BY DEF fork
      <3>2. call' = [u \in Threads |-> call'[u]]
        BY DEF fork
      <3>3. pos' = [o \in Ids |-> pos'[o]] /\ UNCHANGED <<fdsFree, dirsFree, dirfd, xpn, links, held>>
        BY <2>1 DEF fork, tables, api, TableInv, TableType
      <3> QED
        BY <2>2, <2>3, <3>1, <3>2, <3>3, IdleIs DEF Aside
    <2>5. OffsetInv'
      BY <1>1, <2>1, IdleIs DEF fork, OffsetInv
    <2> QED
      BY <2>1, <2>4, <2>5, AsideKeeps
  <1> QED
    BY <1>2, <1>3, <1>4 DEF BypassInv

\* The API ends, and with it what is said of the tables.
LEMMA EndsKeep == ASSUME BypassInv, NEW t \in Threads, MPI_Finalize(t) \/ exit(t) PROVE BypassInv'
  <1>1. flags \subseteq flags' /\ Alive /\ (flags' = flags \cup {"finalized"} \/ flags' = flags \cup {"exit"})
    BY DEF MPI_Finalize, exit, Enters
  <1>2. ~Regular'
    BY <1>1 DEF Regular
  <1>3. called' \in BOOLEAN /\ env' \in BOOLEAN /\ asked' \in BOOLEAN /\ running' \in BOOLEAN
        /\ stage' \in [Threads -> Stages] /\ \A u \in Threads : stage'[u] # "out" => asked'
    BY DEF MPI_Finalize, exit, BypassInv, Stages, xpn_destroy, init
  <1>4. ApiInv'
    BY <1>1, FlagsKept DEF ApiInv, BypassInv, Alive
  <1> QED
    BY <1>2, <1>3, <1>4 DEF BypassInv

-----------------------------------------------------------------------------
(* Steps that change the tables: thread t opens or closes what it calls o *)

\* The others.
Rest(t, o) ==
    /\ \A u \in Threads \ {t} : /\ call'[u] = call[u] /\ call[u].at \notin Changing
                                /\ call[u].at \in Moving => call[u].id # o
    /\ \A p \in Ids \ {o} : held'[p] = held[p] /\ (InPlace(p) => InPlace(p)')
    /\ \A i \in Slots : xpn'[i] # None /\ xpn'[i] # o => xpn'[i] = xpn[i] /\ links'[xpn[i]] = links[xpn[i]]
    /\ running => running' = TRUE

\* What t has done to o, between two of its steps or at the end.
Own(t, o) ==
    /\ call'[t].at \in Changing \/ call'[t] = Idle
    /\ call'[t].at \in Changing => call'[t].id = o
    /\ \A i \in Slots : xpn'[i] = o => /\ links'[o] = 1 /\ running' = TRUE
                                       /\ \A j \in Slots : xpn'[j] = o => j = i
    /\ call'[t] = Idle => InPlace(o)' \/ (held'[o] = NoFd /\ \A i \in Slots : xpn'[i] # o)
    /\ OpeningOk(call[t])' /\ ClosingOk(call[t])'

LEMMA TurnKeeps ==
    ASSUME TableInv, NEW t \in Threads, NEW o \in Ids, Rest(t, o), Own(t, o),
           call[t].at \in Changing => call[t].id = o, TableType', EntriesOk'
    PROVE  TableInv'
  <1>1. OneChanges'
    BY DEF Rest, OneChanges
  <1>2. /\ \A p \in Ids \ {o} : ~Busy(p) /\ ~Busy(p)'
        /\ Busy(o)' <=> call'[t].at \in Changing
    BY DEF Rest, Own, Busy
  <1>3. FilesOk'
    <2>1. ASSUME NEW i \in Slots, xpn'[i] # None
          PROVE  /\ ~Busy(xpn[i])' => InPlace(xpn[i])'
                 /\ links'[xpn'[i]] = 1 /\ running' = TRUE
      <3>1. CASE xpn'[i] = o
        BY <1>2, <3>1 DEF Own
      <3>2. CASE xpn'[i] # o
        <4>1. xpn'[i] = xpn[i] /\ links'[xpn[i]] = links[xpn[i]] /\ xpn[i] \in Ids \ {o}
          BY <2>1, <3>2 DEF Rest, TableInv, TableType
        <4>2. InPlace(xpn[i]) /\ links[xpn[i]] = 1 /\ running = TRUE
          BY <1>2, <2>1, <4>1 DEF TableInv, FilesOk
        <4> QED
          BY <4>1, <4>2 DEF Rest
      <3> QED
        BY <3>1, <3>2
    <2>2. ASSUME NEW i \in Slots, NEW j \in Slots, xpn'[i] # None, xpn'[i] = xpn'[j] PROVE i = j
      <3>1. CASE xpn'[i] = o
        BY <2>2, <3>1 DEF Own
      <3>2. CASE xpn'[i] # o
        BY <2>2, <3>2 DEF Rest, TableInv, FilesOk
      <3> QED
        BY <3>1, <3>2
    <2>3. ASSUME NEW p \in Ids, held'[p] # NoFd, ~Busy(p)' PROVE InPlace(p)'
      <3>1. CASE p = o
        BY <1>2, <2>3, <3>1 DEF Own
      <3>2. CASE p # o
        BY <1>2, <2>3, <3>2 DEF Rest, TableInv, FilesOk
      <3> QED
        BY <3>1, <3>2
    <2> QED
      BY <2>1, <2>2, <2>3 DEF FilesOk
  <1>4. ASSUME NEW u \in Threads PROVE OpeningOk(call[u])' /\ ClosingOk(call[u])' /\ MovingOk(call[u])'
    <2>1. CASE u = t
      <3>1. call'[t].at \notin Moving
        BY IdleIs DEF Own, Changing, Opening, Moving
      <3> QED
        BY <2>1, <3>1 DEF Own, MovingOk
    <2>2. CASE u # t
      <3>1. call'[u] = call[u] /\ call'[u].at \notin Changing
        BY <2>2 DEF Rest
      <3>2. OpeningOk(call[u])' /\ ClosingOk(call[u])'
        BY <3>1 DEF OpeningOk, ClosingOk, Changing
      <3>3. MovingOk(call[u])'
        BY <1>2, <2>2, <3>1 DEF Rest, MovingOk, TableInv
      <3> QED
        BY <3>2, <3>3
    <2> QED
      BY <2>1, <2>2
  <1> QED
    BY <1>1, <1>3, <1>4 DEF TableInv

\* The offsets of the others.
LEMMA TurnKeepsOffsets ==
    ASSUME TableInv, OffsetInv, NEW t \in Threads, NEW o \in Ids, Rest(t, o), Own(t, o),
           flags \subseteq flags', "misplaced" \in flags' => "misplaced" \in flags,
           \A x \in Ids : x # o => pos'[x] = pos[x]
    PROVE  OffsetInv'
  <1> SUFFICES ASSUME "moved" \notin flags'
               PROVE  /\ "misplaced" \notin flags'
                      /\ \A u \in Threads :
                           call'[u].at \in {"pread", "pwrite"} => pos'[call'[u].slot] = call'[u].fd
    BY DEF OffsetInv
  <1>1. "moved" \notin flags
    OBVIOUS
  <1>2. call'[t].at \notin {"pread", "pwrite"}
    BY IdleIs DEF Own, Changing, Opening, Moving
  <1>3. ASSUME NEW u \in Threads, u # t, call'[u].at \in {"pread", "pwrite"}
        PROVE  pos'[call'[u].slot] = call'[u].fd
    <2>1. call'[u] = call[u] /\ call[u].id # o /\ call[u].slot = call[u].id /\ call[u].id \in Ids
      BY <1>3 DEF Rest, TableInv, MovingOk, Moving
    <2> QED
      BY <1>1, <1>3, <2>1 DEF OffsetInv
  <1> QED
    BY <1>1, <1>2, <1>3 DEF OffsetInv

\* No other thread changes a table beside t, or the program is told.
LEMMA OthersChangeNothing ==
    ASSUME TableInv, NEW t \in Threads, Mixed(t) = {} \/ call[t].at \in Changing
    PROVE  \A u \in Threads \ {t} : call[u].at \notin Changing
  BY DEF Mixed, Tabling, Changing, Opening, TableInv, OneChanges

\* The first free entry of the API's table.
LEMMA FreeSlotIs ==
    /\ FreeSlot \in Slots
    /\ \A j \in Slots : j < FreeSlot => xpn[j] # None
  <1> DEFINE S == {i \in Slots : xpn[i] = None} \cup {XPN_MAX_FILE - 1}
  <1>1. S \subseteq Slots /\ S \subseteq Nat /\ S # {}
    BY BypassAssumption DEF Slots
  <1>2. FreeSlot \in S /\ \A j \in S : FreeSlot <= j
    BY <1>1, MinOfIs DEF FreeSlot
  <1> QED
    BY <1>1, <1>2, SlotsAre

\* The API opens a file: it takes the entry that is free in fdstable too.
LEMMA OpenedKeeps ==
    ASSUME BypassInv, NEW t \in Threads, NEW next \in {"search", "dirput"}, NEW truncate \in BOOLEAN,
           Enters(t), FreeIds # {}, running', Opened(t, MinOf(FreeIds), next, truncate),
           Kept \/ UNCHANGED <<init, running, fds, dirs>>,
           UNCHANGED <<fdsFree, dirsFree, held>>
    PROVE  BypassInv'
  <1>0. PICK s, o : s = FreeSlot /\ o = MinOf(FreeIds)
    OBVIOUS
  <1>1. Step /\ Api = {} /\ flags' = flags \cup Full(s) \cup Mixed(t)
    BY <1>0 DEF Step, Kept, Enters, Opened, Full, Mixed, Api, init
  <1> SUFFICES ASSUME Regular' PROVE TableInv' /\ OffsetInv'
    BY <1>1, StepKeeps
  <1>2. Regular /\ TableInv /\ OffsetInv
    BY <1>1, FlagsKept DEF Step, BypassInv
  <1>3. Grows
    BY <1>2, KeepInitGrows, SameTablesGrow
  <1>4. /\ o \in Ids /\ (\A i \in Slots : xpn[i] # o) /\ held[o] = NoFd
        /\ \A u \in Threads : call[u].id # o
    <2>1. FreeIds \subseteq Nat
      BY SlotsAre DEF FreeIds
    <2>2. o \in FreeIds
      BY <1>0, <2>1, MinOfIs
    <2> QED
      BY <2>2 DEF FreeIds
  <1>5. s \in Slots /\ xpn[s] = None /\ \A j \in Slots : j < s => xpn[j] # None
    <2>1. Full(s) = {}
      BY <1>1 DEF Full, Regular
    <2> QED
      BY <1>0, <2>1, FreeSlotIs DEF Full
  <1>6. call[t] = Idle /\ \A u \in Threads : call[u].at \notin Changing
    <2>1. Mixed(t) = {}
      BY <1>1 DEF Mixed, Regular
    <2> QED
      BY <1>2, <2>1, OthersChangeNothing, IdleIs DEF Enters
  <1>7. /\ xpn' = [xpn EXCEPT ![s] = o] /\ links' = [links EXCEPT ![o] = 1] /\ pos' = [pos EXCEPT ![o] = 0]
        /\ dirfd' = [dirfd EXCEPT ![o] = IF next = "dirput" THEN s ELSE NoFd]
        /\ call' = [call EXCEPT ![t] = [at |-> next, id |-> o, fd |-> s, slot |-> 0]]
        /\ UNCHANGED <<fdsFree, dirsFree, held>>
    BY <1>0 DEF Opened, XpnOpen
  <1>8. /\ xpn' \in [Slots -> Ids \cup {None}] /\ xpn'[s] = o /\ \A i \in Slots : i # s => xpn'[i] = xpn[i]
        /\ links' \in [Ids -> Int] /\ links'[o] = 1 /\ \A p \in Ids : p # o => links'[p] = links[p]
        /\ dirfd' \in [Ids -> Int] /\ dirfd'[o] = (IF next = "dirput" THEN s ELSE NoFd)
        /\ \A p \in Ids : p # o => dirfd'[p] = dirfd[p]
    BY <1>2, <1>4, <1>5, <1>7, SlotsAre DEF TableInv, TableType, NoFd
  <1>9. /\ call' = [u \in Threads |-> call'[u]]
        /\ call'[t] = [at |-> next, id |-> o, fd |-> s, slot |-> 0]
        /\ \A u \in Threads \ {t} : call'[u] = call[u]
        /\ pos' = [x \in Ids |-> pos'[x]] /\ \A x \in Ids : x # o => pos'[x] = pos[x]
    BY <1>2, <1>4, <1>7 DEF TableInv, TableType
  <1>10. IsCall(call'[t]) /\ call'[t].at \in Opening /\ call'[t].at \in Changing /\ call'[t].id = o
    BY <1>4, <1>9 DEF IsCall, Ats, Changing, Opening
  <1>11. TableType'
    <2>1. \A u \in Threads : IsCall(call'[u])
      BY <1>2, <1>9, <1>10 DEF TableInv, TableType
    <2> QED
      BY <1>2, <1>3, <1>7, <1>8, <1>9, <2>1 DEF TableInv, TableType, Grows
  <1>12. ASSUME NEW p \in Ids \ {o}, InPlace(p) PROVE InPlace(p)'
    <2>1. PICK i \in Slots : /\ xpn[i] = p /\ held[p] = i + PLUSXPN /\ EntrySet(i)
                             /\ dirfd[p] # NoFd => dirfd[p] = held[p] /\ fdsdirtable_get(p) # {}
      BY <1>12 DEF InPlace
    <2>2. xpn'[i] = p /\ held'[p] = held[p] /\ dirfd'[p] = dirfd[p]
      BY <1>5, <1>7, <1>8, <2>1, SlotsAre
    <2>3. EntrySet(i)' /\ (fdsdirtable_get(p) # {} => fdsdirtable_get(p)' # {})
      BY <1>2, <1>3, <2>1, GrowsKeepsEntries, SlotsAre DEF Grows
    <2> QED
      BY <2>1, <2>2, <2>3 DEF InPlace
  <1>13. Rest(t, o)
    <2>1. \A u \in Threads \ {t} : call'[u] = call[u] /\ call[u].at \notin Changing /\ call[u].id # o
      BY <1>4, <1>6, <1>9
    <2>2. \A i \in Slots : xpn'[i] # None /\ xpn'[i] # o => xpn'[i] = xpn[i] /\ links'[xpn[i]] = links[xpn[i]]
      BY <1>2, <1>8 DEF TableInv, TableType
    <2> QED
      BY <1>3, <1>7, <1>12, <2>1, <2>2 DEF Rest, Grows
  <1>14. EntryFree(s) /\ EntryFree(s)'
    <2>1. EntryFree(s)
      <3> SUFFICES ASSUME s < Len(fds), fds[s + 1] # FREE PROVE FALSE
        BY DEF EntryFree
      <3>1. s \in 0..(Len(fds) - 1)
        BY <1>2, <1>5, SlotsAre DEF TableInv, TableType
      <3> QED
        BY <1>2, <1>5, <1>6, <3>1 DEF TableInv, EntriesOk, Changing
    <2> QED
      BY <1>2, <1>3, <1>5, <2>1, GrowsKeepsEntries, SlotsAre
  <1>15. Own(t, o)
    <2>1. OpeningOk(call[t])'
      <3> DEFINE d == call'[t]
      <3>1. d.id = o /\ d.fd = s /\ d.at = next /\ next \notin {"store", "last"}
        BY <1>9
      <3>2. \A j \in Slots : j < s => xpn'[j] # None
        BY <1>5, <1>8, SlotsAre
      <3>3. d.at # "dirput" => dirfd'[d.id] = NoFd
        BY <1>8, <3>1
      <3> QED
        BY <1>4, <1>5, <1>7, <1>8, <1>14, <3>1, <3>2, <3>3 DEF OpeningOk
    <2>2. ClosingOk(call[t])'
      BY <1>9 DEF ClosingOk
    <2>3. \A i \in Slots : xpn'[i] = o => i = s
      BY <1>4, <1>8
    <2>4. running' = TRUE
      BY <1>1, KeepInitStarts DEF Step, BypassInv
    <2> QED
      BY <1>8, <1>10, <2>1, <2>2, <2>3, <2>4, IdleIs DEF Own
  <1>16. EntriesOk'
    <2>1. Len(fds) \in Nat /\ Len(fds') \in Nat /\ Len(fds) <= Len(fds') /\ \A k \in 1..Len(fds) : fds'[k] = fds[k]
      BY <1>2, <1>3 DEF Grows, TableInv, TableType
    <2>2. ASSUME NEW i \in 0..(Len(fds') - 1), fds'[i + 1] # FREE PROVE i \in Slots /\ EntrySet(i)' /\ xpn'[i] # None
      <3>1. i \in 0..(Len(fds) - 1) /\ fds[i + 1] # FREE
        <4>1. i < Len(fds) /\ fds[i + 1] = fds'[i + 1]
          BY <1>2, <1>3, <2>2, GrowsKeepsEntries
        <4> QED
          BY <2>1, <2>2, <4>1
      <3>2. i \in Slots /\ EntrySet(i) /\ xpn[i] # None
        BY <1>2, <1>6, <3>1 DEF TableInv, EntriesOk, Changing
      <3>3. EntrySet(i)'
        BY <1>2, <1>3, <3>2, GrowsKeepsEntries, SlotsAre
      <3> QED
        BY <1>5, <1>8, <3>2, <3>3
    <2>3. fdsFree \in 0..Len(fds) /\ \A j \in 0..(fdsFree - 1) : fds[j + 1] # FREE
      BY <1>2 DEF TableInv, EntriesOk
    <2>4. fdsFree' \in 0..Len(fds') /\ \A j \in 0..(fdsFree' - 1) : fds'[j + 1] # FREE
      BY <1>7, <2>1, <2>3
    <2> QED
      BY <2>2, <2>4 DEF EntriesOk
  <1>17. call[t].at \in Changing => call[t].id = o
    BY <1>6
  <1>18. "misplaced" \in flags' => "misplaced" \in flags
    BY <1>1 DEF Full, Mixed
  <1>19. TableInv'
    BY <1>2, <1>4, <1>11, <1>13, <1>15, <1>16, <1>17, TurnKeeps
  <1> QED
    BY <1>1, <1>2, <1>4, <1>9, <1>13, <1>15, <1>18, <1>19, TurnKeepsOffsets DEF Step

LEMMA PlaceKept ==
    ASSUME NEW p \in Ids, InPlace(p), held'[p] = held[p], dirfd'[p] = dirfd[p],
           \A i \in Slots : xpn[i] = p => xpn'[i] = p /\ (EntrySet(i) => EntrySet(i)'),
           fdsdirtable_get(p) # {} => fdsdirtable_get(p)' # {}
    PROVE  InPlace(p)'
  BY DEF InPlace

\* Thread t is in the middle of opening or closing: what it is not concerned with.
LEMMA InTheMiddle ==
    ASSUME TableInv, NEW t \in Threads, call[t].at \in Changing
    PROVE  /\ \A u \in Threads \ {t} : /\ call[u].at \notin Changing
                                       /\ call[u].at \in Moving => call[u].id # call[t].id
           /\ \A j \in Slots : xpn[j] # None /\ xpn[j] # call[t].id => EntrySet(j)
           /\ call[t].at # "remove" => \A i \in 0..(Len(fds) - 1) : fds[i + 1] # FREE => xpn[i] # None
  <1>1. \A u \in Threads \ {t} : call[u].at \notin Changing
    BY OthersChangeNothing
  <1>2. \A u \in Threads : call[u].at \in Moving => call[u].id # call[t].id
    BY DEF TableInv, MovingOk, Busy
  <1>3. ASSUME NEW j \in Slots, xpn[j] # None, xpn[j] # call[t].id PROVE EntrySet(j)
    <2>1. ~Busy(xpn[j])
      BY <1>1, <1>3 DEF Busy
    <2>2. InPlace(xpn[j])
      BY <1>3, <2>1 DEF TableInv, FilesOk
    <2>3. PICK i \in Slots : xpn[i] = xpn[j] /\ EntrySet(i)
      BY <2>2 DEF InPlace
    <2> QED
      BY <1>3, <2>3 DEF TableInv, FilesOk
  <1>4. call[t].at # "remove" => \A i \in 0..(Len(fds) - 1) : fds[i + 1] # FREE => xpn[i] # None
    BY <1>1 DEF TableInv, EntriesOk, Changing
  <1> QED
    BY <1>1, <1>2, <1>3, <1>4

\* The step of a wrapper that is not its first.
LEMMA MiddleIsStep ==
    ASSUME Alive, UNCHANGED <<init, running>>, NEW F \in SUBSET {"wild"}, flags' = flags \cup F
    PROVE  Step /\ ("misplaced" \in flags' => "misplaced" \in flags)
  BY DEF Step, init

\* A DIR is registered, or the entry is outside of the table.
LEMMA fdsdirtable_putKeeps == ASSUME BypassInv, NEW t \in Threads, fdsdirtable_put(t) PROVE BypassInv'
  <1>1. Step /\ ("misplaced" \in flags' => "misplaced" \in flags) /\ (Regular' => flags' = flags)
    <2>1. flags' = flags \cup {} \/ flags' = flags \cup {"wild"}
      BY DEF fdsdirtable_put
    <2> QED
      BY <2>1, MiddleIsStep DEF fdsdirtable_put, Regular
  <1> SUFFICES ASSUME Regular' PROVE TableInv' /\ OffsetInv'
    BY <1>1, StepKeeps
  <1>2. Regular /\ TableInv /\ OffsetInv
    BY <1>1, FlagsKept DEF Step, BypassInv
  <1>3. PICK i, table, o, s : /\ i = IF FreeDirs # {} THEN MinOf(FreeDirs) ELSE Len(fds)
                              /\ table = IF FreeDirs # {} THEN dirs ELSE fdsdirtable_realloc
                              /\ o = call[t].id /\ s = call[t].fd
    OBVIOUS
  <1>4. /\ call[t].at = "dirput" /\ i < Len(table) /\ table[i + 1] = None
        /\ dirs' = [table EXCEPT ![i + 1] = o] /\ dirsFree' = i + 1
        /\ call' = [call EXCEPT ![t].at = "search"]
        /\ UNCHANGED <<running, fds, fdsFree, dirfd, xpn, links, pos, held>>
    <2>1. "wild" \notin flags'
      BY DEF Regular
    <2> QED
      BY <1>3, <2>1 DEF fdsdirtable_put, api
  <1>5. i \in Nat
    <2>1. FreeDirs \subseteq Nat
      BY <1>2 DEF FreeDirs, TableInv, TableType
    <2> QED
      <3>1. Len(fds) \in Nat
        BY <1>2 DEF TableInv, TableType
      <3>2. FreeDirs # {} => MinOf(FreeDirs) \in Nat
        BY <2>1, MinOfIs
      <3> QED
        BY <1>3, <3>1, <3>2
  <1>6. /\ table \in Seq(Ids \cup {None}) /\ dirs \in Seq(Ids \cup {None}) /\ Len(dirs) <= Len(table)
        /\ \A k \in 1..Len(dirs) : table[k] = dirs[k]
    BY <1>2, <1>3, DirsGrow DEF TableInv, TableType
  <1>7. call[t].at \in Changing /\ OpeningOk(call[t]) /\ call[t].at \in Opening
    BY <1>2, <1>4 DEF TableInv, Changing, Opening
  <1>8. /\ o \in Ids /\ s \in Slots /\ xpn[s] = o /\ held[o] = NoFd /\ EntryFree(s)
        /\ \A j \in Slots : j < s => xpn[j] # None
    BY <1>3, <1>7 DEF OpeningOk
  <1>9. /\ dirs' \in Seq(Ids \cup {None}) /\ Len(dirs') = Len(table) /\ dirs'[i + 1] = o
        /\ \A k \in 1..Len(table) : k # i + 1 => dirs'[k] = table[k]
    BY <1>4, <1>5, <1>6, <1>8
  <1>10. fdsdirtable_get(o)' # {} /\ \A p \in Ids : fdsdirtable_get(p) # {} => fdsdirtable_get(p)' # {}
    <2>1. i \in 0..(Len(dirs') - 1)
      BY <1>4, <1>5, <1>6, <1>9
    <2>2. \A k \in 1..Len(dirs) : dirs[k] # None => dirs'[k] = dirs[k]
      BY <1>4, <1>5, <1>6, <1>9
    <2>3. ASSUME NEW p \in Ids, fdsdirtable_get(p) # {} PROVE fdsdirtable_get(p)' # {}
      BY <1>6, <1>9, <2>2, <2>3, StillListed, SlotsAre
    <2> QED
      BY <1>9, <2>1, <2>3 DEF fdsdirtable_get
  <1>11. /\ call' = [u \in Threads |-> call'[u]]
         /\ call'[t] = [at |-> "search", id |-> o, fd |-> s, slot |-> call[t].slot]
         /\ \A u \in Threads \ {t} : call'[u] = call[u]
    <2>1. call = [u \in Threads |-> call[u]] /\ IsCall(call[t])
      BY <1>2 DEF TableInv, TableType
    <2> QED
      BY <1>3, <1>4, <2>1 DEF IsCall
  <1>12. IsCall(call'[t]) /\ call'[t].at \in Changing /\ call'[t].id = o
    BY <1>8, <1>11 DEF IsCall, Ats, Changing, Opening
  <1>13. TableType'
    <2>1. \A u \in Threads : IsCall(call'[u])
      BY <1>2, <1>11, <1>12 DEF TableInv, TableType
    <2> QED
      <3>1. dirsFree' \in Nat /\ pos' = [x \in Ids |-> pos'[x]]
        BY <1>2, <1>4, <1>5 DEF TableInv, TableType
      <3>2. /\ fds' \in Seq(Entries) /\ xpn' \in [Slots -> Ids \cup {None}] /\ links' \in [Ids -> Int]
            /\ held' \in [Ids -> Int] /\ dirfd' \in [Ids -> Int]
        BY <1>2, <1>4 DEF TableInv, TableType
      <3> QED
        BY <1>9, <1>11, <2>1, <3>1, <3>2 DEF TableType
  <1>14. Rest(t, o)
    <2>1. ASSUME NEW p \in Ids, InPlace(p) PROVE InPlace(p)'
      BY <1>4, <1>10, <2>1, PlaceKept DEF EntrySet
    <2> QED
      BY <1>2, <1>3, <1>4, <1>7, <1>11, <2>1, InTheMiddle DEF Rest, BypassInv
  <1>15. Own(t, o)
    <2>1. OpeningOk(call[t])'
      BY <1>4, <1>8, <1>10, <1>11 DEF OpeningOk, EntryFree
    <2>2. ClosingOk(call[t])'
      BY <1>11 DEF ClosingOk
    <2>3. \A j \in Slots : xpn[j] = o => links[o] = 1 /\ running = TRUE /\ j = s
      BY <1>2, <1>8, SlotsAre DEF TableInv, FilesOk
    <2> QED
      BY <1>4, <1>12, <2>1, <2>2, <2>3, IdleIs DEF Own
  <1>16. EntriesOk'
    BY <1>2, <1>4, <1>7, InTheMiddle DEF TableInv, EntriesOk, EntrySet
  <1>17. TableInv'
    BY <1>2, <1>3, <1>8, <1>13, <1>14, <1>15, <1>16, TurnKeeps
  <1> QED
    BY <1>1, <1>2, <1>4, <1>8, <1>14, <1>15, <1>17, TurnKeepsOffsets DEF Step

\* The entry fdstable_put finds is the one the API took.
LEMMA SameNumber ==
    ASSUME TableInv, NEW t \in Threads, call[t].at = "search"
    PROVE  /\ FreeFds # {} => MinOf(FreeFds) = call[t].fd /\ call[t].fd < Len(fds)
           /\ FreeFds = {} => Len(fds) = call[t].fd
  <1> DEFINE s == call[t].fd
  <1>1. /\ call[t].id \in Ids /\ s \in Slots /\ xpn[s] = call[t].id /\ EntryFree(s)
        /\ \A j \in Slots : j < s => xpn[j] # None
    BY DEF TableInv, OpeningOk, Opening
  <1>2. s \in Nat /\ Len(fds) \in Nat
    BY <1>1, SlotsAre DEF TableInv, TableType
  <1>3. ASSUME NEW j \in Nat, j < s PROVE j < Len(fds) /\ fds[j + 1] # FREE
    <2>1. j \in Slots
      BY <1>1, <1>2, <1>3, BypassAssumption DEF Slots
    <2>2. xpn[j] # None /\ xpn[j] # call[t].id
      BY <1>1, <1>2, <1>3, <2>1 DEF TableInv, FilesOk
    <2>3. EntrySet(j)
      BY <2>1, <2>2, InTheMiddle DEF Changing, Opening
    <2> QED
      BY <2>3 DEF EntrySet, FREE
  <1>4. fdsFree \in Nat /\ (s < Len(fds) => s \in FreeFds)
    <2>1. fdsFree \in 0..Len(fds) /\ \A j \in 0..(fdsFree - 1) : fds[j + 1] # FREE
      BY DEF TableInv, EntriesOk
    <2>2. fdsFree \in Nat
      BY <1>2, <2>1
    <2>3. ASSUME s < Len(fds) PROVE s \in FreeFds
      <3>1. fds[s + 1] = FREE
        BY <1>1, <2>3 DEF EntryFree
      <3>2. ~(s < fdsFree)
        BY <1>2, <2>1, <2>2, <3>1
      <3> QED
        BY <1>2, <2>2, <2>3, <3>1, <3>2 DEF FreeFds
    <2> QED
      BY <2>2, <2>3
  <1>5. ASSUME FreeFds # {} PROVE MinOf(FreeFds) = s /\ s < Len(fds)
    <2>1. FreeFds \subseteq Nat
      BY <1>2, <1>4 DEF FreeFds
    <2>2. MinOf(FreeFds) \in FreeFds /\ \A j \in FreeFds : MinOf(FreeFds) <= j
      BY <1>5, <2>1, MinOfIs
    <2>3. PICK m \in Nat : m = MinOf(FreeFds) /\ m < Len(fds) /\ fds[m + 1] = FREE
      <3>1. MinOf(FreeFds) \in fdsFree..(Len(fds) - 1) /\ fds[MinOf(FreeFds) + 1] = FREE
        BY <2>2 DEF FreeFds
      <3> QED
        BY <1>2, <1>4, <3>1
    <2>4. ~(m < s)
      BY <1>3, <2>3
    <2> QED
      BY <1>2, <1>4, <2>2, <2>3, <2>4
  <1>6. ASSUME FreeFds = {} PROVE Len(fds) = s
    <2>1. ~(s < Len(fds))
      BY <1>4, <1>6
    <2>2. ~(Len(fds) < s)
      BY <1>2, <1>3
    <2> QED
      BY <1>2, <2>1, <2>2
  <1> QED
    BY <1>5, <1>6

LEMMA fdstable_searchKeeps == ASSUME BypassInv, NEW t \in Threads, fdstable_search(t) PROVE BypassInv'
  <1>1. Step /\ flags' = flags
    BY DEF fdstable_search, Step, init
  <1> SUFFICES ASSUME Regular' PROVE TableInv' /\ OffsetInv'
    BY <1>1, StepKeeps
  <1>2. Regular /\ TableInv /\ OffsetInv
    BY <1>1, FlagsKept DEF Step, BypassInv
  <1>3. PICK o, s : o = call[t].id /\ s = call[t].fd
    OBVIOUS
  <1>4. /\ call[t].at = "search"
        /\ UNCHANGED <<running, fdsFree, dirs, dirsFree, dirfd, xpn, links, pos, held>>
    BY DEF fdstable_search, api
  <1>5. call[t].at \in Changing /\ OpeningOk(call[t]) /\ call[t].at \in Opening
    BY <1>2, <1>4 DEF TableInv, Changing, Opening
  <1>6. /\ o \in Ids /\ s \in Slots /\ xpn[s] = o /\ held[o] = NoFd /\ EntryFree(s) /\ s \in Nat
        /\ \A j \in Slots : j < s => xpn[j] # None
        /\ dirfd[o] # NoFd => fdsdirtable_get(o) # {}
    BY <1>3, <1>4, <1>5, SlotsAre DEF OpeningOk
  <1>7. \E at \in {"store", "last"} : call' = [call EXCEPT ![t].at = at, ![t].slot = s]
    BY <1>2, <1>3, <1>4, SameNumber DEF fdstable_search
  <1>8. PICK at \in {"store", "last"} : /\ call' = [u \in Threads |-> call'[u]]
                                        /\ call'[t] = [at |-> at, id |-> o, fd |-> s, slot |-> s]
                                        /\ \A u \in Threads \ {t} : call'[u] = call[u]
    <2>1. call = [u \in Threads |-> call[u]] /\ IsCall(call[t])
      BY <1>2 DEF TableInv, TableType
    <2> QED
      BY <1>3, <1>7, <2>1 DEF IsCall
  <1>9. Grows /\ s < Len(fds')
    <2>1. fds \in Seq(Entries) /\ dirs \in Seq(Ids \cup {None}) /\ running \in BOOLEAN
      BY <1>2 DEF BypassInv, TableInv, TableType
    <2>2. CASE FreeFds # {}
      BY <1>2, <1>3, <1>4, <2>1, <2>2, SameNumber, SameTablesGrow DEF fdstable_search
    <2>3. CASE FreeFds = {}
      <3>1. fds' = fdstable_realloc /\ Len(fds) = s
        BY <1>2, <1>3, <1>4, <2>3, SameNumber DEF fdstable_search
      <3>2. /\ fds' \in Seq(Entries) /\ Len(fds) < Len(fds')
            /\ \A k \in 1..Len(fds) : fds'[k] = fds[k]
            /\ \A k \in (Len(fds) + 1)..Len(fds') : fds'[k] = FREE
        BY <2>1, <3>1, FdsGrow
      <3>3. Len(fds) \in Nat /\ Len(fds') \in Nat /\ Len(fds) <= Len(fds')
        BY <2>1, <3>2
      <3> QED
        BY <1>4, <2>1, <3>1, <3>2, <3>3 DEF Grows, fdsdirtable_get
    <2> QED
      BY <2>2, <2>3
  <1>10. IsCall(call'[t]) /\ call'[t].at \in Changing /\ call'[t].id = o
    BY <1>6, <1>8 DEF IsCall, Ats, Changing, Opening
  <1>11. TableType'
    <2>1. \A u \in Threads : IsCall(call'[u])
      BY <1>2, <1>8, <1>10 DEF TableInv, TableType
    <2>2. /\ dirs' \in Seq(Ids \cup {None}) /\ dirsFree' \in Nat /\ xpn' \in [Slots -> Ids \cup {None}]
          /\ links' \in [Ids -> Int] /\ held' \in [Ids -> Int] /\ dirfd' \in [Ids -> Int]
      BY <1>2, <1>4 DEF TableInv, TableType
    <2>3. pos' = [x \in Ids |-> pos'[x]]
      BY <1>2, <1>4 DEF TableInv, TableType
    <2> QED
      BY <1>8, <1>9, <2>1, <2>2, <2>3 DEF TableType, Grows
  <1>12. Rest(t, o)
    <2>1. ASSUME NEW p \in Ids, InPlace(p) PROVE InPlace(p)'
      BY <1>2, <1>4, <1>9, <2>1, GrowsKeepsPlaces
    <2> QED
      BY <1>2, <1>3, <1>4, <1>5, <1>8, <2>1, InTheMiddle DEF Rest, BypassInv
  <1>13. Own(t, o)
    <2>1. EntryFree(s)' /\ (fdsdirtable_get(o) # {} => fdsdirtable_get(o)' # {})
      BY <1>2, <1>6, <1>9, GrowsKeepsEntries DEF Grows
    <2>2. OpeningOk(call[t])'
      BY <1>4, <1>6, <1>8, <1>9, <2>1 DEF OpeningOk
    <2>3. ClosingOk(call[t])'
      BY <1>8 DEF ClosingOk
    <2>4. \A j \in Slots : xpn[j] = o => links[o] = 1 /\ running = TRUE /\ j = s
      BY <1>2, <1>6, SlotsAre DEF TableInv, FilesOk
    <2> QED
      BY <1>4, <1>10, <2>2, <2>3, <2>4, IdleIs DEF Own
  <1>14. EntriesOk'
    <2>1. Len(fds) \in Nat /\ Len(fds') \in Nat /\ Len(fds) <= Len(fds') /\ \A k \in 1..Len(fds) : fds'[k] = fds[k]
      BY <1>2, <1>9 DEF Grows, TableInv, TableType
    <2>2. ASSUME NEW i \in 0..(Len(fds') - 1), fds'[i + 1] # FREE PROVE i \in Slots /\ EntrySet(i)' /\ xpn'[i] # None
      <3>1. i \in 0..(Len(fds) - 1) /\ fds[i + 1] # FREE
        <4>1. i < Len(fds) /\ fds[i + 1] = fds'[i + 1]
          BY <1>2, <1>9, <2>2, GrowsKeepsEntries
        <4> QED
          BY <2>1, <2>2, <4>1
      <3>2. i \in Slots /\ EntrySet(i) /\ xpn[i] # None
        BY <1>2, <1>4, <1>5, <3>1, InTheMiddle DEF TableInv, EntriesOk
      <3>3. EntrySet(i)'
        BY <1>2, <1>9, <3>2, GrowsKeepsEntries, SlotsAre
      <3> QED
        BY <1>4, <3>2, <3>3
    <2>3. fdsFree \in 0..Len(fds) /\ \A j \in 0..(fdsFree - 1) : fds[j + 1] # FREE
      BY <1>2 DEF TableInv, EntriesOk
    <2>4. fdsFree' \in 0..Len(fds') /\ \A j \in 0..(fdsFree' - 1) : fds'[j + 1] # FREE
      BY <1>4, <2>1, <2>3
    <2> QED
      BY <2>2, <2>4 DEF EntriesOk
  <1>15. TableInv'
    BY <1>2, <1>3, <1>6, <1>11, <1>12, <1>13, <1>14, TurnKeeps
  <1> QED
    BY <1>1, <1>2, <1>4, <1>6, <1>12, <1>13, <1>15, TurnKeepsOffsets DEF Step

\* The number is stored: the file is in place.
LEMMA fdstable_putKeeps == ASSUME BypassInv, NEW t \in Threads, fdstable_put(t) PROVE BypassInv'
  <1>1. Step /\ flags' = flags
    BY DEF fdstable_put, Step, init
  <1> SUFFICES ASSUME Regular' PROVE TableInv' /\ OffsetInv'
    BY <1>1, StepKeeps
  <1>2. Regular /\ TableInv /\ OffsetInv
    BY <1>1, FlagsKept DEF Step, BypassInv
  <1>3. PICK o, s : o = call[t].id /\ s = call[t].fd
    OBVIOUS
  <1>4. call[t].at \in {"store", "last"} /\ call[t].at \in Changing /\ call[t].at # "remove"
        /\ OpeningOk(call[t]) /\ call[t].at \in Opening
    BY <1>2 DEF fdstable_put, TableInv, Changing, Opening
  <1>5. /\ o \in Ids /\ s \in Slots /\ xpn[s] = o /\ held[o] = NoFd /\ s \in Nat /\ call[t].slot = s /\ s < Len(fds)
        /\ \A j \in Slots : j < s => xpn[j] # None
        /\ dirfd[o] # NoFd => fdsdirtable_get(o) # {}
    BY <1>3, <1>4, SlotsAre DEF OpeningOk
  <1>6. PICK e \in Entries : e = [type |-> "FD_XPN", real_fd |-> s] /\ e # FREE
    <2>1. [type |-> "FD_XPN", real_fd |-> s] \in Entries
      BY <1>5 DEF Entries
    <2>2. [type |-> "FD_XPN", real_fd |-> s].type # FREE.type
      BY DEF FREE
    <2> QED
      BY <2>1, <2>2
  <1>7. /\ fds' = [fds EXCEPT ![s + 1] = e]
        /\ fdsFree' = (IF call[t].at = "store" THEN s + 1 ELSE fdsFree)
        /\ held' = [held EXCEPT ![o] = s + PLUSXPN]
        /\ dirfd' = [dirfd EXCEPT ![o] = IF @ = NoFd THEN NoFd ELSE s + PLUSXPN]
        /\ call' = [call EXCEPT ![t] = Idle]
        /\ UNCHANGED <<running, dirs, dirsFree, xpn, links, pos>>
    BY <1>3, <1>5, <1>6 DEF fdstable_put, api
  <1>8. /\ fds' \in Seq(Entries) /\ Len(fds') = Len(fds) /\ Len(fds) \in Nat /\ fds'[s + 1] = e
        /\ \A k \in 1..Len(fds) : k # s + 1 => fds'[k] = fds[k]
    BY <1>2, <1>5, <1>6, <1>7 DEF TableInv, TableType
  <1>9. /\ held' \in [Ids -> Int] /\ held'[o] = s + PLUSXPN /\ \A p \in Ids : p # o => held'[p] = held[p]
        /\ dirfd' \in [Ids -> Int] /\ (dirfd'[o] = NoFd \/ dirfd'[o] = s + PLUSXPN)
        /\ dirfd'[o] # NoFd => dirfd[o] # NoFd
        /\ \A p \in Ids : p # o => dirfd'[p] = dirfd[p]
    <2>1. s + PLUSXPN \in Int /\ NoFd \in Int /\ held \in [Ids -> Int] /\ dirfd \in [Ids -> Int]
      BY <1>2, <1>5, SlotsAre DEF TableInv, TableType, NoFd
    <2> QED
      BY <1>5, <1>7, <2>1
  <1>10. /\ call' = [u \in Threads |-> call'[u]] /\ call'[t] = Idle
         /\ \A u \in Threads \ {t} : call'[u] = call[u]
    BY <1>2, <1>7 DEF TableInv, TableType
  <1>11. TableType'
    <2>1. \A u \in Threads : IsCall(call'[u])
      BY <1>2, <1>10, IdleIs DEF TableInv, TableType
    <2>2. /\ dirs' \in Seq(Ids \cup {None}) /\ dirsFree' \in Nat /\ xpn' \in [Slots -> Ids \cup {None}]
          /\ links' \in [Ids -> Int]
      BY <1>2, <1>7 DEF TableInv, TableType
    <2>3. pos' = [x \in Ids |-> pos'[x]]
      BY <1>2, <1>7 DEF TableInv, TableType
    <2> QED
      BY <1>8, <1>9, <1>10, <2>1, <2>2, <2>3 DEF TableType
  <1>12. EntrySet(s)' /\ \A i \in Nat : i # s /\ EntrySet(i) => EntrySet(i)'
    BY <1>5, <1>6, <1>8 DEF EntrySet
  <1>13. Rest(t, o)
    <2>1. ASSUME NEW p \in Ids \ {o}, InPlace(p) PROVE InPlace(p)'
      <3>1. \A i \in Slots : xpn[i] = p => xpn'[i] = p /\ (EntrySet(i) => EntrySet(i)')
        BY <1>5, <1>7, <1>12, SlotsAre
      <3> QED
        BY <1>7, <1>9, <2>1, <3>1, PlaceKept DEF fdsdirtable_get
    <2> QED
      BY <1>2, <1>3, <1>4, <1>7, <1>9, <1>10, <2>1, InTheMiddle DEF Rest, BypassInv
  <1>14. Own(t, o)
    <2>1. OpeningOk(call[t])' /\ ClosingOk(call[t])'
      BY <1>10, IdleIs DEF OpeningOk, ClosingOk, Changing
    <2>2. \A j \in Slots : xpn[j] = o => links[o] = 1 /\ running = TRUE /\ j = s
      BY <1>2, <1>5, SlotsAre DEF TableInv, FilesOk
    <2>3. InPlace(o)'
      BY <1>5, <1>7, <1>9, <1>12 DEF InPlace, fdsdirtable_get
    <2> QED
      BY <1>5, <1>7, <1>10, <2>1, <2>2, <2>3, IdleIs DEF Own
  <1>15. EntriesOk'
    <2>1. ASSUME NEW i \in 0..(Len(fds') - 1), fds'[i + 1] # FREE PROVE i \in Slots /\ EntrySet(i)' /\ xpn'[i] # None
      <3>1. CASE i = s
        BY <1>5, <1>7, <1>12, <3>1, SlotsAre
      <3>2. CASE i # s
        <4>1. i \in 0..(Len(fds) - 1) /\ fds[i + 1] # FREE
          BY <1>5, <1>8, <2>1, <3>2
        <4>2. i \in Slots /\ EntrySet(i) /\ xpn[i] # None
          BY <1>2, <1>4, <4>1, InTheMiddle DEF TableInv, EntriesOk
        <4> QED
          BY <1>7, <1>12, <3>2, <4>2, SlotsAre
      <3> QED
        BY <3>1, <3>2
    <2>2. fdsFree \in 0..Len(fds) /\ \A j \in 0..(fdsFree - 1) : fds[j + 1] # FREE
      BY <1>2 DEF TableInv, EntriesOk
    <2>3. ASSUME NEW j \in Nat, j < s PROVE fds[j + 1] # FREE
      <3>1. j \in Slots
        BY <1>5, <2>3, BypassAssumption DEF Slots
      <3>2. xpn[j] # None /\ xpn[j] # o
        BY <1>2, <1>5, <2>3, <3>1 DEF TableInv, FilesOk
      <3>3. EntrySet(j)
        BY <1>2, <1>3, <1>4, <3>1, <3>2, InTheMiddle
      <3> QED
        BY <3>3 DEF EntrySet, FREE
    <2>4. fdsFree' \in 0..Len(fds')
      BY <1>5, <1>7, <1>8, <2>2
    <2>5. ASSUME NEW j \in 0..(fdsFree' - 1) PROVE fds'[j + 1] # FREE
      <3>1. j \in Nat /\ (j < s \/ j = s \/ j \in 0..(fdsFree - 1)) /\ j < Len(fds)
        BY <1>5, <1>7, <1>8, <2>2, <2>4, <2>5
      <3>2. CASE j = s
        BY <1>6, <1>8, <3>2
      <3>3. CASE j # s
        BY <1>5, <1>8, <2>2, <2>3, <3>1, <3>3
      <3> QED
        BY <3>2, <3>3
    <2> QED
      BY <2>1, <2>4, <2>5 DEF EntriesOk
  <1>16. TableInv'
    BY <1>2, <1>3, <1>5, <1>11, <1>13, <1>14, <1>15, TurnKeeps
  <1> QED
    BY <1>1, <1>2, <1>5, <1>7, <1>13, <1>14, <1>16, TurnKeepsOffsets DEF Step

-----------------------------------------------------------------------------
(* Closing *)

\* The API closes the one entry of a file.
LEMMA XpnCloseIs ==
    ASSUME TableInv, NEW o \in Ids, NEW i \in Slots, xpn[i] = o, XpnClose(i)
    PROVE  /\ xpn' \in [Slots -> Ids \cup {None}] /\ xpn'[i] = None
           /\ \A j \in Slots : xpn'[j] # o /\ (j # i => xpn'[j] = xpn[j])
           /\ links' \in [Ids -> Int] /\ \A p \in Ids : p # o => links'[p] = links[p]
           /\ pos' = [x \in Ids |-> pos'[x]] /\ \A x \in Ids : x # o => pos'[x] = pos[x]
           /\ Wild(i) = {}
  <1>1. /\ running = TRUE /\ links[o] = 1 /\ o # None
        /\ \A j \in Slots : xpn[j] = o => j = i
    BY SlotsAre DEF TableInv, FilesOk
  <1>2. /\ links' = [links EXCEPT ![o] = @ - 1] /\ xpn' = [xpn EXCEPT ![i] = None]
        /\ pos' = [pos EXCEPT ![o] = 0]
    BY <1>1 DEF XpnClose
  <1>3. /\ xpn \in [Slots -> Ids \cup {None}] /\ links \in [Ids -> Int] /\ pos = [x \in Ids |-> pos[x]]
    BY DEF TableInv, TableType
  <1>4. Wild(i) = {}
    BY <1>1 DEF Wild, Dangling
  <1> QED
    BY <1>1, <1>2, <1>3, <1>4

\* fdstable_remove frees its entry and no other.
LEMMA RemoveIs ==
    ASSUME TableInv, NEW i \in Slots, i < Len(fds), fdstable_remove(i + PLUSXPN)
    PROVE  /\ fds' \in Seq(Entries) /\ Len(fds') = Len(fds) /\ Len(fds) \in Nat /\ fds'[i + 1] = FREE
           /\ \A k \in 1..Len(fds) : k # i + 1 => fds'[k] = fds[k]
           /\ fdsFree' \in 0..Len(fds') /\ \A j \in 0..(fdsFree' - 1) : fds'[j + 1] # FREE
           /\ EntryFree(i)'
           /\ \A j \in Nat : j # i /\ EntrySet(j) => EntrySet(j)'
  <1>1. i \in Nat /\ PLUSXPN \in Nat /\ i + PLUSXPN - PLUSXPN = i /\ i + PLUSXPN - PLUSXPN + 1 = i + 1
    BY SlotsAre
  <1>2. fds' = [fds EXCEPT ![i + 1] = FREE] /\ fdsFree' = IF i < fdsFree THEN i ELSE fdsFree
    BY <1>1 DEF fdstable_remove
  <1>3. /\ fds' \in Seq(Entries) /\ Len(fds') = Len(fds) /\ Len(fds) \in Nat /\ fds'[i + 1] = FREE
        /\ \A k \in 1..Len(fds) : k # i + 1 => fds'[k] = fds[k]
    BY <1>1, <1>2, FreeIsEntry DEF TableInv, TableType
  <1>4. fdsFree \in 0..Len(fds) /\ \A j \in 0..(fdsFree - 1) : fds[j + 1] # FREE
    BY DEF TableInv, EntriesOk
  <1>5. fdsFree' \in 0..Len(fds') /\ fdsFree' <= i /\ fdsFree' <= fdsFree
    BY <1>1, <1>2, <1>3, <1>4
  <1>6. ASSUME NEW j \in 0..(fdsFree' - 1) PROVE fds'[j + 1] # FREE
    <2>1. PICK n, f, l \in Nat : n = fdsFree' /\ f = fdsFree /\ l = Len(fds) /\ n <= i /\ n <= f /\ f <= l
      <3>1. Len(fds) \in Nat /\ Len(fds') = Len(fds)
        BY <1>3
      <3>2. fdsFree \in Nat /\ fdsFree <= Len(fds)
        BY <1>4, <3>1
      <3>3. fdsFree' \in Nat /\ fdsFree' <= i /\ fdsFree' <= fdsFree
        BY <1>5, <3>1
      <3> QED
        BY <3>1, <3>2, <3>3
    <2>2. j \in 0..(n - 1)
      BY <1>6, <2>1
    <2>3. i \in Nat /\ n <= i /\ n <= f /\ f <= l
      BY <1>1, <2>1
    <2>4. j \in 0..(f - 1) /\ j + 1 \in 1..l /\ j + 1 # i + 1
      BY <2>2, <2>3
    <2>5. fds'[j + 1] = fds[j + 1] /\ fds[j + 1] # FREE
      BY <1>3, <1>4, <2>1, <2>4
    <2> QED
      BY <2>5
  <1>7. EntryFree(i)' /\ \A j \in Nat : j # i /\ EntrySet(j) => EntrySet(j)'
    BY <1>1, <1>3 DEF EntryFree, EntrySet
  <1> QED
    BY <1>3, <1>5, <1>6, <1>7

\* The first step of close: the API closes the file.
LEMMA CloseKeeps == ASSUME BypassInv, NEW t \in Threads, NEW o \in Ids, CloseWith(t, o) PROVE BypassInv'
  <1>1. Step /\ ("misplaced" \in flags' => "misplaced" \in flags) /\ (Mixed(t) \subseteq flags' \/ ~IsXpn(held[o]))
    BY DEF CloseWith, Enters, Step, Kept, Api, Mixed, Wild, init
  <1> SUFFICES ASSUME Regular' PROVE TableInv' /\ OffsetInv'
    BY <1>1, StepKeeps
  <1>2. Regular /\ TableInv /\ OffsetInv
    BY <1>1, FlagsKept DEF Step, BypassInv
  <1>3. /\ held[o] # NoFd /\ dirfd[o] = NoFd /\ call[t] = Idle /\ \A u \in Threads : call[u].id # o
    BY DEF CloseWith, Enters
  <1>4. InPlace(o)
    BY <1>2, <1>3 DEF Busy, TableInv, FilesOk
  <1>5. PICK i \in Slots : /\ xpn[i] = o /\ held[o] = i + PLUSXPN /\ EntrySet(i) /\ IsXpn(held[o])
                           /\ fdstable_get(held[o]) = [type |-> "FD_XPN", real_fd |-> i]
    BY <1>2, <1>4, BehindIs
  <1>6. /\ Kept /\ XpnClose(i)
        /\ call' = [call EXCEPT ![t] = [at |-> "remove", id |-> o, fd |-> held[o], slot |-> 0]]
        /\ UNCHANGED <<fdsFree, dirsFree, dirfd, held>>
    BY <1>5 DEF CloseWith, Kept
  <1>7. Grows
    BY <1>2, <1>6, KeepInitGrows
  <1>8. /\ xpn' \in [Slots -> Ids \cup {None}] /\ xpn'[i] = None
        /\ \A j \in Slots : xpn'[j] # o /\ (j # i => xpn'[j] = xpn[j])
        /\ links' \in [Ids -> Int] /\ \A p \in Ids : p # o => links'[p] = links[p]
        /\ pos' = [x \in Ids |-> pos'[x]] /\ \A x \in Ids : x # o => pos'[x] = pos[x]
    BY <1>2, <1>5, <1>6, XpnCloseIs
  <1>9. \A u \in Threads : call[u].at \notin Changing
    <2>1. Mixed(t) = {}
      BY <1>1, <1>5 DEF Mixed, Regular
    <2> QED
      BY <1>2, <1>3, <2>1, OthersChangeNothing, IdleIs
  <1>10. /\ call' = [u \in Threads |-> call'[u]]
         /\ call'[t] = [at |-> "remove", id |-> o, fd |-> i + PLUSXPN, slot |-> 0]
         /\ \A u \in Threads \ {t} : call'[u] = call[u]
    BY <1>2, <1>5, <1>6 DEF TableInv, TableType
  <1>11. IsCall(call'[t]) /\ call'[t].at \in Changing /\ call'[t].id = o
    BY <1>10 DEF IsCall, Ats, Changing
  <1>12. TableType'
    <2>1. \A u \in Threads : IsCall(call'[u])
      BY <1>2, <1>10, <1>11 DEF TableInv, TableType
    <2>2. dirsFree' \in Nat /\ held' \in [Ids -> Int] /\ dirfd' \in [Ids -> Int]
      BY <1>2, <1>6 DEF TableInv, TableType
    <2> QED
      BY <1>7, <1>8, <1>10, <2>1, <2>2 DEF TableType, Grows
  <1>13. \A j \in Slots : EntrySet(j) => EntrySet(j)'
    BY <1>2, <1>7, GrowsKeepsEntries, SlotsAre
  <1>14. Rest(t, o)
    <2>1. ASSUME NEW p \in Ids \ {o}, InPlace(p) PROVE InPlace(p)'
      <3>1. \A j \in Slots : xpn[j] = p => xpn'[j] = p /\ (EntrySet(j) => EntrySet(j)')
        BY <1>5, <1>8, <1>13
      <3> QED
        BY <1>6, <1>7, <2>1, <3>1, PlaceKept DEF Grows
    <2>2. \A j \in Slots : xpn'[j] # None /\ xpn'[j] # o => xpn'[j] = xpn[j] /\ links'[xpn[j]] = links[xpn[j]]
      BY <1>2, <1>8 DEF TableInv, TableType
    <2> QED
      BY <1>3, <1>6, <1>7, <1>9, <1>10, <2>1, <2>2 DEF Rest, Grows
  <1>15. Own(t, o)
    <2>1. OpeningOk(call[t])'
      BY <1>10 DEF OpeningOk, Opening
    <2>2. ClosingOk(call[t])'
      BY <1>3, <1>5, <1>6, <1>8, <1>10, <1>13 DEF ClosingOk
    <2> QED
      BY <1>8, <1>11, <2>1, <2>2, IdleIs DEF Own
  <1>16. EntriesOk'
    <2>1. Len(fds) \in Nat /\ Len(fds') \in Nat /\ Len(fds) <= Len(fds') /\ \A k \in 1..Len(fds) : fds'[k] = fds[k]
      BY <1>2, <1>7 DEF Grows, TableInv, TableType
    <2>2. ASSUME NEW j \in 0..(Len(fds') - 1), fds'[j + 1] # FREE
          PROVE  j \in Slots /\ EntrySet(j)' /\ (xpn'[j] # None \/ j = i)
      <3>1. j \in 0..(Len(fds) - 1) /\ fds[j + 1] # FREE
        <4>1. j < Len(fds) /\ fds[j + 1] = fds'[j + 1]
          BY <1>2, <1>7, <2>2, GrowsKeepsEntries
        <4> QED
          BY <2>1, <2>2, <4>1
      <3>2. j \in Slots /\ EntrySet(j) /\ xpn[j] # None
        BY <1>2, <1>9, <3>1 DEF TableInv, EntriesOk, Changing
      <3> QED
        BY <1>8, <1>13, <3>2
    <2>3. fdsFree \in 0..Len(fds) /\ \A j \in 0..(fdsFree - 1) : fds[j + 1] # FREE
      BY <1>2 DEF TableInv, EntriesOk
    <2>4. fdsFree' \in 0..Len(fds') /\ \A j \in 0..(fdsFree' - 1) : fds'[j + 1] # FREE
      BY <1>6, <2>1, <2>3
    <2>5. call'[t].at = "remove" /\ call'[t].fd = i + PLUSXPN
      BY <1>10
    <2> QED
      BY <2>2, <2>4, <2>5 DEF EntriesOk
  <1>17. TableInv'
    BY <1>2, <1>9, <1>12, <1>14, <1>15, <1>16, TurnKeeps
  <1> QED
    BY <1>1, <1>2, <1>8, <1>14, <1>15, <1>17, TurnKeepsOffsets DEF Step

\* Its second step: the number is free again.
LEMMA RemovedKeeps == ASSUME BypassInv, NEW t \in Threads, Removed(t) PROVE BypassInv'
  <1>1. Step /\ flags' = flags
    BY DEF Removed, Step, init
  <1> SUFFICES ASSUME Regular' PROVE TableInv' /\ OffsetInv'
    BY <1>1, StepKeeps
  <1>2. Regular /\ TableInv /\ OffsetInv
    BY <1>1, FlagsKept DEF Step, BypassInv
  <1>3. PICK o : o = call[t].id
    OBVIOUS
  <1>4. call[t].at = "remove" /\ call[t].at \in Changing /\ ClosingOk(call[t])
    BY <1>2 DEF Removed, TableInv, Changing
  <1>5. o \in Ids /\ dirfd[o] = NoFd /\ \A j \in Slots : xpn[j] # o
    BY <1>3, <1>4 DEF ClosingOk
  <1>6. PICK i \in Slots : call[t].fd = i + PLUSXPN /\ xpn[i] = None /\ EntrySet(i)
    BY <1>4 DEF ClosingOk
  <1>7. /\ fdstable_remove(i + PLUSXPN) /\ held' = [held EXCEPT ![o] = NoFd] /\ call' = [call EXCEPT ![t] = Idle]
        /\ UNCHANGED <<running, dirs, dirsFree, dirfd, xpn, links, pos>>
    BY <1>3, <1>6 DEF Removed, api
  <1>8. /\ fds' \in Seq(Entries) /\ Len(fds') = Len(fds) /\ Len(fds) \in Nat /\ fds'[i + 1] = FREE
        /\ \A k \in 1..Len(fds) : k # i + 1 => fds'[k] = fds[k]
        /\ fdsFree' \in 0..Len(fds') /\ \A j \in 0..(fdsFree' - 1) : fds'[j + 1] # FREE
        /\ \A j \in Nat : j # i /\ EntrySet(j) => EntrySet(j)'
    BY <1>2, <1>6, <1>7, RemoveIs DEF EntrySet
  <1>9. /\ call' = [u \in Threads |-> call'[u]] /\ call'[t] = Idle
        /\ \A u \in Threads \ {t} : call'[u] = call[u]
        /\ held' \in [Ids -> Int] /\ held'[o] = NoFd /\ \A p \in Ids : p # o => held'[p] = held[p]
    BY <1>2, <1>5, <1>7 DEF TableInv, TableType, NoFd
  <1>10. TableType'
    <2>1. \A u \in Threads : IsCall(call'[u])
      BY <1>2, <1>9, IdleIs DEF TableInv, TableType
    <2>2. /\ dirs' \in Seq(Ids \cup {None}) /\ dirsFree' \in Nat /\ xpn' \in [Slots -> Ids \cup {None}]
          /\ links' \in [Ids -> Int] /\ dirfd' \in [Ids -> Int]
      BY <1>2, <1>7 DEF TableInv, TableType
    <2>3. pos' = [x \in Ids |-> pos'[x]]
      BY <1>2, <1>7 DEF TableInv, TableType
    <2> QED
      BY <1>8, <1>9, <2>1, <2>2, <2>3 DEF TableType
  <1>11. Rest(t, o)
    <2>1. ASSUME NEW p \in Ids \ {o}, InPlace(p) PROVE InPlace(p)'
      <3>1. \A j \in Slots : xpn[j] = p => xpn'[j] = p /\ (EntrySet(j) => EntrySet(j)')
        BY <1>6, <1>7, <1>8, SlotsAre
      <3> QED
        BY <1>7, <1>9, <2>1, <3>1, PlaceKept DEF fdsdirtable_get
    <2> QED
      BY <1>2, <1>3, <1>4, <1>7, <1>9, <2>1, InTheMiddle DEF Rest, BypassInv
  <1>12. Own(t, o)
    <2>1. OpeningOk(call[t])' /\ ClosingOk(call[t])'
      BY <1>9, IdleIs DEF OpeningOk, ClosingOk, Changing
    <2> QED
      BY <1>5, <1>7, <1>9, <2>1, IdleIs DEF Own
  <1>13. EntriesOk'
    <2>1. ASSUME NEW j \in 0..(Len(fds') - 1), fds'[j + 1] # FREE PROVE j \in Slots /\ EntrySet(j)' /\ xpn'[j] # None
      <3>1. j # i /\ j \in 0..(Len(fds) - 1) /\ fds[j + 1] # FREE /\ i \in Nat
        BY <1>8, <2>1, SlotsAre
      <3>2. ~(call[t].fd = j + PLUSXPN)
        BY <1>6, <3>1, SlotsAre
      <3>3. \A u \in Threads : ~(call[u].at = "remove" /\ call[u].fd = j + PLUSXPN)
        BY <1>2, <1>4, <3>2, InTheMiddle DEF Changing
      <3>4. j \in Slots /\ EntrySet(j) /\ xpn[j] # None
        BY <1>2, <3>1, <3>3 DEF TableInv, EntriesOk
      <3> QED
        BY <1>7, <1>8, <3>1, <3>4
    <2> QED
      BY <1>8, <2>1 DEF EntriesOk
  <1>14. TableInv'
    BY <1>2, <1>3, <1>5, <1>10, <1>11, <1>12, <1>13, TurnKeeps
  <1> QED
    BY <1>1, <1>2, <1>5, <1>7, <1>11, <1>12, <1>14, TurnKeepsOffsets DEF Step

\* closedir starts the API again if need be, and leaves the directory in place.
LEMMA closedirKeeps == ASSUME BypassInv, NEW t \in Threads, NEW o \in Ids, closedir(t, o) PROVE BypassInv'
  <1>1. Step /\ ("misplaced" \in flags' => "misplaced" \in flags)
        /\ ("wild" \in flags' \/ Mixed(t) \subseteq flags')
    BY DEF closedir, Enters, Step, Kept, Mixed, init
  <1> SUFFICES ASSUME Regular' PROVE TableInv' /\ OffsetInv'
    BY <1>1, StepKeeps
  <1>2. Regular /\ TableInv /\ OffsetInv
    BY <1>1, FlagsKept DEF Step, BypassInv
  <1>3. /\ held[o] # NoFd /\ dirfd[o] # NoFd /\ call[t] = Idle /\ \A u \in Threads : call[u].id # o
    BY DEF closedir, Enters
  <1>4. InPlace(o)
    BY <1>2, <1>3 DEF Busy, TableInv, FilesOk
  <1>5. /\ Kept
        /\ call' = [call EXCEPT ![t] = [Idle EXCEPT !.at = "dirremove", !.id = o]]
        /\ UNCHANGED <<fdsFree, dirsFree, dirfd, xpn, links, pos, held>>
    <2>1. "wild" \notin flags'
      BY DEF Regular
    <2> QED
      BY <2>1 DEF closedir, api, Kept
  <1>6. Grows
    BY <1>2, <1>5, KeepInitGrows
  <1>7. \A u \in Threads : call[u].at \notin Changing
    <2>1. Mixed(t) = {}
      BY <1>1 DEF Mixed, Regular
    <2> QED
      BY <1>2, <1>3, <2>1, OthersChangeNothing, IdleIs
  <1>8. /\ call' = [u \in Threads |-> call'[u]]
        /\ call'[t] = [at |-> "dirremove", id |-> o, fd |-> NoFd, slot |-> 0]
        /\ \A u \in Threads \ {t} : call'[u] = call[u]
    BY <1>2, <1>5 DEF TableInv, TableType, Idle
  <1>9. IsCall(call'[t]) /\ call'[t].at \in Changing /\ call'[t].id = o
    BY <1>8 DEF IsCall, Ats, Changing
  <1>10. TableType'
    <2>1. \A u \in Threads : IsCall(call'[u])
      BY <1>2, <1>8, <1>9 DEF TableInv, TableType
    <2>2. /\ dirsFree' \in Nat /\ held' \in [Ids -> Int] /\ dirfd' \in [Ids -> Int]
          /\ xpn' \in [Slots -> Ids \cup {None}] /\ links' \in [Ids -> Int]
      BY <1>2, <1>5 DEF TableInv, TableType
    <2>3. pos' = [x \in Ids |-> pos'[x]]
      BY <1>2, <1>5 DEF TableInv, TableType
    <2> QED
      BY <1>6, <1>8, <2>1, <2>2, <2>3 DEF TableType, Grows
  <1>11. \A p \in Ids : InPlace(p) => InPlace(p)'
    BY <1>2, <1>5, <1>6, GrowsKeepsPlaces
  <1>12. Rest(t, o)
    BY <1>3, <1>5, <1>6, <1>7, <1>8, <1>11 DEF Rest, Grows
  <1>13. Own(t, o)
    <2>1. OpeningOk(call[t])'
      BY <1>8 DEF OpeningOk, Opening
    <2>2. ClosingOk(call[t])'
      BY <1>3, <1>4, <1>5, <1>8, <1>11 DEF ClosingOk
    <2>3. \A i \in Slots : xpn[i] = o => /\ links[o] = 1 /\ running' = TRUE
                                         /\ \A j \in Slots : xpn[j] = o => j = i
      BY <1>2, <1>6, SlotsAre DEF TableInv, FilesOk, Grows
    <2> QED
      BY <1>5, <1>9, <2>1, <2>2, <2>3, IdleIs DEF Own
  <1>14. EntriesOk'
    <2>1. Len(fds) \in Nat /\ Len(fds') \in Nat /\ Len(fds) <= Len(fds') /\ \A k \in 1..Len(fds) : fds'[k] = fds[k]
      BY <1>2, <1>6 DEF Grows, TableInv, TableType
    <2>2. ASSUME NEW j \in 0..(Len(fds') - 1), fds'[j + 1] # FREE PROVE j \in Slots /\ EntrySet(j)' /\ xpn'[j] # None
      <3>1. j \in 0..(Len(fds) - 1) /\ fds[j + 1] # FREE
        <4>1. j < Len(fds) /\ fds[j + 1] = fds'[j + 1]
          BY <1>2, <1>6, <2>2, GrowsKeepsEntries
        <4> QED
          BY <2>1, <2>2, <4>1
      <3>2. j \in Slots /\ EntrySet(j) /\ xpn[j] # None
        BY <1>2, <1>7, <3>1 DEF TableInv, EntriesOk, Changing
      <3>3. EntrySet(j)'
        BY <1>2, <1>6, <3>2, GrowsKeepsEntries, SlotsAre
      <3> QED
        BY <1>5, <3>2, <3>3
    <2>3. fdsFree \in 0..Len(fds) /\ \A j \in 0..(fdsFree - 1) : fds[j + 1] # FREE
      BY <1>2 DEF TableInv, EntriesOk
    <2>4. fdsFree' \in 0..Len(fds') /\ \A j \in 0..(fdsFree' - 1) : fds'[j + 1] # FREE
      BY <1>5, <2>1, <2>3
    <2> QED
      BY <2>2, <2>4 DEF EntriesOk
  <1>15. TableInv'
    BY <1>2, <1>7, <1>10, <1>12, <1>13, <1>14, TurnKeeps
  <1> QED
    BY <1>1, <1>2, <1>5, <1>12, <1>13, <1>15, TurnKeepsOffsets DEF Step

\* fdsdirtable_remove takes back the DIR and the number; what is left in dir->fd is the
\* entry of the API's table.
LEMMA fdsdirtable_removeKeeps == ASSUME BypassInv, NEW t \in Threads, fdsdirtable_remove(t) PROVE BypassInv'
  <1>1. Step /\ flags' = flags
    BY DEF fdsdirtable_remove, Step, init
  <1> SUFFICES ASSUME Regular' PROVE TableInv' /\ OffsetInv'
    BY <1>1, StepKeeps
  <1>2. Regular /\ TableInv /\ OffsetInv
    BY <1>1, FlagsKept DEF Step, BypassInv
  <1>3. PICK o, m : o = call[t].id /\ m = MinOf(fdsdirtable_get(o))
    OBVIOUS
  <1>4. call[t].at = "dirremove" /\ call[t].at \in Changing /\ ClosingOk(call[t])
    BY <1>2 DEF fdsdirtable_remove, TableInv, Changing
  <1>5. o \in Ids /\ InPlace(o) /\ dirfd[o] # NoFd
    BY <1>3, <1>4 DEF ClosingOk
  <1>6. PICK i \in Slots : /\ xpn[i] = o /\ held[o] = i + PLUSXPN /\ EntrySet(i)
                           /\ dirfd[o] = i + PLUSXPN /\ fdsdirtable_get(o) # {}
    BY <1>5 DEF InPlace
  <1>7. /\ fdstable_remove(i + PLUSXPN) /\ dirfd' = [dirfd EXCEPT ![o] = RestoredFd(@)]
        /\ dirs' = [dirs EXCEPT ![m + 1] = None] /\ dirsFree' = (IF m < dirsFree THEN m ELSE dirsFree)
        /\ call' = [call EXCEPT ![t].at = "closedir"]
        /\ UNCHANGED <<running, xpn, links, pos, held>>
    BY <1>3, <1>6 DEF fdsdirtable_remove, api
  <1>8. /\ fds' \in Seq(Entries) /\ Len(fds') = Len(fds) /\ Len(fds) \in Nat /\ fds'[i + 1] = FREE
        /\ \A k \in 1..Len(fds) : k # i + 1 => fds'[k] = fds[k]
        /\ fdsFree' \in 0..Len(fds') /\ \A j \in 0..(fdsFree' - 1) : fds'[j + 1] # FREE
        /\ EntryFree(i)'
        /\ \A j \in Nat : j # i /\ EntrySet(j) => EntrySet(j)'
    BY <1>2, <1>6, <1>7, RemoveIs DEF EntrySet
  <1>9. /\ dirs \in Seq(Ids \cup {None}) /\ m \in 0..(Len(dirs) - 1) /\ m \in Nat /\ dirs[m + 1] = o
    <2>1. dirs \in Seq(Ids \cup {None})
      BY <1>2 DEF TableInv, TableType
    <2>2. fdsdirtable_get(o) \subseteq Nat
      BY <2>1 DEF fdsdirtable_get
    <2>3. m \in fdsdirtable_get(o)
      BY <1>3, <1>6, <2>2, MinOfIs
    <2> QED
      BY <2>1, <2>2, <2>3 DEF fdsdirtable_get
  <1>10. /\ dirs' \in Seq(Ids \cup {None}) /\ Len(dirs') = Len(dirs)
         /\ \A k \in 1..Len(dirs) : k # m + 1 => dirs'[k] = dirs[k]
    BY <1>7, <1>9
  <1>11. \A p \in Ids \ {o} : fdsdirtable_get(p) # {} => fdsdirtable_get(p)' # {}
    <2>1. ASSUME NEW p \in Ids \ {o}, fdsdirtable_get(p) # {} PROVE fdsdirtable_get(p)' # {}
      <3>1. \A k \in 1..Len(dirs) : dirs[k] = p => dirs'[k] = p
        BY <1>9, <1>10
      <3>2. Len(dirs) <= Len(dirs')
        BY <1>9, <1>10
      <3> QED
        BY <1>9, <1>10, <2>1, <3>1, <3>2, StillListed
    <2> QED
      BY <2>1
  <1>12. dirfd' \in [Ids -> Int] /\ dirfd'[o] = i /\ \A p \in Ids : p # o => dirfd'[p] = dirfd[p]
    <2>1. i \in Nat /\ PLUSXPN \in Nat /\ RestoredFd(i + PLUSXPN) = i
      BY SlotsAre DEF RestoredFd
    <2>2. dirfd \in [Ids -> Int] /\ dirfd' = [dirfd EXCEPT ![o] = i]
      <3>1. RestoredFd(dirfd[o]) = i
        BY <1>6, <2>1
      <3> QED
        BY <1>2, <1>7, <3>1 DEF TableInv, TableType
    <2> QED
      BY <1>5, <2>1, <2>2
  <1>13. /\ call' = [u \in Threads |-> call'[u]]
         /\ call'[t] = [at |-> "closedir", id |-> o, fd |-> call[t].fd, slot |-> call[t].slot]
         /\ \A u \in Threads \ {t} : call'[u] = call[u]
    <2>1. call = [u \in Threads |-> call[u]] /\ IsCall(call[t])
      BY <1>2 DEF TableInv, TableType
    <2> QED
      BY <1>3, <1>7, <2>1 DEF IsCall
  <1>14. IsCall(call'[t]) /\ call'[t].at \in Changing /\ call'[t].id = o
    BY <1>5, <1>13 DEF IsCall, Ats, Changing
  <1>15. TableType'
    <2>1. \A u \in Threads : IsCall(call'[u])
      BY <1>2, <1>13, <1>14 DEF TableInv, TableType
    <2>2. dirsFree' \in Nat
      BY <1>2, <1>7, <1>9 DEF TableInv, TableType
    <2>3. /\ xpn' \in [Slots -> Ids \cup {None}] /\ links' \in [Ids -> Int] /\ held' \in [Ids -> Int]
      BY <1>2, <1>7 DEF TableInv, TableType
    <2>4. pos' = [x \in Ids |-> pos'[x]]
      BY <1>2, <1>7 DEF TableInv, TableType
    <2> QED
      BY <1>8, <1>10, <1>12, <1>13, <2>1, <2>2, <2>3, <2>4 DEF TableType
  <1>16. Rest(t, o)
    <2>1. ASSUME NEW p \in Ids \ {o}, InPlace(p) PROVE InPlace(p)'
      <3>1. \A j \in Slots : xpn[j] = p => xpn'[j] = p /\ (EntrySet(j) => EntrySet(j)')
        BY <1>6, <1>7, <1>8, SlotsAre
      <3> QED
        BY <1>7, <1>11, <1>12, <2>1, <3>1, PlaceKept
    <2> QED
      BY <1>2, <1>3, <1>4, <1>7, <1>13, <2>1, InTheMiddle DEF Rest, BypassInv
  <1>17. Own(t, o)
    <2>1. OpeningOk(call[t])'
      BY <1>13 DEF OpeningOk, Opening
    <2>2. ClosingOk(call[t])'
      BY <1>5, <1>6, <1>7, <1>8, <1>12, <1>13 DEF ClosingOk
    <2>3. \A j \in Slots : xpn[j] = o => /\ links[o] = 1 /\ running = TRUE
                                         /\ \A k \in Slots : xpn[k] = o => k = j
      BY <1>2, <1>5, SlotsAre DEF TableInv, FilesOk
    <2> QED
      BY <1>7, <1>14, <2>1, <2>2, <2>3, IdleIs DEF Own
  <1>18. EntriesOk'
    <2>1. ASSUME NEW j \in 0..(Len(fds') - 1), fds'[j + 1] # FREE PROVE j \in Slots /\ EntrySet(j)' /\ xpn'[j] # None
      <3>1. j # i /\ j \in 0..(Len(fds) - 1) /\ fds[j + 1] # FREE /\ i \in Nat
        BY <1>8, <2>1, SlotsAre
      <3>2. j \in Slots /\ EntrySet(j) /\ xpn[j] # None
        BY <1>2, <1>4, <3>1, InTheMiddle DEF TableInv, EntriesOk
      <3> QED
        BY <1>7, <1>8, <3>1, <3>2
    <2> QED
      BY <1>8, <2>1 DEF EntriesOk
  <1>19. TableInv'
    BY <1>2, <1>3, <1>5, <1>15, <1>16, <1>17, <1>18, TurnKeeps
  <1> QED
    BY <1>1, <1>2, <1>5, <1>7, <1>16, <1>17, <1>19, TurnKeepsOffsets DEF Step

\* xpn_closedir closes the directory, whose number it was left.
LEMMA xpn_closedirKeeps == ASSUME BypassInv, NEW t \in Threads, xpn_closedir(t) PROVE BypassInv'
  <1>1. Step /\ ("misplaced" \in flags' => "misplaced" \in flags)
    BY DEF xpn_closedir, Wild, Step, init
  <1> SUFFICES ASSUME Regular' PROVE TableInv' /\ OffsetInv'
    BY <1>1, StepKeeps
  <1>2. Regular /\ TableInv /\ OffsetInv
    BY <1>1, FlagsKept DEF Step, BypassInv
  <1>3. PICK o : o = call[t].id
    OBVIOUS
  <1>4. call[t].at = "closedir" /\ call[t].at \in Changing /\ ClosingOk(call[t])
    BY <1>2 DEF xpn_closedir, TableInv, Changing
  <1>5. o \in Ids
    BY <1>3, <1>4 DEF ClosingOk
  <1>6. PICK i \in Slots : held[o] = i + PLUSXPN /\ dirfd[o] = i /\ xpn[i] = o /\ EntryFree(i)
    BY <1>3, <1>4 DEF ClosingOk
  <1>7. /\ XpnClose(i) /\ dirfd' = [dirfd EXCEPT ![o] = NoFd] /\ held' = [held EXCEPT ![o] = NoFd]
        /\ call' = [call EXCEPT ![t] = Idle]
        /\ UNCHANGED <<running, fds, fdsFree, dirs, dirsFree>>
    BY <1>3, <1>6 DEF xpn_closedir, tables
  <1>8. /\ xpn' \in [Slots -> Ids \cup {None}] /\ xpn'[i] = None
        /\ \A j \in Slots : xpn'[j] # o /\ (j # i => xpn'[j] = xpn[j])
        /\ links' \in [Ids -> Int] /\ \A p \in Ids : p # o => links'[p] = links[p]
        /\ pos' = [x \in Ids |-> pos'[x]] /\ \A x \in Ids : x # o => pos'[x] = pos[x]
    BY <1>2, <1>5, <1>6, <1>7, XpnCloseIs
  <1>9. /\ call' = [u \in Threads |-> call'[u]] /\ call'[t] = Idle
        /\ \A u \in Threads \ {t} : call'[u] = call[u]
        /\ held' \in [Ids -> Int] /\ held'[o] = NoFd /\ \A p \in Ids : p # o => held'[p] = held[p]
        /\ dirfd' \in [Ids -> Int] /\ \A p \in Ids : p # o => dirfd'[p] = dirfd[p]
    BY <1>2, <1>5, <1>7 DEF TableInv, TableType, NoFd
  <1>10. TableType'
    <2>1. \A u \in Threads : IsCall(call'[u])
      BY <1>2, <1>9, IdleIs DEF TableInv, TableType
    <2>2. fds' \in Seq(Entries) /\ dirs' \in Seq(Ids \cup {None}) /\ dirsFree' \in Nat
      BY <1>2, <1>7 DEF TableInv, TableType
    <2> QED
      BY <1>8, <1>9, <2>1, <2>2 DEF TableType
  <1>11. Rest(t, o)
    <2>1. ASSUME NEW p \in Ids \ {o}, InPlace(p) PROVE InPlace(p)'
      <3>1. \A j \in Slots : xpn[j] = p => xpn'[j] = p /\ (EntrySet(j) => EntrySet(j)')
        BY <1>6, <1>7, <1>8 DEF EntrySet
      <3> QED
        BY <1>7, <1>9, <2>1, <3>1, PlaceKept DEF fdsdirtable_get
    <2>2. \A j \in Slots : xpn'[j] # None /\ xpn'[j] # o => xpn'[j] = xpn[j] /\ links'[xpn[j]] = links[xpn[j]]
      BY <1>2, <1>8 DEF TableInv, TableType
    <2> QED
      BY <1>2, <1>3, <1>4, <1>7, <1>9, <2>1, <2>2, InTheMiddle DEF Rest, BypassInv
  <1>12. Own(t, o)
    <2>1. OpeningOk(call[t])' /\ ClosingOk(call[t])'
      BY <1>9, IdleIs DEF OpeningOk, ClosingOk, Changing
    <2> QED
      BY <1>8, <1>9, <2>1, IdleIs DEF Own
  <1>13. EntriesOk'
    <2>1. ASSUME NEW j \in 0..(Len(fds) - 1), fds[j + 1] # FREE PROVE j \in Slots /\ EntrySet(j) /\ xpn'[j] # None
      <3>1. j \in Slots /\ EntrySet(j) /\ xpn[j] # None
        BY <1>2, <1>4, <2>1, InTheMiddle DEF TableInv, EntriesOk
      <3>2. j # i
        BY <1>6, <2>1, <3>1 DEF EntryFree, EntrySet
      <3> QED
        BY <1>8, <3>1, <3>2
    <2>2. fdsFree \in 0..Len(fds) /\ \A j \in 0..(fdsFree - 1) : fds[j + 1] # FREE
      BY <1>2 DEF TableInv, EntriesOk
    <2> QED
      BY <1>7, <2>1, <2>2 DEF EntriesOk, EntrySet
  <1>14. TableInv'
    BY <1>2, <1>3, <1>5, <1>10, <1>11, <1>12, <1>13, TurnKeeps
  <1> QED
    BY <1>1, <1>2, <1>5, <1>8, <1>11, <1>12, <1>14, TurnKeepsOffsets DEF Step

-----------------------------------------------------------------------------
(* Every step, and what follows *)

\* A call that opens: it does, or the API refuses.
LEMMA OpenWithKeeps ==
    ASSUME BypassInv, NEW t \in Threads, NEW next \in {"search", "dirput"}, NEW truncate \in BOOLEAN,
           OpenWith(t, next, truncate),
           Kept \/ (running = TRUE /\ UNCHANGED <<init, running, fds, dirs>>)
    PROVE  BypassInv'
  <1>1. CASE running' /\ Opened(t, MinOf(FreeIds), next, truncate)
    BY <1>1, OpenedKeeps DEF OpenWith
  <1>2. CASE NotOpened
    <2>1. Quiet
      BY <1>2 DEF OpenWith, NotOpened, Enters, Quiet, Step, Kept, Api, init, api
    <2> QED
      BY <2>1, QuietKeeps
  <1> QED
    BY <1>1, <1>2 DEF OpenWith

LEMMA mkstempKeeps == ASSUME BypassInv, NEW t \in Threads, mkstemp(t) PROVE BypassInv'
  <1>1. CASE running
    BY <1>1, OpenWithKeeps DEF mkstemp, BypassInv
  <1>2. CASE ~running
    <2>1. Quiet
      BY <1>2 DEF mkstemp, Enters, Quiet, Step, Kept, Api, init, api
    <2> QED
      BY <2>1, QuietKeeps
  <1> QED
    BY <1>1, <1>2

LEMMA fopenKeeps == ASSUME BypassInv, NEW t \in Threads, fopen(t) PROVE BypassInv'
  <1>1. CASE running' /\ \E truncate \in BOOLEAN : Opened(t, MinOf(FreeIds), "search", truncate)
    BY <1>1, OpenedKeeps DEF fopen, Kept
  <1>2. CASE flags' = flags \cup {"wild"} \/ NotOpened
    <2>1. CASE flags' = flags \cup {"wild"}
      <3>1. Step /\ ~Regular'
        BY <2>1 DEF fopen, Enters, Step, Kept, Regular
      <3> QED
        BY <3>1, StepKeeps
    <2>2. CASE NotOpened
      <3>1. Quiet
        BY <2>2 DEF fopen, NotOpened, Enters, Quiet, Step, Kept, Api, api
      <3> QED
        BY <3>1, QuietKeeps
    <2> QED
      BY <1>2, <2>1, <2>2
  <1> QED
    BY <1>1, <1>2 DEF fopen

LEMMA OpensKeep == ASSUME BypassInv, NEW t \in Threads, Opens(t) PROVE BypassInv'
  <1>1. CASE open(t) \/ open64(t) \/ open_2(t)
    BY <1>1, OpenWithKeeps DEF open, open64, open_2, Kept
  <1>2. CASE creat(t) \/ opendir(t)
    BY <1>2, OpenWithKeeps DEF creat, opendir, Kept
  <1> QED
    BY <1>1, <1>2, mkstempKeeps, fopenKeeps DEF Opens

LEMMA StepsKeep == ASSUME BypassInv, NEW t \in Threads, Steps(t) PROVE BypassInv'
  BY fdsdirtable_putKeeps, fdstable_searchKeeps, fdstable_putKeeps, RemovedKeeps,
     fdsdirtable_removeKeeps, xpn_closedirKeeps, GoOnKeeps DEF Steps

LEMMA FileCallsKeep == ASSUME BypassInv, NEW t \in Threads, NEW o \in Ids, FileCalls(t, o) PROVE BypassInv'
  <1>1. CASE fdopen(t, o) \/ close(t, o) \/ fclose(t, o) \/ closedir(t, o)
    BY <1>1, fdopenKeeps, CloseKeeps, closedirKeeps DEF close, fclose
  <1>2. CASE read(t, o) \/ fread(t, o)
    BY <1>2, readKeeps
  <1>3. CASE write(t, o) \/ fwrite(t, o)
    BY <1>3, writeKeeps
  <1>4. CASE \/ rewind(t, o) \/ ftell(t, o) \/ feof(t, o)
             \/ \E off \in 0..MaxSize : lseek(t, o, off) \/ lseek64(t, o, off) \/ fseek(t, o, off)
    BY <1>4, SeeksKeep
  <1>5. CASE \/ ftruncate(t, o) \/ fstat(t, o) \/ fxstat(t, o) \/ fxstat64(t, o) \/ fchmod(t, o)
             \/ readdir(t, o) \/ readdir64(t, o) \/ fcntl(t, o) \/ fsync(t, o) \/ flock(t, o)
    BY <1>5, AsksKeeps DEF ftruncate, fstat, fxstat, fxstat64, fchmod, readdir, readdir64, fcntl, fsync, flock
  <1>6. CASE \E off \in 0..MaxSize :
               pread(t, o, off) \/ pread64(t, o, off) \/ pwrite(t, o, off) \/ pwrite64(t, o, off)
    BY <1>6, SetOffsetKeeps DEF pread, pread64, pwrite, pwrite64
  <1>7. CASE dup(t, o) \/ dup2_over(t, o) \/ \E fd2 \in Slots : dup2(t, o, fd2)
    BY <1>7, DupKeeps DEF dup, dup2
  <1> QED
    BY <1>1, <1>2, <1>3, <1>4, <1>5, <1>6, <1>7 DEF FileCalls

LEMMA ProcessCallsKeep == ASSUME BypassInv, NEW t \in Threads, ProcessCalls(t) PROVE BypassInv'
  BY forkKeeps, ExecKeeps, EndsKeep DEF ProcessCalls

LEMMA StutterKeeps == ASSUME BypassInv, UNCHANGED vars PROVE BypassInv'
  <1>1. CASE Alive
    <2>1. Quiet
      BY <1>1 DEF vars, init, tables, api, Quiet, Step
    <2> QED
      BY <2>1, QuietKeeps
  <1>2. CASE ~Alive
    <2>1. ~Regular' /\ ~Alive'
      BY <1>2 DEF vars, Alive, Regular
    <2>2. flags' = flags /\ called' = called /\ env' = env /\ asked' = asked /\ running' = running
          /\ stage' = stage
      BY DEF vars, init
    <2> QED
      BY <2>1, <2>2 DEF BypassInv, ApiInv
  <1> QED
    BY <1>1, <1>2

LEMMA NextBypassInv == BypassInv /\ [Next]_vars => BypassInv'
  <1> SUFFICES ASSUME BypassInv, [Next]_vars PROVE BypassInv'
    OBVIOUS
  <1>1. ASSUME NEW t \in Threads,
               \/ Start(t) \/ Opens(t) \/ Steps(t) \/ PathCalls(t) \/ SystemCalls(t) \/ ProcessCalls(t)
               \/ \E o \in Ids : FileCalls(t, o)
        PROVE  BypassInv'
    BY <1>1, StartKeeps, OpensKeep, StepsKeep, PathCallsKeep, SystemCallsKeep, ProcessCallsKeep, FileCallsKeep
  <1> QED
    BY <1>1, StutterKeeps DEF Next

\* The invariant: while the program keeps to what the library can do, what it opened has
\* the same number in fdstable and in the API's table, at most one thread is between the
\* steps of fdstable_put, fdstable_remove and their callers, and xpn_adaptor_initCalled is
\* set only when xpn_init succeeded or a thread is on its way to xpn_init.
THEOREM AlwaysBypassInv == Spec => []BypassInv
  BY InitBypassInv, NextBypassInv, PTL DEF Spec

LEMMA InvRoutes == BypassInv => RoutesToOwnFile
  <1> SUFFICES ASSUME BypassInv, Regular, NEW o \in Ids, held[o] # NoFd, ~InCall(o)
               PROVE  /\ Behind(held[o]) = o
                      /\ dirfd[o] # NoFd => dirfd[o] = held[o] /\ fdsdirtable_get(o) # {}
    BY DEF RoutesToOwnFile
  <1>1. TableInv /\ InPlace(o)
    BY DEF BypassInv, TableInv, FilesOk, InCall, Busy
  <1>2. Behind(held[o]) = o
    BY <1>1, BehindIs
  <1> QED
    BY <1>1, <1>2 DEF InPlace

LEMMA InvLeavesNothing == BypassInv => NothingLeftOpen
  <1> SUFFICES ASSUME BypassInv, Regular, \A t \in Threads : call[t] = Idle, NEW i \in Slots, xpn[i] # None
               PROVE  held[xpn[i]] = i + PLUSXPN
    BY DEF NothingLeftOpen
  <1>1. TableInv /\ ~Busy(xpn[i])
    BY IdleIs DEF BypassInv, Busy
  <1>2. PICK j \in Slots : xpn[j] = xpn[i] /\ held[xpn[i]] = j + PLUSXPN
    BY <1>1 DEF TableInv, FilesOk, InPlace
  <1> QED
    BY <1>1, <1>2 DEF TableInv, FilesOk

\* Routing (open, close, fopen, fclose, opendir, closedir, fork and every call on a
\* descriptor): the number the program holds leads through fdstable_get to the file it
\* opened, however the tables grow and whichever numbers were given back in between.
THEOREM BypassRoutesToOwnFile == Spec => []RoutesToOwnFile
  BY AlwaysBypassInv, InvRoutes, PTL

\* Closing: when no thread is in a call, each entry the API has in use is one the program
\* holds under the same number, so close and closedir closed what they were asked to, and
\* the number fdsdirtable_remove leaves in dir->fd was the right one.
THEOREM BypassNothingLeftOpen == Spec => []NothingLeftOpen
  BY AlwaysBypassInv, InvLeavesNothing, PTL

\* Positioned calls: pread and pwrite, which the library makes of lseek, read or write, and
\* lseek, move the bytes at their offset unless another call moved the offset in between.
THEOREM BypassPositionedAtOffset == Spec => []PositionedAtOffset
  <1>1. BypassInv => PositionedAtOffset
    BY DEF BypassInv, OffsetInv, PositionedAtOffset
  <1> QED
    BY <1>1, AlwaysBypassInv, PTL

\* Starting: xpn_adaptor_keepInit starts the API before any call of it, but for mkstemp,
\* what follows MPI_Finalize, a program that inherits INITCALLED, and a thread that
\* overtakes another between the mark and xpn_init.
THEOREM BypassApiStartedBeforeUse == Spec => []ApiStartedBeforeUse
  <1>1. BypassInv => ApiStartedBeforeUse
    BY DEF BypassInv, ApiInv, ApiStartedBeforeUse
  <1> QED
    BY <1>1, AlwaysBypassInv, PTL

=============================================================================
