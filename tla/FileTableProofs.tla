--------------------------- MODULE FileTableProofs ---------------------------
(***************************************************************************)
(* Proofs about the descriptors of a client process, for any size of the   *)
(* table, any servers and any number of opens, duplicates and servers in   *)
(* error: descriptors and open files belong together, and nothing that was *)
(* freed or never filled in is used by a process that keeps to the rules.  *)
(***************************************************************************)
EXTENDS FileTable, FiniteSetTheorems, NaturalsInduction, WellFoundedInduction, TLAPS

FileTableType ==
    /\ xpn_initialize \in BOOLEAN /\ broken \in BOOLEAN
    /\ table \in [Slots -> Structs \cup {NULL}] /\ held \in [Slots -> Structs \cup {NULL}]
    /\ links \in [Structs -> Int] /\ nfih \in [Structs -> [Servers -> Handles]]
    /\ opens \in 0..MaxOpens /\ dups \in Nat
    /\ live \subseteq 1..opens /\ dirs \subseteq 1..opens
    /\ local \subseteq Servers /\ error \subseteq Servers
    /\ opened \subseteq Structs \X Servers
    /\ streams \subseteq Structs \X Servers \X {"session", "end", "lost"}

\* The descriptors the program has for struct o.
Holders(o) == {fd \in Slots : held[fd] = o}

\* The table was never asked for a descriptor it had not, nor freed memory used.
Orderly == "full" \notin fault /\ broken = FALSE

\* Descriptors point to their struct, whose links count them.
LinksInv ==
    Orderly =>
      /\ \A fd \in Slots : held[fd] # NULL => table[fd] = held[fd] /\ held[fd] \in live
      /\ \A o \in live : links[o] = Cardinality(Holders(o)) /\ Holders(o) # {}
      /\ xpn_initialize = FALSE => \A fd \in Slots : held[fd] = NULL

\* What is open is what a struct has a handle of.
OpenedInv ==
    Orderly /\ "failed" \notin fault =>
      /\ xpn_initialize = TRUE =>
           /\ \A o \in live, s \in Servers \ error : <<o, s>> \in opened <=> nfih[o][s] = "open"
           /\ \A p \in opened : p[2] \notin error => p[1] \in live
      /\ \A x \in streams : x[3] = "session" => x[1] \in live /\ x[2] \in local
      /\ \A o \in live, s \in local :
           <<o, s, "session">> \in streams <=>
             nfih[o][s] = "open" /\ IF o \in dirs THEN XPN_SESSION_DIR = TRUE ELSE XPN_SESSION_FILE = TRUE

\* Handles nobody filled in belong to structs that were made while a server was in
\* error, and without dup the entries of the table are the descriptors in use.
MemoryInv ==
    Orderly =>
      /\ \A o \in Structs : HasRawHandle(o) => o \in live /\ error # {}
      /\ dups = 0 => /\ \A fd \in Slots : table[fd] = held[fd]
                     /\ \A o \in live : links[o] = 1

FileTableInv == FileTableType /\ LinksInv /\ OpenedInv /\ MemoryInv /\ NoUseAfterFree

-----------------------------------------------------------------------------
(* The table and the descriptors *)

\* The search for a free entry ends inside the table.
LEMMA FreeSlotInTable == FreeSlot \in Slots
  <1> DEFINE free == {i \in Slots : i = XPN_MAX_FILE - 1 \/ table[i] = NULL}
  <1>1. free \subseteq Nat /\ XPN_MAX_FILE - 1 \in free
    BY FileTableAssumption DEF Slots
  <1> HIDE DEF free
  <1> DEFINE Less == {ss \in Nat \X Nat : ss[1] < ss[2]}
  <1>2. IsWellFoundedOn(Less, Nat)
    BY NatLessThanWellFounded, Zenon DEF OpToRel
  <1>3. \E i \in free : \A j \in free : i <= j
    <2> HIDE DEF Less
    <2>1. PICK i \in free : \A j \in free : ~(<<j, i>> \in Less)
      BY <1>1, <1>2, WFMin
    <2>2. ASSUME NEW j \in free PROVE i <= j
      <3>1. i \in Nat /\ j \in Nat /\ <<j, i>> \notin Less
        BY <1>1, <2>1
      <3>2. <<j, i>> \in Less <=> j < i
        BY <3>1 DEF Less
      <3> QED
        BY <3>1, <3>2
    <2> QED
      BY <2>2
  <1>4. FreeSlot = CHOOSE k \in free : \A j \in free : k <= j
    BY DEF FreeSlot, free
  <1>5. FreeSlot \in free
    BY <1>3, <1>4
  <1> QED
    BY <1>5 DEF free

LEMMA HoldersFinite == \A o : IsFiniteSet(Holders(o)) /\ Cardinality(Holders(o)) \in Nat
  <1>1. IsFiniteSet(Slots)
    BY FileTableAssumption, FS_Interval DEF Slots
  <1> QED
    BY <1>1, FS_Subset, FS_CardinalityType DEF Holders

\* One more descriptor for o in an entry that nobody held.
LEMMA HoldOne ==
    ASSUME NEW i \in Slots, NEW o \in Structs, held \in [Slots -> Structs \cup {NULL}],
           held[i] = NULL, held' = [held EXCEPT ![i] = o]
    PROVE  /\ Cardinality(Holders(o)') = Cardinality(Holders(o)) + 1 /\ Holders(o)' # {}
           /\ \A q \in Structs \ {o} : Holders(q)' = Holders(q)
  <1>0. o # NULL /\ NULL \notin Structs
    BY DEF Structs, NULL
  <1>1. Holders(o)' = Holders(o) \cup {i} /\ i \notin Holders(o)
    BY <1>0 DEF Holders
  <1>2. \A q \in Structs \ {o} : Holders(q)' = Holders(q)
    BY <1>0 DEF Holders
  <1> QED
    BY <1>1, <1>2, HoldersFinite, FS_AddElement

\* One descriptor less.
LEMMA DropOne ==
    ASSUME NEW i \in Slots, NEW o \in Structs, held \in [Slots -> Structs \cup {NULL}],
           held[i] = o, held' = [held EXCEPT ![i] = NULL]
    PROVE  /\ Cardinality(Holders(o)') = Cardinality(Holders(o)) - 1
           /\ Holders(o)' = {} <=> Cardinality(Holders(o)) = 1
           /\ \A q \in Structs \ {o} : Holders(q)' = Holders(q)
  <1>0. o # NULL /\ NULL \notin Structs
    BY DEF Structs, NULL
  <1>1. Holders(o)' = Holders(o) \ {i} /\ i \in Holders(o)
    BY <1>0 DEF Holders
  <1>2. \A q \in Structs \ {o} : Holders(q)' = Holders(q)
    BY <1>0 DEF Holders
  <1>3. Cardinality(Holders(o)') = Cardinality(Holders(o)) - 1 /\ IsFiniteSet(Holders(o)')
    BY <1>1, HoldersFinite, FS_RemoveElement, FS_Subset
  <1>4. Holders(o)' = {} <=> Cardinality(Holders(o)') = 0
    BY <1>3, FS_EmptySet
  <1> QED
    BY <1>2, <1>3, <1>4, HoldersFinite

LEMMA LiveStructs == ASSUME FileTableInv PROVE live \subseteq Structs /\ dirs \subseteq Structs
  BY FileTableAssumption DEF FileTableInv, FileTableType, Structs

LEMMA InitFileTableInv == Init => FileTableInv
  <1> SUFFICES ASSUME Init PROVE FileTableInv
    OBVIOUS
  <1> USE FileTableAssumption
  <1>1. FileTableType
    <2>1. error \subseteq Servers /\ local \subseteq Servers
      BY DEF Init, Errors
    <2>2. nfih \in [Structs -> [Servers -> Handles]]
      BY DEF Init, NoHandles, Handles
    <2>3. xpn_initialize \in BOOLEAN /\ broken \in BOOLEAN
      BY DEF Init
    <2> QED
      BY <2>1, <2>2, <2>3 DEF Init, FileTableType
  <1>2. LinksInv /\ OpenedInv
    BY DEF Init, LinksInv, OpenedInv
  <1>3. MemoryInv /\ NoUseAfterFree
    BY DEF Init, MemoryInv, NoUseAfterFree, HasRawHandle, NoHandles
  <1> QED
    BY <1>1, <1>2, <1>3 DEF FileTableInv

-----------------------------------------------------------------------------
(* The steps *)

\* xpn_internal_open and xpn_simple_opendir: the struct is new, and so is all it has.
LEMMA OpenKeeps ==
    ASSUME FileTableInv, NEW affected \in SUBSET Servers, NEW dir \in BOOLEAN, Open(affected, dir)
    PROVE  FileTableInv'
  <1> USE FileTableAssumption
  <1>0. PICK o \in Structs, i \in Slots : o = opens + 1 /\ i = FreeSlot
    <2>1. opens + 1 \in Structs
      BY DEF Open, FileTableInv, FileTableType, Structs
    <2> QED
      BY <2>1, FreeSlotInTable
  <1>1. /\ Running /\ o \in Structs /\ o \notin live /\ o \notin dirs /\ opens' = o /\ opens < MaxOpens
        /\ live' = live \cup {o} /\ links' = [links EXCEPT ![o] = 1]
        /\ nfih' = [nfih EXCEPT ![o] = [s \in Servers |-> IF s \notin affected THEN "null"
                                        ELSE IF s \in error THEN "raw" ELSE "open"]]
        /\ opened' = opened \cup ({o} \X (affected \ error))
        /\ dirs' = IF dir THEN dirs \cup {o} ELSE dirs
        /\ table' = [table EXCEPT ![i] = o] /\ held' = [held EXCEPT ![i] = o]
        /\ fault' = Overwrites(i)
        /\ UNCHANGED <<xpn_initialize, local, error, dups, broken>>
    BY <1>0 DEF Open, FileTableInv, FileTableType, Structs
  <1>2. i \in Slots
    OBVIOUS
  <1>3. streams' = streams \cup {x \in {o} \X (Servers \cap local) \X {"session"} :
                      x[2] \in affected \ error /\ IF dir THEN XPN_SESSION_DIR = TRUE ELSE XPN_SESSION_FILE = TRUE}
    BY <1>0 DEF Open, nfi_local_open, nfi_local_opendir
  <1>4. FileTableType'
    <2>1. nfih' \in [Structs -> [Servers -> Handles]]
      BY <1>1 DEF FileTableInv, FileTableType, Handles
    <2>2. opened' \subseteq Structs \X Servers
      BY <1>1 DEF FileTableInv, FileTableType
    <2>3. streams' \subseteq Structs \X Servers \X {"session", "end", "lost"}
      BY <1>1, <1>3 DEF FileTableInv, FileTableType
    <2>4. live' \subseteq 1..opens' /\ dirs' \subseteq 1..opens' /\ opens' \in 0..MaxOpens
      BY <1>0, <1>1 DEF FileTableInv, FileTableType
    <2>5. /\ table' \in [Slots -> Structs \cup {NULL}] /\ held' \in [Slots -> Structs \cup {NULL}]
          /\ links' \in [Structs -> Int]
      BY <1>1, <1>2 DEF FileTableInv, FileTableType
    <2> QED
      BY <1>1, <2>1, <2>2, <2>3, <2>4, <2>5 DEF FileTableInv, FileTableType
  <1>5. NoUseAfterFree'
    BY <1>1 DEF Running, FileTableInv, NoUseAfterFree
  <1>6. ASSUME Orderly'
        PROVE  LinksInv' /\ MemoryInv' /\ OpenedInv'
    <2>1. /\ Orderly /\ table[i] = NULL /\ fault' = fault /\ xpn_initialize = TRUE
          /\ held \in [Slots -> Structs \cup {NULL}] /\ live \subseteq Structs
      BY <1>1, <1>6 DEF Orderly, Overwrites, Running, FileTableInv, FileTableType, Structs
    <2>2. held[i] = NULL /\ Holders(o) = {}
      BY <1>1, <1>2, <2>1 DEF FileTableInv, LinksInv, Holders, Structs, NULL
    <2>3. /\ Cardinality(Holders(o)') = 1 /\ Holders(o)' # {}
          /\ \A q \in Structs \ {o} : Holders(q)' = Holders(q)
      <3>1. Cardinality(Holders(o)) = 0
        BY <2>2, FS_EmptySet
      <3>2. held' = [held EXCEPT ![i] = o]
        BY <1>1
      <3>3. /\ Cardinality(Holders(o)') = Cardinality(Holders(o)) + 1 /\ Holders(o)' # {}
            /\ \A q \in Structs \ {o} : Holders(q)' = Holders(q)
        BY ONLY <2>1, <2>2, <3>2, HoldOne
      <3> QED
        BY <3>1, <3>3
    <2>4. /\ \A fd \in Slots : fd # i => held'[fd] = held[fd] /\ table'[fd] = table[fd]
          /\ held'[i] = o /\ table'[i] = o
          /\ \A q \in Structs : q # o => links'[q] = links[q] /\ nfih'[q] = nfih[q]
          /\ links'[o] = 1
          /\ \A s \in Servers : nfih'[o][s] = IF s \notin affected THEN "null"
                                              ELSE IF s \in error THEN "raw" ELSE "open"
      BY <1>1, <1>2 DEF FileTableInv, FileTableType
    <2>5. LinksInv'
      BY <1>1, <2>1, <2>3, <2>4 DEF FileTableInv, LinksInv
    <2>6. MemoryInv'
      <3>1. ASSUME NEW q \in Structs, HasRawHandle(q)' PROVE q \in live' /\ error' # {}
        BY <1>1, <2>1, <2>4, <3>1 DEF FileTableInv, MemoryInv, HasRawHandle
      <3>2. dups' = 0 => /\ \A fd \in Slots : table'[fd] = held'[fd]
                         /\ \A q \in live' : links'[q] = 1
        BY <1>1, <2>1, <2>4 DEF FileTableInv, MemoryInv
      <3> QED
        BY <3>1, <3>2 DEF MemoryInv
    <2>7. OpenedInv'
      <3> SUFFICES ASSUME "failed" \notin fault PROVE OpenedInv'
        BY <2>1 DEF OpenedInv
      <3>1. ASSUME NEW q \in live', NEW s \in Servers \ error'
            PROVE  <<q, s>> \in opened' <=> nfih'[q][s] = "open"
        <4>1. CASE q = o
          <5>1. <<o, s>> \notin opened
            BY <1>1, <2>1, <3>1 DEF FileTableInv, OpenedInv
          <5> QED
            BY <1>1, <2>4, <3>1, <4>1, <5>1
        <4>2. CASE q # o
          BY <1>1, <2>1, <2>4, <3>1, <4>2 DEF FileTableInv, OpenedInv
        <4> QED
          BY <4>1, <4>2
      <3>2. \A p \in opened' : p[2] \notin error' => p[1] \in live'
        BY <1>1, <2>1 DEF FileTableInv, OpenedInv
      <3>3. \A x \in streams' : x[3] = "session" => x[1] \in live' /\ x[2] \in local'
        BY <1>1, <1>3, <2>1 DEF FileTableInv, OpenedInv
      <3>4. ASSUME NEW q \in live', NEW s \in local'
            PROVE  <<q, s, "session">> \in streams' <=>
                     nfih'[q][s] = "open" /\ IF q \in dirs' THEN XPN_SESSION_DIR = TRUE
                                                            ELSE XPN_SESSION_FILE = TRUE
        <4>0. s \in Servers
          BY <1>1 DEF FileTableInv, FileTableType
        <4>1. CASE q = o
          <5>1. <<o, s, "session">> \notin streams
            BY <1>1, <2>1 DEF FileTableInv, OpenedInv
          <5>2. <<o, s, "session">> \in streams' <=>
                  s \in affected \ error /\ IF dir THEN XPN_SESSION_DIR = TRUE ELSE XPN_SESSION_FILE = TRUE
            BY <1>1, <1>3, <4>0, <5>1
          <5>3. o \in dirs' <=> dir
            BY <1>1
          <5> QED
            BY <2>4, <4>0, <4>1, <5>2, <5>3
        <4>2. CASE q # o
          <5>1. q \in live /\ (q \in dirs' <=> q \in dirs) /\ nfih'[q] = nfih[q]
            BY <1>1, <2>1, <2>4, <4>2
          <5>2. <<q, s, "session">> \in streams' <=> <<q, s, "session">> \in streams
            BY <1>3, <4>2
          <5> QED
            BY <1>1, <2>1, <5>1, <5>2 DEF FileTableInv, OpenedInv
        <4> QED
          BY <4>1, <4>2
      <3> QED
        BY <3>1, <3>2, <3>3, <3>4 DEF OpenedInv
    <2> QED
      BY <2>5, <2>6, <2>7
  <1>7. CASE ~Orderly'
    BY <1>4, <1>5, <1>7 DEF FileTableInv, LinksInv, MemoryInv, OpenedInv
  <1> QED
    BY <1>4, <1>5, <1>6, <1>7 DEF FileTableInv

\* An open that fails uses up a struct, and leaves nothing open unless it says so.
LEMMA OpenFailsKeeps ==
    ASSUME FileTableInv, NEW done \in SUBSET Servers, OpenFails(done)
    PROVE  FileTableInv'
  <1> USE FileTableAssumption
  <1>1. /\ opens' = opens + 1 /\ opens' \in Structs
        /\ opened' = opened \cup ({opens'} \X (done \ error))
        /\ fault' = IF done \ error = {} THEN fault ELSE fault \cup {"failed"}
        /\ UNCHANGED <<xpn_initialize, table, links, nfih, live, dirs, local, error, dups, held, broken>>
    BY DEF OpenFails, FileTableInv, FileTableType, Structs
  <1>2. streams' = streams \cup nfi_local_open(opens', done \ error)
    BY DEF OpenFails
  <1>3. nfi_local_open(opens', done \ error) \subseteq Structs \X Servers \X {"session"}
    BY <1>1 DEF nfi_local_open, FileTableInv, FileTableType
  <1>4. done \ error = {} => opened' = opened /\ streams' = streams
    BY <1>1, <1>2 DEF nfi_local_open
  <1>5. FileTableType'
    <2>1. opened' \subseteq Structs \X Servers
      BY <1>1 DEF FileTableInv, FileTableType
    <2>2. streams' \subseteq Structs \X Servers \X {"session", "end", "lost"}
      BY <1>2, <1>3 DEF FileTableInv, FileTableType
    <2>3. opens' \in 0..MaxOpens /\ live' \subseteq 1..opens' /\ dirs' \subseteq 1..opens'
      BY <1>1 DEF FileTableInv, FileTableType, Structs
    <2> QED
      BY <1>1, <2>1, <2>2, <2>3 DEF FileTableInv, FileTableType
  <1>6. LinksInv' /\ MemoryInv' /\ NoUseAfterFree'
    <2>1. Orderly' <=> Orderly
      BY <1>1 DEF Orderly
    <2>2. \A o : Holders(o)' = Holders(o) /\ (HasRawHandle(o)' <=> HasRawHandle(o))
      BY <1>1 DEF Holders, HasRawHandle
    <2> QED
      BY <1>1, <2>1, <2>2 DEF FileTableInv, LinksInv, MemoryInv, NoUseAfterFree
  <1>7. OpenedInv'
    BY <1>1, <1>4 DEF FileTableInv, OpenedInv, Orderly
  <1> QED
    BY <1>5, <1>6, <1>7 DEF FileTableInv

\* XpnGetFh opens on one more server.
LEMMA GetFhKeeps ==
    ASSUME FileTableInv, NEW fd \in Slots, NEW s \in Servers, GetFh(fd, s)
    PROVE  FileTableInv'
  <1> USE FileTableAssumption
  <1>0. PICK o \in Structs \cup {NULL} : o = table[fd]
    BY DEF FileTableInv, FileTableType
  <1>1. /\ Running /\ held[fd] # NULL
        /\ UNCHANGED <<xpn_initialize, table, links, live, dirs, local, error, opens, dups, held, fault>>
    BY DEF GetFh
  <1>2. CASE o \notin live
    <2>1. broken' = TRUE /\ UNCHANGED <<nfih, opened, streams>>
      BY <1>0, <1>2 DEF GetFh
    <2>2. FileTableType'
      BY <1>1, <2>1 DEF FileTableInv, FileTableType
    <2>3. ~Orderly'
      BY <2>1 DEF Orderly
    <2>4. ~Orderly
      BY <1>0, <1>1, <1>2 DEF FileTableInv, LinksInv
    <2>5. NoUseAfterFree'
      BY <1>1, <2>1, <2>4 DEF NoUseAfterFree, Orderly, Running, FileTableInv, FileTableType
    <2> QED
      BY <2>2, <2>3, <2>5 DEF FileTableInv, LinksInv, OpenedInv, MemoryInv
  <1>3. CASE o \in live
    <2>1. /\ o \in Structs /\ nfih[o][s] = "null" /\ broken' = broken
          /\ nfih' = [nfih EXCEPT ![o][s] = IF s \in error THEN "zero" ELSE "open"]
          /\ opened' = IF s \in error THEN opened ELSE opened \cup {<<o, s>>}
      <3>1. o \in Structs
        BY <1>3, LiveStructs
      <3> QED
        BY <1>0, <1>3, <3>1 DEF GetFh
    <2>2. streams' = streams \cup {x \in {<<o, s, "session">>} :
                        /\ s \in local /\ s \notin error
                        /\ IF o \in dirs THEN XPN_SESSION_DIR = TRUE ELSE XPN_SESSION_FILE = TRUE}
      BY <1>0, <1>3 DEF GetFh, nfi_local_open, nfi_local_opendir
    <2>3. /\ nfih' \in [Structs -> [Servers -> Handles]]
          /\ nfih'[o][s] = IF s \in error THEN "zero" ELSE "open"
          /\ \A q \in Structs, r \in Servers : q # o \/ r # s => nfih'[q][r] = nfih[q][r]
      BY <2>1 DEF FileTableInv, FileTableType, Handles
    <2>4. FileTableType'
      BY <1>1, <2>1, <2>2, <2>3 DEF FileTableInv, FileTableType
    <2>5. Orderly' <=> Orderly
      BY <1>1, <2>1 DEF Orderly
    <2>6. LinksInv' /\ NoUseAfterFree'
      BY <1>1, <2>1, <2>5 DEF FileTableInv, LinksInv, NoUseAfterFree, Holders
    <2>7. MemoryInv'
      <3>1. ASSUME NEW q \in Structs, HasRawHandle(q)' PROVE HasRawHandle(q)
        BY <2>3, <3>1 DEF HasRawHandle
      <3> QED
        BY <1>1, <2>5, <3>1 DEF FileTableInv, MemoryInv
    <2>8. OpenedInv'
      <3> SUFFICES ASSUME Orderly, "failed" \notin fault PROVE OpenedInv'
        BY <1>1, <2>5 DEF OpenedInv
      <3>0. live \subseteq Structs /\ local \subseteq Servers /\ xpn_initialize = TRUE
        BY <1>1 DEF FileTableInv, FileTableType, Structs, Running
      <3>1. ASSUME NEW q \in live', NEW r \in Servers \ error'
            PROVE  <<q, r>> \in opened' <=> nfih'[q][r] = "open"
        BY <1>1, <2>1, <2>3, <3>0 DEF FileTableInv, OpenedInv
      <3>2. \A p \in opened' : p[2] \notin error' => p[1] \in live'
        BY <1>1, <1>3, <2>1, <3>0 DEF FileTableInv, OpenedInv
      <3>3. \A x \in streams' : x[3] = "session" => x[1] \in live' /\ x[2] \in local'
        BY <1>1, <1>3, <2>2, <3>0 DEF FileTableInv, OpenedInv
      <3>4. ASSUME NEW q \in live', NEW r \in local'
            PROVE  <<q, r, "session">> \in streams' <=>
                     nfih'[q][r] = "open" /\ IF q \in dirs' THEN XPN_SESSION_DIR = TRUE
                                                            ELSE XPN_SESSION_FILE = TRUE
        BY <1>1, <2>1, <2>2, <2>3, <3>0 DEF FileTableInv, OpenedInv
      <3> QED
        BY <3>1, <3>2, <3>3, <3>4 DEF OpenedInv
    <2> QED
      BY <2>4, <2>6, <2>7, <2>8 DEF FileTableInv
  <1> QED
    BY <1>2, <1>3

LEMMA ReaddirKeeps ==
    ASSUME FileTableInv, NEW fd \in Slots, NEW s \in Servers, nfi_local_readdir(fd, s)
    PROVE  FileTableInv'
  <1>1. /\ \E o \in live : streams' = streams \cup {<<o, s, "end">>}
        /\ UNCHANGED <<xpn_initialize, table, links, nfih, live, dirs, local, opened, error, opens,
                       dups, held, fault, broken>>
    BY DEF nfi_local_readdir
  <1>2. streams' \subseteq Structs \X Servers \X {"session", "end", "lost"}
    BY <1>1, LiveStructs DEF FileTableInv, FileTableType
  <1>3. FileTableType'
    BY <1>1, <1>2 DEF FileTableInv, FileTableType
  <1>4. LinksInv' /\ MemoryInv' /\ NoUseAfterFree'
    BY <1>1 DEF FileTableInv, LinksInv, MemoryInv, NoUseAfterFree, Orderly, Holders, HasRawHandle
  <1>5. OpenedInv'
    <2>1. \A x : x[3] = "session" => (x \in streams' <=> x \in streams)
      BY <1>1
    <2> QED
      BY <1>1, <2>1 DEF FileTableInv, OpenedInv, Orderly
  <1> QED
    BY <1>3, <1>4, <1>5 DEF FileTableInv

\* xpn_simple_close and xpn_simple_closedir: the last link, and no other, releases.
LEMMA CloseKeeps ==
    ASSUME FileTableInv, NEW fd \in Slots, Close(fd) \/ Closedir(fd)
    PROVE  FileTableInv'
  <1> USE FileTableAssumption
  <1>0. PICK o \in Structs \cup {NULL}, closed \in SUBSET streams :
          /\ o = table[fd]
          /\ closed = {x \in streams : /\ x[1] = o /\ x[3] = "session"
                                       /\ IF o \in dirs THEN XPN_SESSION_DIR = TRUE ELSE XPN_SESSION_FILE = TRUE}
          /\ Release(fd, closed)
    <2>1. table[fd] \in Structs \cup {NULL}
      BY DEF FileTableInv, FileTableType
    <2>2. CASE Close(fd)
      <3>1. nfi_local_close(table[fd]) =
              {x \in streams : /\ x[1] = table[fd] /\ x[3] = "session"
                               /\ IF table[fd] \in dirs THEN XPN_SESSION_DIR = TRUE ELSE XPN_SESSION_FILE = TRUE}
        BY <2>2 DEF Close, nfi_local_close
      <3> QED
        BY <2>1, <2>2, <3>1 DEF Close
    <2>3. CASE Closedir(fd)
      <3>1. nfi_local_closedir(table[fd]) =
              {x \in streams : /\ x[1] = table[fd] /\ x[3] = "session"
                               /\ IF table[fd] \in dirs THEN XPN_SESSION_DIR = TRUE ELSE XPN_SESSION_FILE = TRUE}
        BY <2>3 DEF Closedir, nfi_local_closedir
      <3> QED
        BY <2>1, <2>3, <3>1 DEF Closedir
    <2> QED
      BY <2>2, <2>3
  <1>1. /\ Running /\ held[fd] # NULL /\ held' = [held EXCEPT ![fd] = NULL]
        /\ UNCHANGED <<xpn_initialize, dirs, local, error, opens, dups, fault>>
        /\ held' \in [Slots -> Structs \cup {NULL}] /\ held \in [Slots -> Structs \cup {NULL}]
    BY <1>0 DEF Release, FileTableInv, FileTableType
  <1>2. CASE o \notin live
    <2>1. broken' = TRUE /\ UNCHANGED <<table, links, nfih, live, opened, streams>>
      BY <1>0, <1>2 DEF Release
    <2>2. FileTableType'
      BY <1>1, <2>1 DEF FileTableInv, FileTableType
    <2>3. ~Orderly' /\ ~Orderly
      BY <1>0, <1>1, <1>2, <2>1 DEF FileTableInv, LinksInv, Orderly
    <2>4. NoUseAfterFree'
      BY <1>1, <2>1, <2>3 DEF NoUseAfterFree, Orderly, Running, FileTableInv, FileTableType
    <2> QED
      BY <2>2, <2>3, <2>4 DEF FileTableInv, LinksInv, OpenedInv, MemoryInv
  <1>3. ASSUME o \in live, links[o] # 1
        PROVE  FileTableInv'
    <2>1. /\ links' = [links EXCEPT ![o] = links[o] - 1]
          /\ UNCHANGED <<table, nfih, live, opened, streams, broken>>
      BY <1>0, <1>3 DEF Release
    <2>2. o \in Structs
      BY <1>3, LiveStructs
    <2>3. FileTableType'
      BY <1>1, <2>1, <2>2 DEF FileTableInv, FileTableType
    <2>4. Orderly' <=> Orderly
      BY <1>1, <2>1 DEF Orderly
    <2>5. NoUseAfterFree' /\ OpenedInv'
      BY <1>1, <2>1, <2>4 DEF FileTableInv, NoUseAfterFree, OpenedInv
    <2>6. LinksInv'
      <3> SUFFICES ASSUME Orderly PROVE LinksInv'
        BY <2>4 DEF LinksInv
      <3>1. held[fd] = o /\ links[o] = Cardinality(Holders(o))
        BY <1>0, <1>1, <1>3 DEF FileTableInv, LinksInv
      <3>2. /\ Cardinality(Holders(o)') = Cardinality(Holders(o)) - 1 /\ Holders(o)' # {}
            /\ \A q \in Structs \ {o} : Holders(q)' = Holders(q)
        BY ONLY <1>1, <1>3, <2>2, <3>1, DropOne
      <3>3. links'[o] = links[o] - 1 /\ \A q \in Structs \ {o} : links'[q] = links[q]
        BY <2>1, <2>2 DEF FileTableInv, FileTableType
      <3>4. held'[fd] = NULL /\ \A i \in Slots \ {fd} : held'[i] = held[i]
        BY <1>1
      <3>5. ASSUME NEW q \in live'
            PROVE  links'[q] = Cardinality(Holders(q)') /\ Holders(q)' # {}
        <4>1. q \in live /\ q \in Structs
          BY <2>1, LiveStructs
        <4>2. links[q] = Cardinality(Holders(q)) /\ Holders(q) # {}
          BY <4>1 DEF FileTableInv, LinksInv
        <4>3. CASE q = o
          BY <3>1, <3>2, <3>3, <4>3
        <4>4. CASE q # o
          BY <3>2, <3>3, <4>1, <4>2, <4>4
        <4> QED
          BY <4>3, <4>4
      <3>6. \A i \in Slots : held'[i] # NULL => table'[i] = held'[i] /\ held'[i] \in live'
        BY <2>1, <3>4 DEF FileTableInv, LinksInv
      <3>7. xpn_initialize' = TRUE
        BY <1>1 DEF Running, FileTableInv, FileTableType
      <3> QED
        BY <3>5, <3>6, <3>7 DEF LinksInv
    <2>7. MemoryInv'
      <3> SUFFICES ASSUME Orderly PROVE MemoryInv'
        BY <2>4 DEF MemoryInv
      <3>1. dups # 0
        BY <1>3 DEF FileTableInv, MemoryInv
      <3> QED
        BY <1>1, <2>1, <3>1 DEF FileTableInv, MemoryInv, HasRawHandle
    <2> QED
      BY <2>3, <2>5, <2>6, <2>7 DEF FileTableInv
  <1>4. ASSUME o \in live, links[o] = 1
        PROVE  FileTableInv'
    <2>1. /\ links' = [links EXCEPT ![o] = links[o] - 1]
          /\ table' = [table EXCEPT ![fd] = NULL] /\ live' = live \ {o}
          /\ nfih' = [nfih EXCEPT ![o] = NoHandles]
          /\ opened' = {p \in opened : ~(p[1] = o /\ p[2] \notin error)}
          /\ streams' = streams \ closed
          /\ broken' = FALSE \/ (broken' = TRUE /\ HasRawHandle(o))
      <3>1. /\ links' = [links EXCEPT ![o] = @ - 1]
            /\ table' = SlotCleared(fd) /\ live' = live \ {o}
            /\ nfih' = [nfih EXCEPT ![o] = NoHandles]
            /\ opened' = opened \ Closed(o)
            /\ streams' = streams \ closed
            /\ broken' = FALSE \/ (broken' = TRUE /\ HasRawHandle(o))
        BY <1>0, <1>4 DEF Release
      <3>2. table' = [table EXCEPT ![fd] = NULL]
        BY <3>1 DEF SlotCleared
      <3>3. opened' = {p \in opened : ~(p[1] = o /\ p[2] \notin error)}
        BY <3>1 DEF Closed
      <3> QED
        BY <3>1, <3>2, <3>3
    <2>2. o \in Structs
      BY <1>4, LiveStructs
    <2>3. NoHandles \in [Servers -> Handles] /\ \A s \in Servers : NoHandles[s] = "null"
      BY DEF NoHandles, Handles
    <2>4. FileTableType'
      <3>1. /\ table' \in [Slots -> Structs \cup {NULL}] /\ links' \in [Structs -> Int]
            /\ nfih' \in [Structs -> [Servers -> Handles]]
        BY <2>1, <2>2, <2>3 DEF FileTableInv, FileTableType
      <3>2. broken' \in BOOLEAN
        BY <2>1
      <3> QED
        BY <1>1, <2>1, <3>1, <3>2 DEF FileTableInv, FileTableType
    <2>5. NoUseAfterFree'
      <3>1. CASE broken' = TRUE
        BY <1>1, <2>1, <2>2, <3>1 DEF FileTableInv, FileTableType, MemoryInv, Orderly, NoUseAfterFree, Running
      <3>2. CASE broken' = FALSE
        BY <3>2 DEF NoUseAfterFree
      <3> QED
        BY <2>1, <3>1, <3>2
    <2>6. ASSUME Orderly'
          PROVE  LinksInv' /\ OpenedInv' /\ MemoryInv'
      <3>0. Orderly /\ xpn_initialize = TRUE
        BY <1>1, <2>6 DEF Orderly, Running, FileTableInv, FileTableType
      <3>1. held[fd] = o /\ links[o] = Cardinality(Holders(o))
        BY <1>0, <1>1, <1>4, <3>0 DEF FileTableInv, LinksInv
      <3>2. /\ Holders(o)' = {}
            /\ \A q \in Structs \ {o} : Holders(q)' = Holders(q)
        BY ONLY <1>1, <1>4, <2>2, <3>1, DropOne
      <3>3. /\ \A q \in Structs \ {o} : links'[q] = links[q] /\ nfih'[q] = nfih[q]
            /\ nfih'[o] = NoHandles
            /\ table'[fd] = NULL /\ \A i \in Slots \ {fd} : table'[i] = table[i]
        BY <2>1, <2>2 DEF FileTableInv, FileTableType
      <3>4. held'[fd] = NULL /\ \A i \in Slots \ {fd} : held'[i] = held[i] /\ held[i] # o
        BY <1>1, <2>2, <3>2 DEF Holders
      <3>5. LinksInv'
        BY <1>1, <2>1, <3>0, <3>2, <3>3, <3>4, LiveStructs DEF FileTableInv, LinksInv
      <3>6. MemoryInv'
        BY <1>1, <2>1, <2>3, <3>0, <3>3, <3>4, LiveStructs DEF FileTableInv, MemoryInv, HasRawHandle
      <3>7. OpenedInv'
        <4> SUFFICES ASSUME "failed" \notin fault PROVE OpenedInv'
          BY <1>1 DEF OpenedInv
        <4>1. ASSUME NEW q \in live', NEW s \in Servers \ error'
              PROVE  <<q, s>> \in opened' <=> nfih'[q][s] = "open"
          <5>1. q \in live /\ q # o /\ nfih'[q] = nfih[q] /\ s \in Servers \ error
            BY <1>1, <2>1, <3>3, LiveStructs
          <5>2. <<q, s>> \in opened' <=> <<q, s>> \in opened
            BY <2>1, <5>1
          <5> QED
            BY <3>0, <5>1, <5>2 DEF FileTableInv, OpenedInv
        <4>2. \A p \in opened' : p[2] \notin error' => p[1] \in live'
          BY <1>1, <2>1, <3>0 DEF FileTableInv, OpenedInv
        <4>3. ASSUME NEW x \in streams', x[3] = "session"
              PROVE  x[1] \in live' /\ x[2] \in local'
          <5>1. x \in streams /\ x[1] \in live /\ x[2] \in local
            BY <1>1, <2>1, <3>0, <4>3 DEF FileTableInv, OpenedInv
          <5>2. x = <<x[1], x[2], "session">>
            BY <4>3, <5>1 DEF FileTableInv, FileTableType
          <5>3. IF x[1] \in dirs THEN XPN_SESSION_DIR = TRUE ELSE XPN_SESSION_FILE = TRUE
            BY <3>0, <5>1, <5>2 DEF FileTableInv, OpenedInv
          <5>4. x[1] # o
            BY <1>0, <2>1, <4>3, <5>3
          <5> QED
            BY <1>1, <2>1, <5>1, <5>4
        <4>4. ASSUME NEW q \in live', NEW s \in local'
              PROVE  <<q, s, "session">> \in streams' <=>
                       nfih'[q][s] = "open" /\ IF q \in dirs' THEN XPN_SESSION_DIR = TRUE
                                                              ELSE XPN_SESSION_FILE = TRUE
          <5>1. q \in live /\ q # o /\ nfih'[q] = nfih[q] /\ s \in local
            BY <1>1, <2>1, <3>3, LiveStructs
          <5>2. <<q, s, "session">> \in streams' <=> <<q, s, "session">> \in streams
            BY <1>0, <2>1, <5>1
          <5> QED
            BY <1>1, <3>0, <5>1, <5>2 DEF FileTableInv, OpenedInv
        <4> QED
          BY <4>1, <4>2, <4>3, <4>4 DEF OpenedInv
      <3> QED
        BY <3>5, <3>6, <3>7
    <2>7. CASE ~Orderly'
      BY <2>4, <2>5, <2>7 DEF FileTableInv, LinksInv, OpenedInv, MemoryInv
    <2> QED
      BY <2>4, <2>5, <2>6, <2>7 DEF FileTableInv
  <1> QED
    BY <1>2, <1>3, <1>4

\* xpn_simple_dup and xpn_simple_dup2 give the struct one more descriptor.
LEMMA DuplicateKeeps ==
    ASSUME FileTableInv, NEW fd \in Slots, NEW i \in Slots, Duplicate(fd, i)
    PROVE  FileTableInv'
  <1> USE FileTableAssumption
  <1>0. PICK o \in Structs \cup {NULL} : o = table[fd]
    BY DEF FileTableInv, FileTableType
  <1>1. /\ Running /\ held[fd] # NULL /\ dups' = dups + 1
        /\ table' = [table EXCEPT ![i] = o] /\ held' = [held EXCEPT ![i] = o]
        /\ fault' = Overwrites(i)
        /\ UNCHANGED <<xpn_initialize, nfih, live, dirs, local, streams, opened, error, opens>>
        /\ held \in [Slots -> Structs \cup {NULL}]
    BY <1>0 DEF Duplicate, FileTableInv, FileTableType
  <1>2. \/ o \in live /\ links' = [links EXCEPT ![o] = @ + 1] /\ broken' = broken
        \/ o \notin live /\ broken' = TRUE /\ links' = links
    BY <1>0 DEF Duplicate, Linked
  <1>3. NoUseAfterFree' /\ dups' # 0
    BY <1>1 DEF NoUseAfterFree, FileTableInv, FileTableType
  <1>4. FileTableType'
    <2>1. links' \in [Structs -> Int]
      BY <1>2, LiveStructs DEF FileTableInv, FileTableType
    <2>2. table' \in [Slots -> Structs \cup {NULL}] /\ held' \in [Slots -> Structs \cup {NULL}]
      BY <1>1 DEF FileTableInv, FileTableType
    <2>3. broken' \in BOOLEAN
      BY <1>2 DEF FileTableInv, FileTableType
    <2> QED
      BY <1>1, <2>1, <2>2, <2>3 DEF FileTableInv, FileTableType
  <1>5. ASSUME Orderly'
        PROVE  LinksInv' /\ OpenedInv' /\ MemoryInv'
    <2>1. Orderly /\ table[i] = NULL /\ fault' = fault /\ xpn_initialize = TRUE
      BY <1>1, <1>5 DEF Orderly, Overwrites, Running, FileTableInv, FileTableType
    <2>2. o \in live /\ o \in Structs /\ links' = [links EXCEPT ![o] = @ + 1] /\ broken' = broken
      BY <1>2, <1>5, LiveStructs DEF Orderly
    <2>3. held[i] = NULL
      BY <2>1 DEF FileTableInv, LinksInv
    <2>4. /\ Cardinality(Holders(o)') = Cardinality(Holders(o)) + 1 /\ Holders(o)' # {}
          /\ \A q \in Structs \ {o} : Holders(q)' = Holders(q)
      BY ONLY <1>1, <2>2, <2>3, HoldOne
    <2>5. /\ links'[o] = links[o] + 1 /\ \A q \in Structs \ {o} : links'[q] = links[q]
          /\ held'[i] = o /\ table'[i] = o
          /\ \A j \in Slots \ {i} : held'[j] = held[j] /\ table'[j] = table[j]
      BY <1>1, <2>2 DEF FileTableInv, FileTableType
    <2>6. LinksInv'
      <3>1. ASSUME NEW q \in live'
            PROVE  links'[q] = Cardinality(Holders(q)') /\ Holders(q)' # {}
        <4>1. q \in live /\ q \in Structs
          BY <1>1, LiveStructs
        <4>2. links[q] = Cardinality(Holders(q)) /\ Holders(q) # {}
          BY <2>1, <4>1 DEF FileTableInv, LinksInv
        <4>3. CASE q = o
          BY <2>4, <2>5, <4>2, <4>3
        <4>4. CASE q # o
          BY <2>4, <2>5, <4>1, <4>2, <4>4
        <4> QED
          BY <4>3, <4>4
      <3>2. \A j \in Slots : held'[j] # NULL => table'[j] = held'[j] /\ held'[j] \in live'
        BY <1>1, <2>1, <2>2, <2>5 DEF FileTableInv, LinksInv
      <3> QED
        BY <1>1, <2>1, <3>1, <3>2 DEF LinksInv
    <2>7. OpenedInv'
      BY <1>1, <2>1 DEF FileTableInv, OpenedInv
    <2>8. MemoryInv'
      BY <1>1, <1>3, <2>1 DEF FileTableInv, MemoryInv, HasRawHandle
    <2> QED
      BY <2>6, <2>7, <2>8
  <1>6. CASE ~Orderly'
    BY <1>3, <1>4, <1>6 DEF FileTableInv, LinksInv, OpenedInv, MemoryInv
  <1> QED
    BY <1>3, <1>4, <1>5, <1>6 DEF FileTableInv

\* xpn_destroy frees every struct once, unless it was duplicated or is gone already.
LEMMA DestroyKeeps == ASSUME FileTableInv, Destroy PROVE FileTableInv'
  <1> USE FileTableAssumption
  <1>1. /\ Running /\ xpn_initialize' = FALSE /\ held' = [i \in Slots |-> NULL]
        /\ UNCHANGED <<links, dirs, local, opened, error, opens, dups, fault>>
    BY DEF Destroy
  <1>2. /\ \A x \in streams' : x[3] # "session"
        /\ streams' \subseteq Structs \X Servers \X {"session", "end", "lost"}
    <2>1. streams' = {IF x[3] = "session" THEN [x EXCEPT ![3] = "lost"] ELSE x : x \in streams}
      BY DEF Destroy
    <2>2. ASSUME NEW y \in streams'
          PROVE  y[3] # "session" /\ y \in Structs \X Servers \X {"session", "end", "lost"}
      <3>1. PICK x \in streams : y = IF x[3] = "session" THEN [x EXCEPT ![3] = "lost"] ELSE x
        BY <2>1
      <3>2. x \in Structs \X Servers \X {"session", "end", "lost"}
        BY DEF FileTableInv, FileTableType
      <3> QED
        BY <3>1, <3>2
    <2> QED
      BY <2>2
  <1>3. ASSUME NEW i \in Slots, Dangling(i) \/ (table[i] # NULL /\ HasRawHandle(table[i])),
               broken' = TRUE, UNCHANGED <<table, live, nfih>>
        PROVE  FileTableInv'
    <2>1. FileTableType'
      BY <1>1, <1>2, <1>3 DEF FileTableInv, FileTableType
    <2>2. ~Orderly'
      BY <1>3 DEF Orderly
    <2>3. ASSUME dups = 0, "full" \notin fault, error = {}
          PROVE  FALSE
      <3>0. Orderly
        BY <1>1, <2>3 DEF Orderly, Running, FileTableInv, FileTableType
      <3>1. /\ \A fd \in Slots : table[fd] = held[fd]
            /\ \A o \in live : links[o] = 1
            /\ \A o \in Structs : ~HasRawHandle(o)
        BY <2>3, <3>0 DEF FileTableInv, MemoryInv
      <3>2. table[i] = held[i] /\ table[i] # NULL /\ table[i] \in Structs
        BY <1>3, <3>1 DEF Dangling, FileTableInv, FileTableType
      <3>3. held[i] \in live /\ Cardinality(Holders(held[i])) = 1
        BY <3>0, <3>1, <3>2 DEF FileTableInv, LinksInv
      <3>4. PICK j \in Slots : j < i /\ table[j] = table[i]
        BY <1>3, <3>1, <3>2, <3>3 DEF Dangling
      <3>5. i \in Holders(held[i]) /\ j \in Holders(held[i]) /\ i # j
        BY <3>1, <3>2, <3>4 DEF Holders, Slots
      <3>6. \E y : Holders(held[i]) = {y}
        BY <3>3, HoldersFinite, FS_Singleton
      <3> QED
        BY <3>5, <3>6
    <2>4. NoUseAfterFree'
      BY <1>1, <2>3 DEF NoUseAfterFree, FileTableInv, FileTableType
    <2> QED
      BY <2>1, <2>2, <2>4 DEF FileTableInv, LinksInv, OpenedInv, MemoryInv
  <1>4. ASSUME table' = [i \in Slots |-> NULL], live' = live \ Range(table),
               nfih' = [o \in Structs |-> IF o \in live' THEN nfih[o] ELSE NoHandles],
               broken' = broken
        PROVE  FileTableInv'
    <2>1. NoHandles \in [Servers -> Handles] /\ \A s \in Servers : NoHandles[s] = "null"
      BY DEF NoHandles, Handles
    <2>2. FileTableType'
      <3>1. nfih' \in [Structs -> [Servers -> Handles]]
        BY <1>4, <2>1 DEF FileTableInv, FileTableType
      <3>2. table' \in [Slots -> Structs \cup {NULL}] /\ held' \in [Slots -> Structs \cup {NULL}]
        BY <1>1, <1>4
      <3>3. live' \subseteq 1..opens'
        BY <1>1, <1>4 DEF FileTableInv, FileTableType
      <3> QED
        BY <1>1, <1>2, <1>4, <3>1, <3>2, <3>3 DEF FileTableInv, FileTableType
    <2>3. NoUseAfterFree'
      BY <1>1, <1>4 DEF NoUseAfterFree, Running
    <2>4. ASSUME Orderly'
          PROVE  LinksInv' /\ OpenedInv' /\ MemoryInv'
      <3>0. Orderly
        BY <1>1, <1>4, <2>4 DEF Orderly
      <3>1. ASSUME NEW o \in live PROVE o \in Range(table)
        <4>1. PICK fd \in Slots : held[fd] = o
          BY <3>0 DEF FileTableInv, LinksInv, Holders
        <4>2. o # NULL
          BY LiveStructs DEF Structs, NULL
        <4>3. table[fd] = o
          BY <3>0, <4>1, <4>2 DEF FileTableInv, LinksInv
        <4> QED
          BY <4>3 DEF Range, FileTableInv, FileTableType
      <3>2. live' = {} /\ \A fd \in Slots : held'[fd] = NULL /\ table'[fd] = NULL
        BY <1>1, <1>4, <3>1
      <3>3. \A o \in Structs : ~HasRawHandle(o)'
        BY <1>4, <2>1, <3>2 DEF HasRawHandle
      <3> QED
        BY <1>1, <1>2, <3>2, <3>3 DEF LinksInv, OpenedInv, MemoryInv
    <2>5. CASE ~Orderly'
      BY <2>2, <2>3, <2>5 DEF FileTableInv, LinksInv, OpenedInv, MemoryInv
    <2> QED
      BY <2>2, <2>3, <2>4, <2>5 DEF FileTableInv
  <1> QED
    BY <1>3, <1>4 DEF Destroy

\* xpn_init after xpn_destroy: nothing is left that it would lose.
LEMMA RestartKeeps == ASSUME FileTableInv, Restart PROVE FileTableInv'
  <1> USE FileTableAssumption
  <1>1. /\ xpn_initialize = FALSE /\ broken = FALSE /\ xpn_initialize' = TRUE
        /\ table' = [i \in Slots |-> NULL] /\ opened' = {} /\ error' \subseteq Servers
        /\ UNCHANGED <<links, nfih, live, dirs, local, streams, opens, dups, held, fault, broken>>
    BY DEF Restart, Errors, FileTableInv, FileTableType
  <1>2. FileTableType'
    <2>1. table' \in [Slots -> Structs \cup {NULL}]
      BY <1>1
    <2> QED
      BY <1>1, <2>1 DEF FileTableInv, FileTableType
  <1>3. NoUseAfterFree'
    BY <1>1 DEF NoUseAfterFree
  <1>4. ASSUME Orderly
        PROVE  LinksInv' /\ OpenedInv' /\ MemoryInv'
    <2>1. \A fd \in Slots : held[fd] = NULL
      BY <1>1, <1>4 DEF FileTableInv, LinksInv
    <2>2. live = {}
      <3>1. ASSUME NEW o \in live PROVE FALSE
        <4>1. PICK fd \in Slots : held[fd] = o
          BY <1>4 DEF FileTableInv, LinksInv, Holders
        <4> QED
          BY <2>1, <4>1, LiveStructs DEF Structs, NULL
      <3> QED
        BY <3>1
    <2>3. \A o \in Structs : ~HasRawHandle(o)'
      BY <1>1, <1>4, <2>2 DEF HasRawHandle, FileTableInv, MemoryInv
    <2>4. LinksInv' /\ MemoryInv'
      BY <1>1, <2>1, <2>2, <2>3 DEF LinksInv, MemoryInv
    <2>5. OpenedInv'
      BY <1>1, <1>4, <2>2 DEF FileTableInv, OpenedInv, Orderly
    <2> QED
      BY <2>4, <2>5
  <1>5. Orderly' <=> Orderly
    BY <1>1 DEF Orderly
  <1> QED
    BY <1>2, <1>3, <1>4, <1>5 DEF FileTableInv, LinksInv, OpenedInv, MemoryInv

LEMMA MarkErrorKeeps == ASSUME FileTableInv, NEW s \in Servers, MarkErrorServer(s) PROVE FileTableInv'
  <1>1. /\ broken = FALSE /\ error' = error \cup {s}
        /\ UNCHANGED <<xpn_initialize, table, links, nfih, live, dirs, local, streams, opened, opens,
                       dups, held, fault, broken>>
    BY DEF MarkErrorServer, Running, FileTableInv, FileTableType
  <1>2. FileTableType' /\ NoUseAfterFree'
    BY <1>1 DEF FileTableInv, FileTableType, NoUseAfterFree
  <1>3. LinksInv' /\ OpenedInv'
    BY <1>1 DEF FileTableInv, LinksInv, OpenedInv, Orderly, Holders
  <1>4. MemoryInv'
    BY <1>1 DEF FileTableInv, MemoryInv, Orderly, HasRawHandle
  <1> QED
    BY <1>2, <1>3, <1>4 DEF FileTableInv

LEMMA NextFileTableInv == FileTableInv /\ [Next]_vars => FileTableInv'
  <1> SUFFICES ASSUME FileTableInv, [Next]_vars PROVE FileTableInv'
    OBVIOUS
  <1>1. ASSUME NEW a \in SUBSET Servers, Open(a, FALSE) PROVE FileTableInv'
    BY ONLY <1>1, FileTableInv, OpenKeeps
  <1>2. ASSUME NEW a \in SUBSET Servers, OpenFails(a) PROVE FileTableInv'
    BY ONLY <1>2, FileTableInv, OpenFailsKeeps
  <1>3. ASSUME NEW s \in Servers, Opendir(s) PROVE FileTableInv'
    <2>1. Open({s}, TRUE) /\ {s} \in SUBSET Servers
      BY <1>3 DEF Opendir
    <2> QED
      BY ONLY <2>1, FileTableInv, OpenKeeps
  <1>4. ASSUME NEW fd \in Slots, NEW s \in Servers, GetFh(fd, s) PROVE FileTableInv'
    BY ONLY <1>4, FileTableInv, GetFhKeeps
  <1>5. ASSUME NEW fd \in Slots, NEW s \in Servers, nfi_local_readdir(fd, s) PROVE FileTableInv'
    BY ONLY <1>5, FileTableInv, ReaddirKeeps
  <1>6. ASSUME NEW fd \in Slots, Close(fd) \/ Closedir(fd) PROVE FileTableInv'
    BY ONLY <1>6, FileTableInv, CloseKeeps
  <1>7. ASSUME NEW fd \in Slots, Dup(fd) PROVE FileTableInv'
    <2>1. FreeSlot \in Slots /\ Duplicate(fd, FreeSlot)
      BY <1>7, FreeSlotInTable DEF Dup
    <2> QED
      BY ONLY <2>1, FileTableInv, DuplicateKeeps
  <1>8. ASSUME NEW fd \in Slots, NEW fd2 \in Slots, Dup2(fd, fd2) PROVE FileTableInv'
    <2>1. Duplicate(fd, fd2)
      BY <1>8 DEF Dup2
    <2> QED
      BY ONLY <2>1, FileTableInv, DuplicateKeeps
  <1>9. ASSUME NEW s \in Servers, MarkErrorServer(s) PROVE FileTableInv'
    BY ONLY <1>9, FileTableInv, MarkErrorKeeps
  <1>10. CASE UNCHANGED vars
    <2>1. FileTableType' /\ NoUseAfterFree'
      BY <1>10 DEF vars, FileTableInv, FileTableType, NoUseAfterFree
    <2>2. LinksInv' /\ OpenedInv'
      BY <1>10 DEF vars, FileTableInv, LinksInv, OpenedInv, Orderly, Holders
    <2>3. MemoryInv'
      BY <1>10 DEF vars, FileTableInv, MemoryInv, Orderly, HasRawHandle
    <2> QED
      BY <2>1, <2>2, <2>3 DEF FileTableInv
  <1>11. Next => FileTableInv'
    BY <1>1, <1>2, <1>3, <1>4, <1>5, <1>6, <1>7, <1>8, <1>9, DestroyKeeps, RestartKeeps, Zenon DEF Next
  <1> QED
    BY <1>10, <1>11

-----------------------------------------------------------------------------
(* The theorems *)

\* Descriptors and open files belong together: a descriptor that xpn_simple_open,
\* _opendir or _dup returned keeps its struct, which is released, on every server that
\* is not in error and on the client's own node, with the last of its descriptors.
THEOREM FileTableDescriptorsOwnTheirFiles == Spec => []DescriptorsOwnTheirFiles
  <1>1. FileTableInv => DescriptorsOwnTheirFiles
    <2> SUFFICES ASSUME FileTableInv, "full" \notin fault, broken = FALSE
                 PROVE  DescriptorsOwnTheirFiles
      BY DEF DescriptorsOwnTheirFiles, DescriptorsKeepTheirFile, ReleasedWithLastDescriptor, Running,
             FileTableInv, FileTableType
    <2>1. DescriptorsKeepTheirFile
      BY DEF DescriptorsKeepTheirFile, FileTableInv, LinksInv, Orderly
    <2>2. live = Range(held) \ {NULL}
      <3>1. ASSUME NEW o \in live PROVE o \in Range(held) \ {NULL}
        <4>1. PICK fd \in Slots : held[fd] = o
          BY DEF FileTableInv, LinksInv, Orderly, Holders
        <4> QED
          BY <4>1, LiveStructs DEF Range, FileTableInv, FileTableType, Structs, NULL
      <3>2. ASSUME NEW o \in Range(held) \ {NULL} PROVE o \in live
        <4>1. PICK fd \in Slots : held[fd] = o
          BY DEF Range, FileTableInv, FileTableType
        <4> QED
          BY <4>1 DEF FileTableInv, LinksInv, Orderly
      <3> QED
        BY <3>1, <3>2
    <2>3. ASSUME xpn_initialize = TRUE, "failed" \notin fault
          PROVE  {p \in opened : p[2] \notin error} =
                 {p \in live \X (Servers \ error) : nfih[p[1]][p[2]] = "open"}
      <3>1. ASSUME NEW p \in opened, p[2] \notin error
            PROVE  p \in live \X (Servers \ error) /\ nfih[p[1]][p[2]] = "open"
        <4>1. p[1] \in live /\ p[2] \in Servers \ error /\ p = <<p[1], p[2]>>
          BY <2>3, <3>1 DEF FileTableInv, FileTableType, OpenedInv, Orderly
        <4> QED
          BY <2>3, <3>1, <4>1 DEF FileTableInv, OpenedInv, Orderly
      <3>2. ASSUME NEW p \in live \X (Servers \ error), nfih[p[1]][p[2]] = "open"
            PROVE  p \in opened /\ p[2] \notin error
        <4>1. p[1] \in live /\ p[2] \in Servers \ error /\ p = <<p[1], p[2]>>
          OBVIOUS
        <4> QED
          BY <2>3, <3>2, <4>1 DEF FileTableInv, OpenedInv, Orderly
      <3> QED
        BY <3>1, <3>2
    <2>4. ASSUME "failed" \notin fault
          PROVE  {x \in streams : x[3] = "session"} =
                 {p \in live \X local \X {"session"} :
                    nfih[p[1]][p[2]] = "open" /\ IF p[1] \in dirs THEN XPN_SESSION_DIR ELSE XPN_SESSION_FILE}
      <3>0. /\ XPN_SESSION_DIR <=> XPN_SESSION_DIR = TRUE
            /\ XPN_SESSION_FILE <=> XPN_SESSION_FILE = TRUE
        BY FileTableAssumption
      <3>1. ASSUME NEW x \in streams, x[3] = "session"
            PROVE  /\ x \in live \X local \X {"session"} /\ nfih[x[1]][x[2]] = "open"
                   /\ IF x[1] \in dirs THEN XPN_SESSION_DIR ELSE XPN_SESSION_FILE
        <4>1. x[1] \in live /\ x[2] \in local /\ x = <<x[1], x[2], "session">>
          BY <2>4, <3>1 DEF FileTableInv, FileTableType, OpenedInv, Orderly
        <4>2. <<x[1], x[2], "session">> \in streams
          BY <4>1
        <4>3. /\ nfih[x[1]][x[2]] = "open"
              /\ IF x[1] \in dirs THEN XPN_SESSION_DIR = TRUE ELSE XPN_SESSION_FILE = TRUE
          BY <2>4, <4>1, <4>2 DEF FileTableInv, OpenedInv, Orderly
        <4> QED
          BY <3>0, <4>1, <4>3
      <3>2. ASSUME NEW x \in live \X local \X {"session"}, nfih[x[1]][x[2]] = "open",
                   IF x[1] \in dirs THEN XPN_SESSION_DIR ELSE XPN_SESSION_FILE
            PROVE  x \in streams /\ x[3] = "session"
        <4>1. x[1] \in live /\ x[2] \in local /\ x = <<x[1], x[2], "session">> /\ x[3] = "session"
          OBVIOUS
        <4>2. <<x[1], x[2], "session">> \in streams
          BY <2>4, <3>0, <3>2, <4>1 DEF FileTableInv, OpenedInv, Orderly
        <4> QED
          BY <4>1, <4>2
      <3> QED
        BY <3>1, <3>2
    <2>5. Running => xpn_initialize = TRUE
      BY DEF Running, FileTableInv, FileTableType
    <2> QED
      BY <2>1, <2>2, <2>3, <2>4, <2>5 DEF DescriptorsOwnTheirFiles, ReleasedWithLastDescriptor
  <1> QED
    BY <1>1, InitFileTableInv, NextFileTableInv, PTL DEF Spec

\* A process without dup, without a full table and without servers in error never uses
\* memory that was freed or not filled in, xpn_destroy_file_table included.
THEOREM FileTableNoUseAfterFree == Spec => []NoUseAfterFree
  <1>1. FileTableInv => NoUseAfterFree
    BY DEF FileTableInv
  <1> QED
    BY <1>1, InitFileTableInv, NextFileTableInv, PTL DEF Spec

=============================================================================
