------------------------ MODULE WorkersOnDemandProofs ------------------------
(***************************************************************************)
(* Proofs about the one-thread-per-operation workers, for any number of    *)
(* launches and of failed pthread_create calls, when one thread at a time  *)
(* launches: busy_worker is then the launcher's own flag.                  *)
(***************************************************************************)
EXTENDS WorkersOnDemand, FiniteSetTheorems, TLAPS

\* The callers of worker_ondemand_launch: a client's calls hold the API lock, and
\* worker1 of a server is used by its accept loop only.
OneLauncher == \A k, l \in Launchers : k = l

Args == [id : 0..MaxLaunches, wait4me : BOOLEAN]

OnDemandType ==
    /\ busy_worker \in BOOLEAN /\ n_workers \in Int
    /\ lpc \in [Launchers -> {"idle", "create", "handshake", "wait"}]
    /\ th_arg \in [Launchers -> Args]
    /\ launched \in [Launchers -> 0..MaxLaunches]
    /\ tpc \in [Threads -> {"none", "created", "function", "notify", "epilog", "gone"}]
    /\ th \in [Threads -> Args]
    /\ dpc \in {"running", "draining", "done"}
    /\ executed \in [Threads -> Nat]

\* The threads n_workers counts.
Counting == {t \in Threads : tpc[t] \in {"function", "notify", "epilog"}}

\* Where the launcher is, against its last thread.
HandshakeInv ==
    \A l \in Launchers, i \in 1..MaxLaunches :
      LET t == <<l, i>> IN
      /\ i > launched[l] => tpc[t] = "none"
      /\ tpc[t] = "created" => i = launched[l] /\ lpc[l] = "handshake" /\ busy_worker = TRUE
      /\ i = launched[l] /\ lpc[l] = "create" => tpc[t] = "none"
      /\ i = launched[l] /\ lpc[l] = "handshake" /\ tpc[t] = "none" => busy_worker = TRUE
      /\ i = launched[l] /\ lpc[l] \in {"idle", "wait"} => tpc[t] # "none"

\* What each thread copied and has done.
ThreadInv ==
    /\ \A l \in Launchers : lpc[l] \in {"create", "handshake"} => th_arg[l].id = launched[l]
    /\ \A l \in Launchers : lpc[l] = "create" => launched[l] > 0 /\ busy_worker = TRUE
    /\ \A t \in Threads : tpc[t] \notin {"none", "created"} => th[t].id = t[2]
    /\ \A t \in Threads :
         executed[t] = IF tpc[t] \in {"none", "created", "function"} THEN 0 ELSE 1

DrainInv ==
    /\ n_workers = Cardinality(Counting)
    /\ dpc # "running" => \A l \in Launchers : lpc[l] = "idle"
    /\ dpc = "done" => n_workers = 0

OnDemandInv == OnDemandType /\ HandshakeInv /\ ThreadInv /\ DrainInv

-----------------------------------------------------------------------------
LEMMA ThreadsFinite == IsFiniteSet(Threads) /\ IsFiniteSet(Counting)
  <1>1. IsFiniteSet(1..MaxLaunches)
    BY OnDemandAssumption, FS_Interval
  <1>2. IsFiniteSet(Threads)
    BY <1>1, OnDemandAssumption, FS_Product DEF Threads
  <1> QED
    BY <1>2, FS_Subset DEF Counting

\* A thread is a pair of its launcher and the number of its launch.
LEMMA ThreadParts ==
    ASSUME NEW t \in Threads
    PROVE  t[1] \in Launchers /\ t[2] \in 1..MaxLaunches /\ t = <<t[1], t[2]>>
  BY DEF Threads

LEMMA InitOnDemandInv == Init => OnDemandInv
  <1> SUFFICES ASSUME Init PROVE OnDemandInv
    OBVIOUS
  <1> USE OnDemandAssumption
  <1>1. OnDemandType
    <2>1. th_arg \in [Launchers -> Args] /\ th \in [Threads -> Args]
      BY DEF Init, NoArg, Args
    <2>2. busy_worker \in BOOLEAN
      BY DEF Init
    <2> QED
      BY <2>1, <2>2 DEF Init, OnDemandType
  <1>2. HandshakeInv
    BY DEF Init, HandshakeInv, Threads
  <1>3. ThreadInv
    BY DEF Init, ThreadInv
  <1>4. DrainInv
    <2>1. Counting = {}
      BY DEF Init, Counting
    <2> QED
      BY <2>1, FS_EmptySet DEF Init, DrainInv
  <1> QED
    BY <1>1, <1>2, <1>3, <1>4 DEF OnDemandInv

\* worker_ondemand_launch as far as pthread_create.
LEMMA LaunchBeginsKeeps ==
    ASSUME OneLauncher, OnDemandInv, NEW l \in Launchers, LaunchBegins(l)
    PROVE  OnDemandInv'
  <1> USE OnDemandAssumption DEF wvars, lvars, tvars
  <1>0. PICK b \in BOOLEAN : th_arg' = [th_arg EXCEPT ![l] = [id |-> launched[l] + 1, wait4me |-> b]]
    BY DEF LaunchBegins
  <1>1. /\ dpc = "running" /\ lpc[l] = "idle" /\ launched[l] \in Nat /\ launched[l] < MaxLaunches
        /\ busy_worker' = TRUE /\ launched' = [launched EXCEPT ![l] = launched[l] + 1]
        /\ lpc' = [lpc EXCEPT ![l] = "create"]
        /\ UNCHANGED <<n_workers, tpc, th, dpc, executed>>
    BY DEF LaunchBegins, OnDemandInv, OnDemandType
  <1>2. Launchers = {l}
    BY DEF OneLauncher
  <1>3. OnDemandType'
    <2>1. th_arg' \in [Launchers -> Args]
      BY <1>0, <1>1 DEF OnDemandInv, OnDemandType, Args
    <2>2. busy_worker' \in BOOLEAN
      BY <1>1
    <2>3. launched[l] + 1 \in 0..MaxLaunches
      BY <1>1
    <2>4. /\ launched' \in [Launchers -> 0..MaxLaunches]
          /\ lpc' \in [Launchers -> {"idle", "create", "handshake", "wait"}]
      BY <1>1, <2>3 DEF OnDemandInv, OnDemandType
    <2> QED
      BY <1>1, <2>1, <2>2, <2>4 DEF OnDemandInv, OnDemandType
  <1>4. /\ launched'[l] = launched[l] + 1 /\ lpc'[l] = "create"
        /\ th_arg'[l].id = launched[l] + 1
    BY <1>0, <1>1 DEF OnDemandInv, OnDemandType
  <1>5. HandshakeInv'
    BY <1>1, <1>2, <1>4 DEF OnDemandInv, HandshakeInv
  <1>6. ThreadInv'
    BY <1>1, <1>2, <1>4 DEF OnDemandInv, ThreadInv
  <1>7. DrainInv'
    BY <1>1 DEF OnDemandInv, DrainInv, Counting
  <1> QED
    BY <1>3, <1>5, <1>6, <1>7 DEF OnDemandInv

LEMMA ThreadCreatedKeeps ==
    ASSUME OneLauncher, OnDemandInv, NEW l \in Launchers, ThreadCreated(l)
    PROVE  OnDemandInv'
  <1> DEFINE c == <<l, launched[l]>>
  <1> USE OnDemandAssumption DEF wvars, lvars, tvars
  <1>1. /\ lpc[l] = "create" /\ launched[l] \in 1..MaxLaunches /\ c \in Threads /\ tpc[c] = "none"
        /\ busy_worker = TRUE
        /\ tpc' = [tpc EXCEPT ![c] = "created"] /\ lpc' = [lpc EXCEPT ![l] = "handshake"]
        /\ UNCHANGED <<busy_worker, n_workers, th_arg, launched, th, dpc, executed>>
    BY DEF ThreadCreated, OnDemandInv, OnDemandType, ThreadInv, HandshakeInv, Threads
  <1>2. Launchers = {l}
    BY DEF OneLauncher
  <1>3. /\ tpc'[c] = "created" /\ \A t \in Threads : t # c => tpc'[t] = tpc[t]
        /\ lpc'[l] = "handshake"
    BY <1>1 DEF OnDemandInv, OnDemandType
  <1>4. OnDemandType'
    BY <1>1 DEF OnDemandInv, OnDemandType
  <1>5. HandshakeInv'
    <2> SUFFICES ASSUME NEW i \in 1..MaxLaunches
                 PROVE  LET t == <<l, i>> IN
                          /\ i > launched[l] => tpc'[t] = "none"
                          /\ tpc'[t] = "created" => i = launched[l]
                          /\ i = launched[l] => tpc'[t] = "created"
      BY <1>1, <1>2, <1>3 DEF HandshakeInv
    <2>1. <<l, i>> \in Threads /\ (<<l, i>> = c <=> i = launched[l])
      BY DEF Threads
    <2> QED
      BY <1>1, <1>3, <2>1 DEF OnDemandInv, HandshakeInv
  <1>6. ThreadInv'
    BY <1>1, <1>2, <1>3 DEF OnDemandInv, ThreadInv
  <1>7. DrainInv'
    <2>1. Counting' = Counting
      BY <1>1, <1>3 DEF Counting
    <2> QED
      BY <1>1, <1>3, <2>1 DEF OnDemandInv, DrainInv
  <1> QED
    BY <1>4, <1>5, <1>6, <1>7 DEF OnDemandInv

\* The rest of the launch and the wait: the launcher goes on when its thread has
\* its arguments.
LEMMA LauncherKeeps ==
    ASSUME OneLauncher, OnDemandInv, NEW l \in Launchers,
           CreateFails(l) \/ HandshakeBlocks(l) \/ LaunchReturns(l) \/ WaitReturns(l)
    PROVE  OnDemandInv'
  <1> USE OnDemandAssumption DEF wvars, lvars, tvars
  <1>1. UNCHANGED <<n_workers, th_arg, launched, tpc, th, dpc, executed>>
    BY DEF CreateFails, HandshakeBlocks, LaunchReturns, WaitReturns
  <1>2. Launchers = {l}
    BY DEF OneLauncher
  <1>3. \/ lpc[l] = "create" /\ lpc' = [lpc EXCEPT ![l] = "handshake"] /\ busy_worker' = busy_worker
        \/ lpc' = lpc /\ busy_worker' = busy_worker
        \/ /\ lpc[l] = "handshake" /\ busy_worker # TRUE /\ busy_worker' = TRUE
           /\ lpc' = [lpc EXCEPT ![l] = IF th_arg[l].wait4me THEN "wait" ELSE "idle"]
        \/ lpc[l] = "wait" /\ lpc' = [lpc EXCEPT ![l] = "idle"] /\ busy_worker' = busy_worker
    BY DEF CreateFails, HandshakeBlocks, LaunchReturns, WaitReturns, HandshakeOver
  <1>4. OnDemandType'
    BY <1>1, <1>3 DEF OnDemandInv, OnDemandType
  <1>5. lpc \in [Launchers -> {"idle", "create", "handshake", "wait"}]
    BY DEF OnDemandInv, OnDemandType
  <1>6. HandshakeInv'
    <2> SUFFICES ASSUME NEW i \in 1..MaxLaunches
                 PROVE  LET t == <<l, i>> IN
                          /\ i > launched[l] => tpc[t] = "none"
                          /\ tpc[t] = "created" => i = launched[l] /\ lpc'[l] = "handshake" /\ busy_worker' = TRUE
                          /\ i = launched[l] /\ lpc'[l] = "create" => tpc[t] = "none"
                          /\ i = launched[l] /\ lpc'[l] = "handshake" /\ tpc[t] = "none" => busy_worker' = TRUE
                          /\ i = launched[l] /\ lpc'[l] \in {"idle", "wait"} => tpc[t] # "none"
      BY <1>1, <1>2 DEF HandshakeInv
    <2>1. CASE lpc[l] = "create" /\ lpc'[l] = "handshake" /\ busy_worker' = busy_worker
      BY <2>1 DEF OnDemandInv, HandshakeInv, ThreadInv
    <2>2. CASE lpc' = lpc /\ busy_worker' = busy_worker
      BY <2>2 DEF OnDemandInv, HandshakeInv
    <2>3. CASE lpc[l] = "handshake" /\ busy_worker # TRUE /\ busy_worker' = TRUE
               /\ lpc'[l] \in {"wait", "idle"}
      BY <2>3 DEF OnDemandInv, HandshakeInv
    <2>4. CASE lpc[l] = "wait" /\ lpc'[l] = "idle" /\ busy_worker' = busy_worker
      BY <2>4 DEF OnDemandInv, HandshakeInv
    <2> QED
      BY <1>3, <1>5, <2>1, <2>2, <2>3, <2>4
  <1>7. ThreadInv'
    BY <1>1, <1>2, <1>3, <1>5 DEF OnDemandInv, ThreadInv
  <1>8. DrainInv'
    <2>1. Counting' = Counting
      BY <1>1 DEF Counting
    <2> QED
      BY <1>1, <1>2, <1>3, <1>5, <2>1 DEF OnDemandInv, DrainInv
  <1> QED
    BY <1>4, <1>6, <1>7, <1>8 DEF OnDemandInv

\* worker_run copies the arguments while the launcher stands still, and is counted.
LEMMA PrologKeeps ==
    ASSUME OneLauncher, OnDemandInv, NEW t \in Threads, Prolog(t)
    PROVE  OnDemandInv'
  <1> USE OnDemandAssumption DEF wvars, lvars, tvars
  <1>1. /\ tpc[t] = "created" /\ tpc' = [tpc EXCEPT ![t] = "function"]
        /\ th' = [th EXCEPT ![t] = th_arg[t[1]]]
        /\ busy_worker' = FALSE /\ n_workers' = n_workers + 1
        /\ UNCHANGED <<lpc, th_arg, launched, dpc, executed>>
    BY DEF Prolog, Counted
  <1>2. /\ t[1] \in Launchers /\ t[2] \in 1..MaxLaunches /\ t = <<t[1], t[2]>>
        /\ t[2] = launched[t[1]] /\ lpc[t[1]] = "handshake"
        /\ th_arg[t[1]].id = t[2] /\ th_arg[t[1]] \in Args
    BY <1>1, ThreadParts DEF OnDemandInv, OnDemandType, HandshakeInv, ThreadInv
  <1>3. Launchers = {t[1]}
    BY <1>2 DEF OneLauncher
  <1>4. /\ tpc'[t] = "function" /\ th'[t].id = t[2]
        /\ \A u \in Threads : u # t => tpc'[u] = tpc[u] /\ th'[u] = th[u]
    BY <1>1, <1>2 DEF OnDemandInv, OnDemandType
  <1>5. OnDemandType'
    <2>1. busy_worker' \in BOOLEAN
      BY <1>1
    <2> QED
      BY <1>1, <1>2, <2>1 DEF OnDemandInv, OnDemandType
  <1>6. HandshakeInv'
    <2> SUFFICES ASSUME NEW i \in 1..MaxLaunches
                 PROVE  LET u == <<t[1], i>> IN
                          /\ i > launched[t[1]] => tpc'[u] = "none"
                          /\ tpc'[u] # "created"
                          /\ i = launched[t[1]] => tpc'[u] = "function"
      BY <1>1, <1>2, <1>3 DEF HandshakeInv
    <2>1. <<t[1], i>> \in Threads /\ (<<t[1], i>> = t <=> i = t[2])
      BY <1>2 DEF Threads
    <2> QED
      BY <1>2, <1>4, <2>1 DEF OnDemandInv, HandshakeInv
  <1>7. ThreadInv'
    BY <1>1, <1>2, <1>3, <1>4 DEF OnDemandInv, ThreadInv
  <1>8. DrainInv'
    <2>1. Counting' = Counting \cup {t} /\ t \notin Counting
      BY <1>1, <1>4 DEF Counting
    <2>2. Cardinality(Counting') = Cardinality(Counting) + 1
      BY <2>1, ThreadsFinite, FS_AddElement
    <2> QED
      BY <1>1, <1>2, <2>2 DEF OnDemandInv, DrainInv
  <1> QED
    BY <1>5, <1>6, <1>7, <1>8 DEF OnDemandInv

\* What a thread does by itself: its function, once, the notification, and the epilog.
LEMMA ThreadKeeps ==
    ASSUME OneLauncher, OnDemandInv, NEW t \in Threads, Function(t) \/ Notify(t) \/ Epilog(t)
    PROVE  OnDemandInv'
  <1> USE OnDemandAssumption DEF wvars, lvars, tvars
  <1>0. tpc[t] \in {"function", "notify", "epilog"} /\ th[t].id = t[2] /\ t = <<t[1], t[2]>>
    BY ThreadParts DEF Function, Notify, Epilog, OnDemandInv, ThreadInv
  <1>1. \E p \in {"notify", "epilog", "gone"} :
          /\ tpc' = [tpc EXCEPT ![t] = p]
          /\ executed' = IF tpc[t] = "function" THEN [executed EXCEPT ![t] = executed[t] + 1] ELSE executed
          /\ n_workers' = IF p = "gone" THEN n_workers - 1 ELSE n_workers
    BY <1>0 DEF Function, Notify, Epilog
  <1>2. UNCHANGED <<busy_worker, lpc, th_arg, launched, th, dpc>>
    BY DEF Function, Notify, Epilog
  <1>3. PICK p \in {"notify", "epilog", "gone"} :
          /\ tpc'[t] = p /\ \A u \in Threads : u # t => tpc'[u] = tpc[u] /\ executed'[u] = executed[u]
          /\ executed'[t] = IF tpc[t] = "function" THEN executed[t] + 1 ELSE executed[t]
          /\ n_workers' = IF p = "gone" THEN n_workers - 1 ELSE n_workers
    BY <1>1 DEF OnDemandInv, OnDemandType
  <1>4. OnDemandType'
    <2>1. executed' \in [Threads -> Nat]
      BY <1>1 DEF OnDemandInv, OnDemandType
    <2>2. tpc' \in [Threads -> {"none", "created", "function", "notify", "epilog", "gone"}]
      BY <1>1 DEF OnDemandInv, OnDemandType
    <2> QED
      BY <1>1, <1>2, <2>1, <2>2 DEF OnDemandInv, OnDemandType
  <1>5. HandshakeInv'
    <2> SUFFICES ASSUME NEW l \in Launchers, NEW i \in 1..MaxLaunches
                 PROVE  LET u == <<l, i>> IN
                          /\ (tpc'[u] = "none") <=> (tpc[u] = "none")
                          /\ (tpc'[u] = "created") <=> (tpc[u] = "created")
      BY <1>2 DEF OnDemandInv, HandshakeInv
    <2>1. <<l, i>> \in Threads
      BY DEF Threads
    <2> QED
      BY <1>0, <1>3, <2>1
  <1>6. ThreadInv'
    BY <1>0, <1>2, <1>3 DEF OnDemandInv, ThreadInv
  <1>7. DrainInv'
    <2>0. t \in Counting
      BY <1>0 DEF Counting
    <2>1. CASE p = "gone"
      <3>1. Counting' = Counting \ {t}
        BY <1>3, <2>1 DEF Counting
      <3>2. Cardinality(Counting') = Cardinality(Counting) - 1
        BY <2>0, <3>1, ThreadsFinite, FS_RemoveElement
      <3>3. Cardinality(Counting) # 0
        BY <2>0, ThreadsFinite, FS_EmptySet
      <3> QED
        BY <1>2, <1>3, <2>1, <3>2, <3>3 DEF OnDemandInv, DrainInv
    <2>2. CASE p # "gone"
      <3>1. Counting' = Counting
        BY <1>0, <1>3, <2>2 DEF Counting
      <3> QED
        BY <1>2, <1>3, <2>2, <3>1 DEF OnDemandInv, DrainInv
    <2> QED
      BY <2>1, <2>2
  <1> QED
    BY <1>4, <1>5, <1>6, <1>7 DEF OnDemandInv

LEMMA NextOnDemandInv == OneLauncher /\ OnDemandInv /\ [Next]_vars => OnDemandInv'
  <1> SUFFICES ASSUME OneLauncher, OnDemandInv, [Next]_vars PROVE OnDemandInv'
    OBVIOUS
  <1>1. ASSUME NEW l \in Launchers, LaunchBegins(l) \/ LauncherGoesOn(l) \/ CreateFails(l)
        PROVE  OnDemandInv'
    BY <1>1, LaunchBeginsKeeps, ThreadCreatedKeeps, LauncherKeeps DEF LauncherGoesOn
  <1>2. ASSUME NEW t \in Threads, ThreadNext(t) PROVE OnDemandInv'
    BY <1>2, PrologKeeps, ThreadKeeps DEF ThreadNext
  <1>3. ASSUME \/ DestroyBegins \/ DestroyBlocks \/ DestroyReturns \/ SpuriousWakeup
               \/ UNCHANGED vars
        PROVE  OnDemandInv'
    <2> USE DEF wvars, lvars, tvars
    <2>1. /\ UNCHANGED <<busy_worker, n_workers, lpc, th_arg, launched, tpc, th, executed>>
          /\ \/ dpc' = dpc
             \/ dpc' = "draining" /\ \A l \in Launchers : lpc[l] = "idle"
             \/ dpc = "draining" /\ dpc' = "done" /\ n_workers = 0
      BY <1>3 DEF DestroyBegins, DestroyBlocks, DestroyReturns, SpuriousWakeup, vars
    <2>2. Counting' = Counting
      BY <2>1 DEF Counting
    <2>3. OnDemandType' /\ HandshakeInv' /\ ThreadInv'
      BY <2>1 DEF OnDemandInv, OnDemandType, HandshakeInv, ThreadInv
    <2>4. DrainInv'
      BY <2>1, <2>2 DEF OnDemandInv, DrainInv
    <2> QED
      BY <2>3, <2>4 DEF OnDemandInv
  <1> QED
    BY <1>1, <1>2, <1>3 DEF Next

\* With one launching thread, for every number of launches and of threads still at
\* work: a launch returns only when its own thread has copied the arguments, each
\* function runs at most once and with its own arguments, and destroy returns only
\* when no thread will touch the pool again (workers_ondemand.c:148 and 196).
THEOREM OnDemandLaunchHandsOver ==
    ASSUME OneLauncher
    PROVE  Spec => []LaunchHandsOver
  <1>1. OnDemandInv => LaunchHandsOver
    <2> SUFFICES ASSUME OnDemandInv PROVE LaunchHandsOver
      OBVIOUS
    <2>1. LaunchWaitsForTheCopy
      <3> SUFFICES ASSUME NEW l \in Launchers, lpc[l] \in {"idle", "wait"}, launched[l] > 0
                   PROVE  tpc[<<l, launched[l]>>] \notin {"none", "created"}
        BY DEF LaunchWaitsForTheCopy
      <3>1. launched[l] \in 1..MaxLaunches
        BY OnDemandAssumption DEF OnDemandInv, OnDemandType
      <3> QED
        BY <3>1 DEF OnDemandInv, HandshakeInv
    <2>2. EachLaunchRunsOnce
      BY DEF OnDemandInv, ThreadInv, EachLaunchRunsOnce
    <2>3. NoThreadOutlivesDestroy
      <3> SUFFICES ASSUME dpc = "done", NEW t \in Threads
                   PROVE  tpc[t] \in {"none", "gone"}
        BY DEF NoThreadOutlivesDestroy
      <3>1. Counting = {}
        BY ThreadsFinite, FS_EmptySet DEF OnDemandInv, DrainInv
      <3>2. tpc[t] # "created"
        BY ThreadParts DEF OnDemandInv, HandshakeInv, DrainInv
      <3> QED
        BY <3>1, <3>2 DEF OnDemandInv, OnDemandType, Counting
    <2> QED
      BY <2>1, <2>2, <2>3 DEF LaunchHandsOver
  <1>2. OnDemandInv /\ [Next]_vars => OnDemandInv'
    BY NextOnDemandInv
  <1> QED
    BY <1>1, <1>2, InitOnDemandInv, PTL DEF Spec

=============================================================================
