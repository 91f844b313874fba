-------------------------- MODULE WorkersPoolProofs --------------------------
(***************************************************************************)
(* Proofs about the thread pool, for any number of launchers, workers,     *)
(* slots and launches: type correctness with the content of the ring, the  *)
(* absence of lost wake-ups on both condition variables, waiters that are  *)
(* told of their own operation, and the refinement of TaskQueue.           *)
(***************************************************************************)
EXTENDS WorkersPool, Sequences, FiniteSetTheorems, SequenceTheorems, TLAPS

-----------------------------------------------------------------------------
(* Facts about positions in the ring *)

\* Advancing a position stays inside operations_buffer.
LEMMA NextPosition ==
    ASSUME NEW p \in Slots
    PROVE  (p + 1) % MAX_OPERATIONS \in Slots
  BY PoolAssumption DEF Slots

\* The position of the i-th pending operation, before and after a dequeue.
LEMMA PositionShift ==
    ASSUME NEW p \in Slots, NEW i \in 1..MAX_OPERATIONS
    PROVE  /\ (p + i - 1) % MAX_OPERATIONS \in Slots
           /\ (((p + 1) % MAX_OPERATIONS) + i - 1) % MAX_OPERATIONS
                = (p + i) % MAX_OPERATIONS
  BY PoolAssumption DEF Slots

\* Two pending operations are in different slots.
LEMMA PositionsDistinct ==
    ASSUME NEW p \in Slots, NEW i \in 1..MAX_OPERATIONS,
           NEW j \in 1..MAX_OPERATIONS, i # j
    PROVE  (p + i - 1) % MAX_OPERATIONS # (p + j - 1) % MAX_OPERATIONS
  BY PoolAssumption DEF Slots

-----------------------------------------------------------------------------
(* Type correctness and the content of the ring *)

TypeInv == TypeOK /\ RingInv

LEMMA InitTypeInv == Init => TypeInv
  <1> SUFFICES ASSUME Init PROVE TypeInv
    OBVIOUS
  <1>1. Cardinality(Workers) \in Nat
    BY FS_CardinalityType, PoolAssumption
  <1>2. TypeOK
    <2>1. /\ operations_buffer \in [Slots -> Op \cup {TH_FINALIZE, NoOp}]
          /\ n_operation \in 0..MAX_OPERATIONS
          /\ enq_pos \in Slots /\ deq_pos \in Slots
      BY PoolAssumption DEF Init, Slots
    <2>2. /\ noFull \subseteq Enqueuers /\ noEmpty \subseteq Workers
          /\ wpc \in [Workers -> {"dequeue", "execute", "notify", "exited"}]
          /\ th \in [Workers -> Op \cup {TH_FINALIZE, NoOp}]
          /\ lpc \in [Launchers -> {"idle", "enqueue", "wait"}]
          /\ th_arg \in [Launchers -> Op \cup {NoOp}]
          /\ dpc \in {"running", "enqueue", "join", "done"}
          /\ executed \subseteq Op
      BY DEF Init
    <2>3. /\ launched \in [Launchers -> 0..MaxLaunches]
          /\ finals \in 0..Cardinality(Workers)
      BY <1>1, PoolAssumption DEF Init, FinalizeCount
    <2>4. pool_end \in BOOLEAN /\ r_wait \in [Launchers -> BOOLEAN]
      BY DEF Init
    <2> QED
      BY <2>1, <2>2, <2>3, <2>4 DEF TypeOK
  <1>3. RingInv
    BY PoolAssumption DEF Init, RingInv, Slots
  <1> QED
    BY <1>2, <1>3 DEF TypeInv

\* worker_pool_enqueue appends to the pending operations and moves none.
LEMMA EnqueuePending ==
    ASSUME TypeInv, NEW t \in Enqueuers, NEW op \in Op \cup {TH_FINALIZE},
           EnqueueStores(t, op)
    PROVE  /\ n_operation \in 0..(MAX_OPERATIONS - 1)
           /\ n_operation' = n_operation + 1
           /\ \A i \in 1..n_operation' :
                Pending(i)' = IF i = n_operation + 1 THEN op ELSE Pending(i)
  <1> USE PoolAssumption
  <1>1. /\ n_operation \in 0..(MAX_OPERATIONS - 1)
        /\ n_operation' = n_operation + 1
        /\ deq_pos' = deq_pos /\ deq_pos \in Slots /\ enq_pos \in Slots
        /\ operations_buffer' = [operations_buffer EXCEPT ![enq_pos] = op]
        /\ operations_buffer \in [Slots -> Op \cup {TH_FINALIZE, NoOp}]
    BY DEF EnqueueStores, RingFull, TypeInv, TypeOK
  <1>2. enq_pos = (deq_pos + n_operation) % MAX_OPERATIONS
    BY DEF TypeInv, RingInv
  <1>3. deq_pos + (n_operation + 1) - 1 = deq_pos + n_operation
    BY <1>1 DEF Slots
  <1>4. ASSUME NEW i \in 1..n_operation', i = n_operation + 1
        PROVE  Pending(i)' = op
    BY <1>1, <1>2, <1>3, <1>4 DEF Pending
  <1>5. ASSUME NEW i \in 1..n_operation
        PROVE  Pending(i)' = Pending(i)
    <2>1. /\ i \in 1..MAX_OPERATIONS /\ i # n_operation + 1
          /\ n_operation + 1 \in 1..MAX_OPERATIONS
      BY <1>1
    <2>2. (deq_pos + i - 1) % MAX_OPERATIONS
            # (deq_pos + (n_operation + 1) - 1) % MAX_OPERATIONS
      BY ONLY <2>1, <1>1, PositionsDistinct
    <2>3. (deq_pos + i - 1) % MAX_OPERATIONS \in Slots
      BY <1>1, <2>1, PositionShift
    <2> QED
      BY <1>1, <1>2, <1>3, <2>2, <2>3 DEF Pending
  <1>6. \A i \in 1..n_operation' : i = n_operation + 1 \/ i \in 1..n_operation
    BY <1>1
  <1> QED
    BY <1>1, <1>4, <1>5, <1>6

\* worker_pool_enqueue keeps the ring consistent when it stores an operation.
LEMMA EnqueueKeepsRing ==
    ASSUME TypeInv, NEW t \in Enqueuers, NEW op \in Op \cup {TH_FINALIZE},
           EnqueueStores(t, op)
    PROVE  /\ operations_buffer' \in [Slots -> Op \cup {TH_FINALIZE, NoOp}]
           /\ n_operation' \in 0..MAX_OPERATIONS
           /\ enq_pos' \in Slots /\ deq_pos' \in Slots
           /\ noFull' \subseteq Enqueuers /\ noEmpty' \subseteq Workers
           /\ enq_pos' = (deq_pos' + n_operation') % MAX_OPERATIONS
           /\ \A i \in 1..n_operation' : Pending(i)' \in Op \cup {TH_FINALIZE}
  <1> USE PoolAssumption
  <1>1. /\ operations_buffer' \in [Slots -> Op \cup {TH_FINALIZE, NoOp}]
        /\ n_operation \in 0..(MAX_OPERATIONS - 1)
        /\ n_operation' = n_operation + 1
        /\ deq_pos' = deq_pos /\ deq_pos \in Slots /\ enq_pos \in Slots
    BY DEF EnqueueStores, RingFull, TypeInv, TypeOK
  <1>2. noFull' \subseteq Enqueuers /\ noEmpty' \subseteq Workers
    BY DEF EnqueueStores, SignalNoEmpty, TypeInv, TypeOK
  <1>3. enq_pos' \in Slots
    BY NextPosition, <1>1 DEF EnqueueStores
  <1>4. enq_pos = (deq_pos + n_operation) % MAX_OPERATIONS
    BY DEF TypeInv, RingInv
  <1>5. enq_pos' = (deq_pos' + n_operation') % MAX_OPERATIONS
    <2>1. enq_pos' = (enq_pos + 1) % MAX_OPERATIONS
      BY DEF EnqueueStores
    <2> QED
      BY <1>1, <1>4, <2>1 DEF Slots
  <1>6. ASSUME NEW i \in 1..n_operation'
        PROVE  Pending(i)' \in Op \cup {TH_FINALIZE}
    <2>1. i = n_operation + 1 \/ i \in 1..n_operation
      BY <1>1
    <2>2. Pending(i)' = IF i = n_operation + 1 THEN op ELSE Pending(i)
      BY EnqueuePending
    <2> QED
      BY <2>1, <2>2 DEF TypeInv, RingInv
  <1> QED
    BY <1>1, <1>2, <1>3, <1>5, <1>6

\* worker_pool_dequeue takes the oldest pending operation; the others move up.
LEMMA DequeuePending ==
    ASSUME TypeInv, NEW w \in Workers, DequeueTakes(w)
    PROVE  /\ n_operation \in 1..MAX_OPERATIONS
           /\ n_operation' = n_operation - 1
           /\ TakenOp = Pending(1)
           /\ \A i \in 1..n_operation' : Pending(i)' = Pending(i + 1)
  <1> USE PoolAssumption
  <1>1. /\ n_operation \in 1..MAX_OPERATIONS /\ n_operation' = n_operation - 1
        /\ deq_pos \in Slots
        /\ deq_pos' = (deq_pos + 1) % MAX_OPERATIONS
        /\ operations_buffer' = operations_buffer
    BY DEF DequeueTakes, TypeInv, TypeOK
  <1>2. TakenOp = Pending(1)
    <2>1. (deq_pos + 1 - 1) % MAX_OPERATIONS = deq_pos
      BY <1>1 DEF Slots
    <2> QED
      BY <2>1 DEF Pending, TakenOp
  <1>3. ASSUME NEW i \in 1..n_operation'
        PROVE  Pending(i)' = Pending(i + 1)
    <2>1. i \in 1..MAX_OPERATIONS
      BY <1>1
    <2>2. (deq_pos' + i - 1) % MAX_OPERATIONS = (deq_pos + i) % MAX_OPERATIONS
      BY <1>1, <2>1, PositionShift
    <2>3. deq_pos + i = deq_pos + (i + 1) - 1
      BY <1>1, <2>1 DEF Slots
    <2> QED
      BY <1>1, <2>2, <2>3 DEF Pending
  <1> QED
    BY <1>1, <1>2, <1>3

\* worker_pool_dequeue keeps the ring consistent when it takes an operation.
LEMMA DequeueKeepsRing ==
    ASSUME TypeInv, NEW w \in Workers, DequeueTakes(w)
    PROVE  /\ n_operation' \in 0..MAX_OPERATIONS
           /\ deq_pos' \in Slots /\ TakenOp \in Op \cup {TH_FINALIZE}
           /\ enq_pos' = (deq_pos' + n_operation') % MAX_OPERATIONS
           /\ \A i \in 1..n_operation' : Pending(i)' \in Op \cup {TH_FINALIZE}
  <1> USE PoolAssumption
  <1>1. /\ n_operation \in 1..MAX_OPERATIONS /\ n_operation' = n_operation - 1
        /\ deq_pos \in Slots /\ enq_pos' = enq_pos
        /\ deq_pos' = (deq_pos + 1) % MAX_OPERATIONS
        /\ operations_buffer' = operations_buffer
    BY DEF DequeueTakes, TypeInv, TypeOK
  <1>2. deq_pos' \in Slots
    BY <1>1, NextPosition
  <1>3. TakenOp \in Op \cup {TH_FINALIZE}
    BY <1>1, DequeuePending DEF TypeInv, RingInv
  <1>4. enq_pos' = (deq_pos' + n_operation') % MAX_OPERATIONS
    <2>1. enq_pos = (deq_pos + n_operation) % MAX_OPERATIONS
      BY DEF TypeInv, RingInv
    <2>2. (deq_pos' + n_operation - 1) % MAX_OPERATIONS
            = (deq_pos + n_operation) % MAX_OPERATIONS
      BY <1>1, PositionShift
    <2>3. deq_pos' + n_operation' = deq_pos' + n_operation - 1
      BY <1>1, <1>2 DEF Slots
    <2> QED
      BY <1>1, <2>1, <2>2, <2>3
  <1>5. ASSUME NEW i \in 1..n_operation'
        PROVE  Pending(i)' \in Op \cup {TH_FINALIZE}
    <2>1. i + 1 \in 1..n_operation
      BY <1>1
    <2> QED
      BY <2>1, DequeuePending DEF TypeInv, RingInv
  <1> QED
    BY <1>1, <1>2, <1>3, <1>4, <1>5

LEMMA NextTypeInv == TypeInv /\ [Next]_vars => TypeInv'
  <1> SUFFICES ASSUME TypeInv, [Next]_vars PROVE TypeInv'
    OBVIOUS
  <1> USE PoolAssumption DEF ring, wvars, lvars, dvars
  <1>1. ASSUME NEW l \in Launchers, Launch(l) PROVE TypeInv'
    <2>1. \E b \in BOOLEAN : th_arg' = [th_arg EXCEPT ![l] =
                 [owner |-> l, id |-> launched[l] + 1, wait4me |-> b]]
      BY <1>1 DEF Launch
    <2>2. launched[l] + 1 \in 1..MaxLaunches
      BY <1>1 DEF Launch, TypeInv, TypeOK
    <2>3. /\ th_arg' \in [Launchers -> Op \cup {NoOp}]
          /\ th_arg'[l] \in Op /\ \A k \in Launchers \ {l} : th_arg'[k] = th_arg[k]
      BY <2>1, <2>2 DEF TypeInv, TypeOK, Op
    <2>4. r_wait' \in [Launchers -> BOOLEAN]
      BY <1>1 DEF Launch, TypeInv, TypeOK
    <2>5. /\ launched' \in [Launchers -> 0..MaxLaunches]
          /\ lpc' \in [Launchers -> {"idle", "enqueue", "wait"}]
          /\ \A k \in Launchers \ {l} : lpc'[k] = lpc[k]
      BY <1>1, <2>2 DEF Launch, TypeInv, TypeOK
    <2>6. TypeOK'
      BY <1>1, <2>3, <2>4, <2>5 DEF Launch, TypeInv, TypeOK
    <2>7. RingInv'
      BY <1>1, <2>3, <2>5 DEF Launch, TypeInv, RingInv, Pending
    <2> QED
      BY <2>6, <2>7 DEF TypeInv
  <1>2. ASSUME NEW l \in Launchers, LaunchBlocks(l) PROVE TypeInv'
    BY <1>2 DEF LaunchBlocks, EnqueueBlocks, Enqueuers, TypeInv, TypeOK, RingInv, Pending
  <1>3. ASSUME NEW l \in Launchers, LaunchStores(l) PROVE TypeInv'
    <2>1. l \in Enqueuers /\ th_arg[l] \in Op \cup {TH_FINALIZE}
          /\ EnqueueStores(l, th_arg[l])
      BY <1>3 DEF LaunchStores, TypeInv, RingInv, Enqueuers
    <2>2. lpc' \in [Launchers -> {"idle", "enqueue", "wait"}]
          /\ \A k \in Launchers : lpc'[k] # "idle" => lpc[k] # "idle"
      BY <1>3 DEF LaunchStores, AfterLaunch, TypeInv, TypeOK
    <2> QED
      BY <1>3, <2>1, <2>2, EnqueueKeepsRing DEF LaunchStores, TypeInv, TypeOK, RingInv
  <1>4. ASSUME NEW l \in Launchers, WaitReturns(l) PROVE TypeInv'
    <2>1. r_wait' \in [Launchers -> BOOLEAN]
      BY <1>4 DEF WaitReturns, TypeInv, TypeOK
    <2> QED
      BY <1>4, <2>1 DEF WaitReturns, TypeInv, TypeOK, RingInv, Pending
  <1>5. ASSUME NEW w \in Workers, DequeueBlocks(w) PROVE TypeInv'
    BY <1>5 DEF DequeueBlocks, TypeInv, TypeOK, RingInv, Pending
  <1>6. ASSUME NEW w \in Workers, DequeueTakes(w) PROVE TypeInv'
    <2>1. noFull' \subseteq Enqueuers
      BY <1>6 DEF DequeueTakes, SignalNoFull, TypeInv, TypeOK
    <2>2. TakenOp \in Op \cup {TH_FINALIZE}
      BY <1>6, DequeueKeepsRing
    <2>3. /\ th' \in [Workers -> Op \cup {TH_FINALIZE, NoOp}]
          /\ wpc' \in [Workers -> {"dequeue", "execute", "notify", "exited"}]
          /\ \A v \in Workers : wpc'[v] \in {"execute", "notify"} => th'[v] \in Op
      BY <1>6, <2>2 DEF DequeueTakes, TypeInv, TypeOK, RingInv
    <2> QED
      BY <1>6, <2>1, <2>3, DequeueKeepsRing DEF DequeueTakes, TypeInv, TypeOK, RingInv
  <1>7. ASSUME NEW w \in Workers, Execute(w) PROVE TypeInv'
    <2>1. th[w] \in Op
      BY <1>7 DEF Execute, TypeInv, RingInv
    <2> QED
      BY <1>7, <2>1 DEF Execute, TypeInv, TypeOK, RingInv, Pending
  <1>8. ASSUME NEW w \in Workers, Notify(w) PROVE TypeInv'
    <2>1. r_wait' \in [Launchers -> BOOLEAN]
      BY <1>8 DEF Notify, TypeInv, TypeOK
    <2> QED
      BY <1>8, <2>1 DEF Notify, TypeInv, TypeOK, RingInv, Pending
  <1>9. CASE DestroyBegins
    BY <1>9 DEF DestroyBegins, TypeInv, TypeOK, RingInv, Pending
  <1>10. CASE DestroyBlocks
    BY <1>10 DEF DestroyBlocks, EnqueueBlocks, Enqueuers, TypeInv, TypeOK, RingInv, Pending
  <1>11. CASE DestroyStores
    <2>1. Destroyer \in Enqueuers /\ EnqueueStores(Destroyer, TH_FINALIZE)
      BY <1>11 DEF DestroyStores, Enqueuers
    <2>2. finals' \in 0..Cardinality(Workers)
      <3>1. Cardinality(Workers) \in Nat
        BY FS_CardinalityType
      <3> QED
        BY <1>11, <3>1 DEF DestroyStores, TypeInv, TypeOK
    <2> QED
      BY <1>11, <2>1, <2>2, EnqueueKeepsRing DEF DestroyStores, TypeInv, TypeOK, RingInv
  <1>12. CASE DestroyBroadcasts
    BY <1>12 DEF DestroyBroadcasts, TypeInv, TypeOK, RingInv, Pending
  <1>13. CASE DestroyJoins
    BY <1>13 DEF DestroyJoins, TypeInv, TypeOK, RingInv, Pending
  <1>14. CASE SpuriousWakeup
    BY <1>14 DEF SpuriousWakeup, TypeInv, TypeOK, RingInv, Pending
  <1>15. CASE UNCHANGED vars
    BY <1>15 DEF vars, TypeInv, TypeOK, RingInv, Pending
  <1> QED
    BY <1>1, <1>2, <1>3, <1>4, <1>5, <1>6, <1>7, <1>8, <1>9, <1>10, <1>11,
       <1>12, <1>13, <1>14, <1>15
       DEF Next, LauncherNext, WorkerNext, DestroyNext

\* The types of the pool's state, the counters of the ring included, for every
\* number of threads, slots and launches (workers_pool.c:118-200).
THEOREM PoolTypeCorrect == Spec => []TypeOK
  <1>1. TypeInv => TypeOK
    BY DEF TypeInv
  <1> QED
    BY <1>1, InitTypeInv, NextTypeInv, PTL DEF Spec

\* The ring's positions and contents agree with its counter in every state.
THEOREM PoolRingConsistent == Spec => []RingInv
  <1>1. TypeInv => RingInv
    BY DEF TypeInv
  <1> QED
    BY <1>1, InitTypeInv, NextTypeInv, PTL DEF Spec

-----------------------------------------------------------------------------
(* No lost wake-ups *)

LEMMA FinalizeIsNoOp == TH_FINALIZE \notin Op
  <1> SUFFICES ASSUME TH_FINALIZE \in Op PROVE FALSE
    OBVIOUS
  <1>1. DOMAIN TH_FINALIZE = {"owner", "id", "wait4me"}
    BY DEF Op
  <1>2. DOMAIN TH_FINALIZE = {"type_op"}
    BY DEF TH_FINALIZE
  <1>3. "owner" # "type_op"
    OBVIOUS
  <1> QED
    BY <1>1, <1>2, <1>3

PoolInv == TypeInv /\ WaitInv /\ WorkersNotStranded /\ LaunchersNotStranded

LEMMA InitPoolInv == Init => PoolInv
  BY InitTypeInv DEF Init, PoolInv, WaitInv, WorkersNotStranded, LaunchersNotStranded

LEMMA NextWaitInv == TypeInv /\ WaitInv /\ [Next]_vars => WaitInv'
  <1> SUFFICES ASSUME TypeInv, WaitInv, [Next]_vars PROVE WaitInv'
    OBVIOUS
  <1> USE PoolAssumption DEF ring, wvars, lvars, dvars, Pending
  <1>1. ASSUME NEW l \in Launchers, Launch(l) PROVE WaitInv'
    BY <1>1 DEF Launch, TypeInv, TypeOK, WaitInv, Enqueuers
  <1>2. ASSUME NEW l \in Launchers, LaunchBlocks(l) PROVE WaitInv'
    BY <1>2 DEF LaunchBlocks, EnqueueBlocks, WaitInv
  <1>3. ASSUME NEW l \in Launchers, LaunchStores(l) PROVE WaitInv'
    <2>1. l \in Enqueuers /\ th_arg[l] \in Op /\ EnqueueStores(l, th_arg[l])
      BY <1>3 DEF LaunchStores, TypeInv, RingInv, Enqueuers
    <2>2. ~pool_end' => \A i \in 1..n_operation' : Pending(i)' # TH_FINALIZE
      <3> SUFFICES ASSUME ~pool_end', NEW i \in 1..n_operation'
                   PROVE  Pending(i)' # TH_FINALIZE
        OBVIOUS
      <3>1. ~pool_end
        BY <1>3 DEF LaunchStores
      <3>2. i = n_operation + 1 \/ i \in 1..n_operation
        BY <2>1, EnqueuePending
      <3>3. CASE i = n_operation + 1
        BY <2>1, <3>3, EnqueuePending, FinalizeIsNoOp DEF LaunchStores
      <3>4. CASE i \in 1..n_operation
        BY <2>1, <3>1, <3>4, EnqueuePending DEF WaitInv
      <3> QED
        BY <3>2, <3>3, <3>4
    <2> QED
      BY <1>3, <2>1, <2>2
         DEF LaunchStores, EnqueueStores, SignalNoEmpty, TypeInv, TypeOK, WaitInv, Enqueuers
  <1>4. ASSUME NEW l \in Launchers, WaitReturns(l) PROVE WaitInv'
    BY <1>4 DEF WaitReturns, TypeInv, TypeOK, WaitInv, Enqueuers
  <1>5. ASSUME NEW w \in Workers, DequeueBlocks(w) PROVE WaitInv'
    BY <1>5 DEF DequeueBlocks, WaitInv
  <1>6. ASSUME NEW w \in Workers, DequeueTakes(w) PROVE WaitInv'
    <2>1. ~pool_end' => \A i \in 1..n_operation' : Pending(i)' # TH_FINALIZE
      <3> SUFFICES ASSUME ~pool_end', NEW i \in 1..n_operation'
                   PROVE  Pending(i)' # TH_FINALIZE
        OBVIOUS
      <3>1. ~pool_end
        BY <1>6 DEF DequeueTakes
      <3>2. i + 1 \in 1..n_operation
        BY <1>6, DequeuePending
      <3> QED
        BY <1>6, <3>1, <3>2, DequeuePending DEF WaitInv
    <2> QED
      BY <1>6, <2>1 DEF DequeueTakes, SignalNoFull, TypeInv, TypeOK, WaitInv
  <1>7. ASSUME NEW w \in Workers, Execute(w) PROVE WaitInv'
    BY <1>7 DEF Execute, TypeInv, TypeOK, WaitInv
  <1>8. ASSUME NEW w \in Workers, Notify(w) PROVE WaitInv'
    BY <1>8 DEF Notify, TypeInv, TypeOK, WaitInv
  <1>9. CASE DestroyNext
    BY <1>9 DEF DestroyNext, DestroyBegins, DestroyBlocks, DestroyStores, DestroyBroadcasts,
                DestroyJoins, EnqueueBlocks, EnqueueStores, SignalNoEmpty, WaitInv
  <1>10. CASE SpuriousWakeup
    BY <1>10 DEF SpuriousWakeup, WaitInv
  <1>11. CASE UNCHANGED vars
    BY <1>11 DEF vars, WaitInv
  <1> QED
    BY <1>1, <1>2, <1>3, <1>4, <1>5, <1>6, <1>7, <1>8, <1>9, <1>10, <1>11
       DEF Next, LauncherNext, WorkerNext

\* A signal leaves no worker asleep, or one more is awake.
LEMMA SignalWakesWorker ==
    ASSUME TypeInv, WaitInv, SignalNoEmpty, wpc' = wpc
    PROVE  \/ noEmpty' = {}
           \/ Cardinality(AwakeWorkers') = Cardinality(AwakeWorkers) + 1
  <1>1. CASE noEmpty = {}
    BY <1>1 DEF SignalNoEmpty
  <1>2. CASE noEmpty # {}
    <2>1. PICK w \in noEmpty : noEmpty' = noEmpty \ {w}
      BY <1>2 DEF SignalNoEmpty
    <2>2. w \in Workers /\ wpc[w] = "dequeue" /\ w \notin AwakeWorkers
      BY DEF TypeInv, TypeOK, WaitInv, AwakeWorkers
    <2>3. AwakeWorkers' = AwakeWorkers \cup {w}
      BY <2>1, <2>2 DEF AwakeWorkers
    <2>4. IsFiniteSet(AwakeWorkers)
      BY PoolAssumption, FS_Subset DEF AwakeWorkers
    <2> QED
      BY <2>2, <2>3, <2>4, FS_AddElement
  <1> QED
    BY <1>1, <1>2

\* While the pool runs, a signal leaves no launcher asleep, or one more is awake.
LEMMA SignalWakesLauncher ==
    ASSUME TypeInv, WaitInv, SignalNoFull, lpc' = lpc, ~pool_end
    PROVE  \/ noFull' = {}
           \/ Cardinality(AwakeLaunchers') = Cardinality(AwakeLaunchers) + 1
  <1>1. CASE noFull = {}
    BY <1>1 DEF SignalNoFull
  <1>2. CASE noFull # {}
    <2>1. PICK l \in noFull : noFull' = noFull \ {l}
      BY <1>2 DEF SignalNoFull
    <2>2. l \in Launchers /\ lpc[l] = "enqueue" /\ l \notin AwakeLaunchers
      BY DEF TypeInv, TypeOK, WaitInv, AwakeLaunchers, Enqueuers
    <2>3. AwakeLaunchers' = AwakeLaunchers \cup {l}
      BY <2>1, <2>2 DEF AwakeLaunchers
    <2>4. IsFiniteSet(AwakeLaunchers)
      BY PoolAssumption, FS_Subset DEF AwakeLaunchers
    <2> QED
      BY <2>2, <2>3, <2>4, FS_AddElement
  <1> QED
    BY <1>1, <1>2

LEMMA NextWorkersNotStranded ==
    TypeInv /\ WaitInv /\ WorkersNotStranded /\ [Next]_vars => WorkersNotStranded'
  <1> SUFFICES ASSUME TypeInv, WaitInv, WorkersNotStranded, [Next]_vars, noEmpty' # {}
               PROVE  n_operation' <= Cardinality(AwakeWorkers')
    BY DEF WorkersNotStranded
  <1> USE DEF ring, wvars, lvars, dvars
  <1>0. /\ IsFiniteSet(AwakeWorkers) /\ Cardinality(AwakeWorkers) \in Nat
        /\ IsFiniteSet(AwakeWorkers') /\ Cardinality(AwakeWorkers') \in Nat
        /\ n_operation \in Nat
    BY PoolAssumption, FS_Subset, FS_CardinalityType DEF AwakeWorkers, TypeInv, TypeOK
  <1>1. ASSUME n_operation' = n_operation, AwakeWorkers \subseteq AwakeWorkers', noEmpty # {}
        PROVE  n_operation' <= Cardinality(AwakeWorkers')
    BY <1>0, <1>1, FS_Subset DEF WorkersNotStranded
  <1>2. ASSUME NEW l \in Launchers, LauncherNext(l)
        PROVE  n_operation' <= Cardinality(AwakeWorkers')
    <2>1. CASE Launch(l) \/ LaunchBlocks(l) \/ WaitReturns(l)
      BY <1>1, <2>1 DEF Launch, LaunchBlocks, EnqueueBlocks, WaitReturns, AwakeWorkers
    <2>2. CASE LaunchStores(l)
      <3>1. n_operation' = n_operation + 1 /\ SignalNoEmpty /\ wpc' = wpc /\ noEmpty # {}
        BY <2>2 DEF LaunchStores, EnqueueStores, SignalNoEmpty
      <3> QED
        BY <1>0, <3>1, SignalWakesWorker DEF WorkersNotStranded
    <2> QED
      BY <1>2, <2>1, <2>2 DEF LauncherNext
  <1>3. ASSUME NEW w \in Workers, DequeueBlocks(w)
        PROVE  n_operation' <= Cardinality(AwakeWorkers')
    BY <1>0, <1>3 DEF DequeueBlocks
  <1>4. ASSUME NEW w \in Workers, DequeueTakes(w)
        PROVE  n_operation' <= Cardinality(AwakeWorkers')
    <2>1. /\ w \in AwakeWorkers /\ AwakeWorkers' = AwakeWorkers \ {w}
          /\ n_operation' = n_operation - 1 /\ noEmpty' = noEmpty
      BY <1>4 DEF DequeueTakes, AwakeWorkers, TypeInv, TypeOK
    <2>2. Cardinality(AwakeWorkers') = Cardinality(AwakeWorkers) - 1
      BY <1>0, <2>1, FS_RemoveElement
    <2> QED
      BY <1>0, <2>1, <2>2 DEF WorkersNotStranded
  <1>5. ASSUME NEW w \in Workers, Execute(w) \/ Notify(w)
        PROVE  n_operation' <= Cardinality(AwakeWorkers')
    BY <1>1, <1>5 DEF Execute, Notify, AwakeWorkers, TypeInv, TypeOK
  <1>6. CASE DestroyNext
    <2>1. CASE DestroyBegins \/ DestroyBlocks \/ DestroyJoins
      BY <1>1, <2>1 DEF DestroyBegins, DestroyBlocks, EnqueueBlocks, DestroyJoins, AwakeWorkers
    <2>2. CASE DestroyStores
      <3>1. n_operation' = n_operation + 1 /\ SignalNoEmpty /\ wpc' = wpc /\ noEmpty # {}
        BY <2>2 DEF DestroyStores, EnqueueStores, SignalNoEmpty
      <3> QED
        BY <1>0, <3>1, SignalWakesWorker DEF WorkersNotStranded
    <2>3. CASE DestroyBroadcasts
      BY <2>3 DEF DestroyBroadcasts
    <2> QED
      BY <1>6, <2>1, <2>2, <2>3 DEF DestroyNext
  <1>7. CASE SpuriousWakeup
    BY <1>1, <1>7 DEF SpuriousWakeup, AwakeWorkers
  <1>8. CASE UNCHANGED vars
    BY <1>1, <1>8 DEF vars, AwakeWorkers
  <1> QED
    BY <1>2, <1>3, <1>4, <1>5, <1>6, <1>7, <1>8 DEF Next, WorkerNext

LEMMA NextLaunchersNotStranded ==
    TypeInv /\ WaitInv /\ LaunchersNotStranded /\ [Next]_vars => LaunchersNotStranded'
  <1> SUFFICES ASSUME TypeInv, WaitInv, LaunchersNotStranded, [Next]_vars,
                      ~pool_end', noFull' # {}
               PROVE  MAX_OPERATIONS - n_operation' <= Cardinality(AwakeLaunchers')
    BY DEF LaunchersNotStranded
  <1> USE DEF ring, wvars, lvars, dvars
  <1>0. /\ IsFiniteSet(AwakeLaunchers) /\ Cardinality(AwakeLaunchers) \in Nat
        /\ IsFiniteSet(AwakeLaunchers') /\ Cardinality(AwakeLaunchers') \in Nat
        /\ n_operation \in Nat /\ MAX_OPERATIONS \in Nat
    BY PoolAssumption, FS_Subset, FS_CardinalityType DEF AwakeLaunchers, TypeInv, TypeOK
  <1>1. ASSUME ~pool_end, n_operation' = n_operation, noFull # {},
               AwakeLaunchers \subseteq AwakeLaunchers'
        PROVE  MAX_OPERATIONS - n_operation' <= Cardinality(AwakeLaunchers')
    BY <1>0, <1>1, FS_Subset DEF LaunchersNotStranded
  <1>2. ASSUME NEW l \in Launchers, LauncherNext(l)
        PROVE  MAX_OPERATIONS - n_operation' <= Cardinality(AwakeLaunchers')
    <2>1. CASE Launch(l) \/ WaitReturns(l)
      <3>1. ~pool_end /\ n_operation' = n_operation /\ noFull # {}
        BY <2>1 DEF Launch, WaitReturns
      <3>2. AwakeLaunchers \subseteq AwakeLaunchers'
        BY <2>1 DEF Launch, WaitReturns, AwakeLaunchers, TypeInv, TypeOK
      <3> QED
        BY <1>1, <3>1, <3>2
    <2>2. CASE LaunchBlocks(l)
      BY <1>0, <2>2 DEF LaunchBlocks, EnqueueBlocks, RingFull
    <2>3. CASE LaunchStores(l)
      <3>1. /\ l \in AwakeLaunchers /\ AwakeLaunchers' = AwakeLaunchers \ {l}
            /\ n_operation' = n_operation + 1 /\ noFull' = noFull
        BY <2>3 DEF LaunchStores, EnqueueStores, AfterLaunch, AwakeLaunchers, TypeInv, TypeOK
      <3>2. ~pool_end
        BY <2>3 DEF LaunchStores
      <3>3. Cardinality(AwakeLaunchers') = Cardinality(AwakeLaunchers) - 1
        BY <1>0, <3>1, FS_RemoveElement
      <3> QED
        BY <1>0, <3>1, <3>2, <3>3 DEF LaunchersNotStranded
    <2> QED
      BY <1>2, <2>1, <2>2, <2>3 DEF LauncherNext
  <1>3. ASSUME NEW w \in Workers, DequeueBlocks(w) \/ Execute(w) \/ Notify(w)
        PROVE  MAX_OPERATIONS - n_operation' <= Cardinality(AwakeLaunchers')
    <2>1. /\ n_operation' = n_operation /\ noFull # {}
          /\ AwakeLaunchers \subseteq AwakeLaunchers'
      BY <1>3 DEF DequeueBlocks, Execute, Notify, AwakeLaunchers
    <2>2. ~pool_end
      BY <1>3 DEF DequeueBlocks, Execute, Notify
    <2> QED
      BY <1>1, <2>1, <2>2
  <1>4. ASSUME NEW w \in Workers, DequeueTakes(w)
        PROVE  MAX_OPERATIONS - n_operation' <= Cardinality(AwakeLaunchers')
    <2>1. ~pool_end
      BY <1>4 DEF DequeueTakes
    <2>2. TakenOp # TH_FINALIZE
      BY <1>4, <2>1, DequeuePending DEF WaitInv
    <2>3. SignalNoFull /\ lpc' = lpc /\ n_operation' = n_operation - 1
      BY <1>4, <2>1, <2>2 DEF DequeueTakes
    <2>4. noFull # {}
      BY <2>3 DEF SignalNoFull
    <2>5. Cardinality(AwakeLaunchers') = Cardinality(AwakeLaunchers) + 1
      BY <2>1, <2>3, SignalWakesLauncher
    <2> QED
      BY <1>0, <2>1, <2>3, <2>4, <2>5 DEF LaunchersNotStranded
  <1>5. CASE DestroyNext
    BY <1>5 DEF DestroyNext, DestroyBegins, DestroyBlocks, DestroyStores,
                DestroyBroadcasts, DestroyJoins, WaitInv
  <1>6. CASE SpuriousWakeup
    <2>1. ~pool_end
      BY <1>6 DEF SpuriousWakeup
    <2> QED
      BY <1>1, <1>6, <2>1 DEF SpuriousWakeup, AwakeLaunchers
  <1>7. CASE UNCHANGED vars
    <2>1. ~pool_end
      BY <1>7 DEF vars
    <2> QED
      BY <1>1, <1>7, <2>1 DEF vars, AwakeLaunchers
  <1> QED
    BY <1>2, <1>3, <1>4, <1>5, <1>6, <1>7 DEF Next, WorkerNext

LEMMA NextPoolInv == PoolInv /\ [Next]_vars => PoolInv'
  BY NextTypeInv, NextWaitInv, NextWorkersNotStranded, NextLaunchersNotStranded
     DEF PoolInv

\* No worker sleeps on c_poll_no_empty while operations wait for one, for every
\* number of workers and slots: the single signal of each launch is enough.
THEOREM PoolWorkersNotStranded == Spec => []WorkersNotStranded
  <1>1. PoolInv => WorkersNotStranded
    BY DEF PoolInv
  <1> QED
    BY <1>1, InitPoolInv, NextPoolInv, PTL DEF Spec

\* Until the pool ends, no launcher sleeps on c_pool_no_full while a slot is
\* free that nobody is coming for.
THEOREM PoolLaunchersNotStranded == Spec => []LaunchersNotStranded
  <1>1. PoolInv => LaunchersNotStranded
    BY DEF PoolInv
  <1> QED
    BY <1>1, InitPoolInv, NextPoolInv, PTL DEF Spec

-----------------------------------------------------------------------------
(* Where an operation is, and who waits for it *)

\* An operation that worker_pool_enqueue has stored: its launcher has gone on.
Stored(op) ==
    /\ op.id <= launched[op.owner]
    /\ lpc[op.owner] = "enqueue" => op.id < launched[op.owner]

\* The launcher of an operation that has not ended waits, if it has to.
Awaited(op) ==
    op.wait4me => /\ th_arg[op.owner] = op /\ lpc[op.owner] = "wait"
                  /\ r_wait[op.owner] = TRUE

Held(w) == wpc[w] \in {"execute", "notify"}

\* What the launchers are about to store, or wait for.
LauncherInv ==
    /\ \A l \in Launchers : lpc[l] # "idle" => th_arg[l].owner = l /\ th_arg[l].id = launched[l]
    /\ \A l \in Launchers : lpc[l] = "enqueue" => r_wait[l] = TRUE
    /\ \A l \in Launchers : lpc[l] = "wait" /\ r_wait[l] = FALSE => th_arg[l] \in executed
    /\ pool_end => \A l \in Launchers : lpc[l] = "idle"

\* What is known of the operations in the ring, held by a worker, executed or discarded.
PlaceInv ==
    /\ \A i \in 1..n_operation : Pending(i) \in Op =>
         Stored(Pending(i)) /\ Awaited(Pending(i)) /\ Pending(i) \notin executed
    /\ \A w \in Workers : Held(w) => Stored(th[w]) /\ Awaited(th[w])
    /\ \A op \in executed : Stored(op)
    /\ \A w \in Workers : wpc[w] = "exited" /\ th[w] # TH_FINALIZE =>
         th[w] \in Op /\ Stored(th[w]) /\ ~th[w].wait4me

\* An operation is in one place only: two critical sections of different threads
\* never give the same slot to two workers, and no operation runs twice.
OnceInv ==
    /\ \A i, j \in 1..n_operation : i # j /\ Pending(i) \in Op => Pending(i) # Pending(j)
    /\ \A i \in 1..n_operation, w \in Workers : Held(w) => Pending(i) # th[w]
    /\ \A v, w \in Workers : v # w /\ Held(v) /\ Held(w) => th[v] # th[w]
    /\ \A w \in Workers : wpc[w] = "execute" => th[w] \notin executed
    /\ \A w \in Workers : wpc[w] = "notify" => th[w] \in executed /\ th[w].wait4me

ServiceInv == TypeInv /\ WaitInv /\ LauncherInv /\ PlaceInv /\ OnceInv

LEMMA InitServiceInv == Init => ServiceInv
  <1> SUFFICES ASSUME Init PROVE ServiceInv
    OBVIOUS
  <1>1. TypeInv /\ WaitInv
    BY InitPoolInv DEF PoolInv
  <1>2. LauncherInv /\ PlaceInv /\ OnceInv
    BY DEF Init, LauncherInv, PlaceInv, OnceInv, Held
  <1> QED
    BY <1>1, <1>2 DEF ServiceInv

\* The steps that only put threads to sleep or wake them, and those of destroy
\* after its first, leave every operation where it is.
LEMMA NothingMoves ==
    ASSUME ServiceInv,
           UNCHANGED <<ring, wvars, lvars, executed>>,
           pool_end' = pool_end \/ \A l \in Launchers : lpc[l] = "idle"
    PROVE  LauncherInv' /\ PlaceInv' /\ OnceInv'
  <1>1. \A i : Pending(i)' = Pending(i)
    BY DEF ring, Pending
  <1>2. n_operation' = n_operation
    BY DEF ring
  <1>3. LauncherInv'
    BY DEF lvars, ServiceInv, LauncherInv
  <1>4. PlaceInv'
    BY <1>1, <1>2 DEF lvars, wvars, ServiceInv, PlaceInv, Held, Stored, Awaited
  <1>5. OnceInv'
    BY <1>1, <1>2 DEF lvars, wvars, ServiceInv, OnceInv, Held
  <1> QED
    BY <1>3, <1>4, <1>5

\* The fields of an operation.
LEMMA OpFields ==
    ASSUME NEW op \in Op
    PROVE  op.owner \in Launchers /\ op.id \in 1..MaxLaunches /\ op.wait4me \in BOOLEAN
  BY DEF Op

\* A launcher that begins a launch takes no operation that is under way from its place.
LEMMA LaunchServes ==
    ASSUME ServiceInv, NEW l \in Launchers, Launch(l)
    PROVE  LauncherInv' /\ PlaceInv' /\ OnceInv'
  <1> USE DEF ring, wvars, lvars, dvars
  <1>0. PICK b \in BOOLEAN : th_arg' = [th_arg EXCEPT ![l] =
                 [owner |-> l, id |-> launched[l] + 1, wait4me |-> b]]
    BY DEF Launch
  <1>1. /\ launched \in [Launchers -> 0..MaxLaunches] /\ MaxLaunches \in Nat
        /\ th_arg \in [Launchers -> Op \cup {NoOp}]
        /\ lpc \in [Launchers -> {"idle", "enqueue", "wait"}]
        /\ r_wait \in [Launchers -> BOOLEAN] /\ executed \subseteq Op
        /\ \A w \in Workers : Held(w) => th[w] \in Op
    BY PoolAssumption DEF ServiceInv, TypeInv, TypeOK, RingInv, Held
  <1>2. /\ lpc[l] = "idle" /\ lpc' = [lpc EXCEPT ![l] = "enqueue"]
        /\ launched' = [launched EXCEPT ![l] = launched[l] + 1]
        /\ r_wait' = [r_wait EXCEPT ![l] = TRUE]
        /\ executed' = executed /\ wpc' = wpc /\ th' = th
        /\ n_operation' = n_operation /\ \A i : Pending(i)' = Pending(i)
        /\ dpc = "running" /\ pool_end' = pool_end
    BY DEF Launch, Pending
  <1>3. LauncherInv'
    <2>1. \A k \in Launchers : k # l => /\ lpc'[k] = lpc[k] /\ launched'[k] = launched[k]
                                        /\ r_wait'[k] = r_wait[k] /\ th_arg'[k] = th_arg[k]
      BY <1>0, <1>1, <1>2
    <2>2. /\ lpc'[l] = "enqueue" /\ launched'[l] = launched[l] + 1 /\ r_wait'[l] = TRUE
          /\ th_arg'[l].owner = l /\ th_arg'[l].id = launched[l] + 1
      BY <1>0, <1>1, <1>2
    <2>3. ~pool_end'
      BY <1>2 DEF ServiceInv, WaitInv
    <2> QED
      BY <1>2, <2>1, <2>2, <2>3 DEF ServiceInv, LauncherInv
  <1>4. ASSUME NEW op \in Op, Stored(op)
        PROVE  Stored(op)'
    BY <1>1, <1>2, <1>4, OpFields DEF Stored
  <1>5. ASSUME NEW op \in Op, Awaited(op)
        PROVE  Awaited(op)'
    BY <1>0, <1>1, <1>2, <1>5, OpFields DEF Awaited
  <1>6. PlaceInv'
    <2>1. \A i \in 1..n_operation' : Pending(i)' \in Op =>
             Stored(Pending(i))' /\ Awaited(Pending(i))' /\ Pending(i)' \notin executed'
      BY <1>2, <1>4, <1>5 DEF ServiceInv, PlaceInv, Stored, Awaited
    <2>2. \A w \in Workers : Held(w)' => Stored(th[w])' /\ Awaited(th[w])'
      BY <1>1, <1>2, <1>4, <1>5 DEF ServiceInv, PlaceInv, Held, Stored, Awaited
    <2>3. \A op \in executed' : Stored(op)'
      BY <1>1, <1>2, <1>4 DEF ServiceInv, PlaceInv
    <2>4. \A w \in Workers : wpc'[w] = "exited" /\ th'[w] # TH_FINALIZE =>
             th'[w] \in Op /\ Stored(th[w])' /\ ~th'[w].wait4me
      BY <1>1, <1>2, <1>4 DEF ServiceInv, PlaceInv, Stored
    <2> QED
      BY <2>1, <2>2, <2>3, <2>4 DEF PlaceInv
  <1>7. OnceInv'
    BY <1>2 DEF ServiceInv, OnceInv, Held
  <1> QED
    BY <1>3, <1>6, <1>7

\* worker_pool_enqueue stores an operation that is nowhere else.
LEMMA LaunchStoresServes ==
    ASSUME ServiceInv, NEW l \in Launchers, LaunchStores(l)
    PROVE  LauncherInv' /\ PlaceInv' /\ OnceInv'
  <1> DEFINE op == th_arg[l]
  <1> USE DEF ring, wvars, lvars, dvars
  <1>1. /\ launched \in [Launchers -> 0..MaxLaunches] /\ MaxLaunches \in Nat
        /\ lpc \in [Launchers -> {"idle", "enqueue", "wait"}] /\ executed \subseteq Op
        /\ r_wait \in [Launchers -> BOOLEAN] /\ n_operation \in Nat
        /\ \A w \in Workers : Held(w) => th[w] \in Op
    BY PoolAssumption DEF ServiceInv, TypeInv, TypeOK, RingInv, Held
  <1>2. /\ lpc[l] = "enqueue" /\ lpc' = [lpc EXCEPT ![l] = AfterLaunch(op)]
        /\ UNCHANGED <<th_arg, r_wait, launched, pool_end, wpc, th, executed>>
        /\ op \in Op /\ op.owner = l /\ op.id = launched[l] /\ r_wait[l] = TRUE
    BY DEF LaunchStores, ServiceInv, TypeInv, RingInv, LauncherInv
  <1>3. /\ n_operation' = n_operation + 1
        /\ \A i \in 1..n_operation' : Pending(i)' = IF i = n_operation + 1 THEN op ELSE Pending(i)
    <2>1. l \in Enqueuers /\ EnqueueStores(l, op) /\ TypeInv
      BY DEF LaunchStores, Enqueuers, ServiceInv
    <2> HIDE DEF op
    <2> QED
      BY <1>2, <2>1, EnqueuePending
  <1>4. ASSUME NEW x \in Op, Stored(x)
        PROVE  Stored(x)' /\ x # op
    BY <1>1, <1>2, <1>4, OpFields DEF Stored
  <1>5. ASSUME NEW x \in Op, Awaited(x)
        PROVE  Awaited(x)'
    BY <1>1, <1>2, <1>5, OpFields DEF Awaited
  <1>6. Stored(op)' /\ Awaited(op)' /\ op \notin executed
    <2>1. Stored(op)' /\ Awaited(op)'
      BY <1>1, <1>2 DEF Stored, Awaited, AfterLaunch
    <2>2. op \notin executed
      BY <1>1, <1>4 DEF ServiceInv, PlaceInv
    <2> QED
      BY <2>1, <2>2
  <1>7. LauncherInv'
    BY <1>1, <1>2 DEF ServiceInv, LauncherInv, AfterLaunch
  <1>8. PlaceInv'
    <2>1. ASSUME NEW i \in 1..n_operation', Pending(i)' \in Op
          PROVE  Stored(Pending(i))' /\ Awaited(Pending(i))' /\ Pending(i)' \notin executed'
      <3>1. CASE i = n_operation + 1
        BY <1>2, <1>3, <1>6, <3>1 DEF Stored, Awaited
      <3>2. CASE i \in 1..n_operation
        BY <1>1, <1>2, <1>3, <1>4, <1>5, <2>1, <3>2 DEF ServiceInv, PlaceInv, Stored, Awaited
      <3> QED
        BY <1>1, <1>3, <3>1, <3>2
    <2>2. \A w \in Workers : Held(w)' => Stored(th[w])' /\ Awaited(th[w])'
      BY <1>1, <1>2, <1>4, <1>5 DEF ServiceInv, PlaceInv, Held, Stored, Awaited
    <2>3. \A x \in executed' : Stored(x)'
      BY <1>1, <1>2, <1>4 DEF ServiceInv, PlaceInv
    <2>4. \A w \in Workers : wpc'[w] = "exited" /\ th'[w] # TH_FINALIZE =>
             th'[w] \in Op /\ Stored(th[w])' /\ ~th'[w].wait4me
      BY <1>1, <1>2, <1>4 DEF ServiceInv, PlaceInv, Stored
    <2> QED
      BY <2>1, <2>2, <2>3, <2>4 DEF PlaceInv
  <1>9. OnceInv'
    <2>1. \A i \in 1..n_operation : Pending(i) # op
      BY <1>2, <1>4 DEF ServiceInv, PlaceInv
    <2>2. \A w \in Workers : Held(w) => th[w] # op
      BY <1>1, <1>4 DEF ServiceInv, PlaceInv
    <2>3. \A i \in 1..n_operation' : i = n_operation + 1 \/ i \in 1..n_operation
      BY <1>1, <1>3
    <2> QED
      BY <1>2, <1>3, <2>1, <2>2, <2>3 DEF ServiceInv, OnceInv, Held
  <1> QED
    BY <1>7, <1>8, <1>9

\* worker_pool_wait returns when nothing the launcher waited for is under way.
LEMMA WaitReturnsServes ==
    ASSUME ServiceInv, NEW l \in Launchers, WaitReturns(l)
    PROVE  LauncherInv' /\ PlaceInv' /\ OnceInv'
  <1> USE DEF ring, wvars, lvars, dvars
  <1>1. /\ launched \in [Launchers -> 0..MaxLaunches] /\ MaxLaunches \in Nat
        /\ lpc \in [Launchers -> {"idle", "enqueue", "wait"}] /\ executed \subseteq Op
        /\ r_wait \in [Launchers -> BOOLEAN]
        /\ \A w \in Workers : Held(w) => th[w] \in Op
    BY PoolAssumption DEF ServiceInv, TypeInv, TypeOK, RingInv, Held
  <1>2. /\ lpc[l] = "wait" /\ lpc' = [lpc EXCEPT ![l] = "idle"]
        /\ r_wait[l] # TRUE /\ r_wait' = [r_wait EXCEPT ![l] = TRUE]
        /\ UNCHANGED <<th_arg, launched, pool_end, wpc, th, executed, n_operation>>
        /\ \A i : Pending(i)' = Pending(i)
    BY DEF WaitReturns, WaitOver, Pending
  <1>3. ASSUME NEW x \in Op, Stored(x)
        PROVE  Stored(x)'
    BY <1>1, <1>2, <1>3, OpFields DEF Stored
  <1>4. ASSUME NEW x \in Op, Awaited(x)
        PROVE  Awaited(x)'
    BY <1>1, <1>2, <1>4, OpFields DEF Awaited
  <1>5. LauncherInv'
    BY <1>1, <1>2 DEF ServiceInv, LauncherInv
  <1>6. PlaceInv'
    BY <1>1, <1>2, <1>3, <1>4 DEF ServiceInv, PlaceInv, Held, Stored, Awaited
  <1>7. OnceInv'
    BY <1>2 DEF ServiceInv, OnceInv, Held
  <1> QED
    BY <1>5, <1>6, <1>7

\* worker_pool_dequeue moves the oldest operation to one worker; what a worker that
\* exits takes with it nobody waits for.
LEMMA DequeueTakesServes ==
    ASSUME ServiceInv, NEW w \in Workers, DequeueTakes(w)
    PROVE  LauncherInv' /\ PlaceInv' /\ OnceInv'
  <1> USE DEF ring, wvars, lvars, dvars
  <1>1. /\ th \in [Workers -> Op \cup {TH_FINALIZE, NoOp}]
        /\ wpc \in [Workers -> {"dequeue", "execute", "notify", "exited"}]
        /\ n_operation \in Nat /\ executed \subseteq Op
    BY PoolAssumption DEF ServiceInv, TypeInv, TypeOK
  <1>2. /\ n_operation \in 1..MAX_OPERATIONS /\ n_operation' = n_operation - 1
        /\ TakenOp = Pending(1) /\ Pending(1) \in Op \cup {TH_FINALIZE}
        /\ \A i \in 1..n_operation' : Pending(i)' = Pending(i + 1) /\ i + 1 \in 1..n_operation /\ i + 1 # 1
    BY DequeuePending, DequeueKeepsRing, PoolAssumption DEF ServiceInv
  <1>3. /\ wpc[w] = "dequeue" /\ th' = [th EXCEPT ![w] = Pending(1)]
        /\ UNCHANGED <<lvars, pool_end, executed>>
        /\ wpc' = [wpc EXCEPT ![w] = IF pool_end \/ Pending(1) = TH_FINALIZE
                                     THEN "exited" ELSE "execute"]
    BY <1>2 DEF DequeueTakes
  <1>4. LauncherInv'
    BY <1>3 DEF ServiceInv, LauncherInv
  <1>5. Pending(1) \in Op =>
          /\ Stored(Pending(1)) /\ Awaited(Pending(1)) /\ Pending(1) \notin executed
          /\ pool_end => ~Pending(1).wait4me
    <2>1. 1 \in 1..n_operation
      BY <1>2
    <2> QED
      BY <2>1, OpFields DEF ServiceInv, PlaceInv, LauncherInv, Awaited
  <1>6. \A x : (Stored(x) => Stored(x)') /\ (Awaited(x) => Awaited(x)')
    BY <1>3 DEF Stored, Awaited
  <1>7. /\ th'[w] = Pending(1) /\ \A v \in Workers \ {w} : th'[v] = th[v] /\ wpc'[v] = wpc[v]
        /\ wpc'[w] = IF pool_end \/ Pending(1) = TH_FINALIZE THEN "exited" ELSE "execute"
    BY <1>1, <1>3
  <1>8. PlaceInv'
    <2>1. \A i \in 1..n_operation' : Pending(i)' \in Op =>
             Stored(Pending(i))' /\ Awaited(Pending(i))' /\ Pending(i)' \notin executed'
      BY <1>2, <1>3, <1>6 DEF ServiceInv, PlaceInv, Stored, Awaited
    <2>2. ASSUME NEW v \in Workers, Held(v)'
          PROVE  Stored(th[v])' /\ Awaited(th[v])'
      BY <1>2, <1>3, <1>5, <1>6, <1>7, <2>2 DEF ServiceInv, PlaceInv, Held, Stored, Awaited
    <2>3. \A op \in executed' : Stored(op)'
      BY <1>3, <1>6 DEF ServiceInv, PlaceInv
    <2>4. ASSUME NEW v \in Workers, wpc'[v] = "exited", th'[v] # TH_FINALIZE
          PROVE  th'[v] \in Op /\ Stored(th[v])' /\ ~th'[v].wait4me
      BY <1>2, <1>3, <1>5, <1>6, <1>7, <2>4 DEF ServiceInv, PlaceInv, Stored
    <2> QED
      BY <2>1, <2>2, <2>3, <2>4 DEF PlaceInv
  <1>9. OnceInv'
    <2>1. \A i \in 1..n_operation' : Pending(1) \in Op => Pending(i + 1) # Pending(1)
      BY <1>2 DEF ServiceInv, OnceInv
    <2>2. \A v \in Workers : Held(v) => th[v] # Pending(1)
      BY <1>2 DEF ServiceInv, OnceInv
    <2>3. \A i, j \in 1..n_operation' : i # j /\ Pending(i)' \in Op => Pending(i)' # Pending(j)'
      <3>1. \A i, j \in 1..n_operation' : i # j => i + 1 # j + 1
        BY <1>2
      <3> QED
        BY <1>2, <3>1 DEF ServiceInv, OnceInv
    <2>4. \A i \in 1..n_operation', v \in Workers : Held(v)' => Pending(i)' # th'[v]
      BY <1>2, <1>7, <2>1 DEF ServiceInv, OnceInv, Held
    <2>5. \A u, v \in Workers : u # v /\ Held(u)' /\ Held(v)' => th'[u] # th'[v]
      BY <1>7, <2>2 DEF ServiceInv, OnceInv, Held
    <2>6. \A v \in Workers : wpc'[v] = "execute" => th'[v] \notin executed'
      BY <1>2, <1>3, <1>5, <1>7 DEF ServiceInv, OnceInv
    <2>7. \A v \in Workers : wpc'[v] = "notify" => th'[v] \in executed' /\ th'[v].wait4me
      BY <1>3, <1>7 DEF ServiceInv, OnceInv
    <2> QED
      BY <2>3, <2>4, <2>5, <2>6, <2>7 DEF OnceInv
  <1> QED
    BY <1>4, <1>8, <1>9

\* The function of an operation runs once, and the operation stays with its worker
\* until the launcher that waits has been told.
LEMMA ExecuteServes ==
    ASSUME ServiceInv, NEW w \in Workers, Execute(w)
    PROVE  LauncherInv' /\ PlaceInv' /\ OnceInv'
  <1> USE DEF ring, wvars, lvars, dvars
  <1>1. /\ wpc \in [Workers -> {"dequeue", "execute", "notify", "exited"}]
        /\ th[w] \in Op /\ n_operation \in Nat
    BY DEF ServiceInv, TypeInv, TypeOK, RingInv, Execute
  <1>2. /\ wpc[w] = "execute" /\ executed' = executed \cup {th[w]}
        /\ wpc' = [wpc EXCEPT ![w] = IF th[w].wait4me THEN "notify" ELSE "dequeue"]
        /\ UNCHANGED <<lvars, th, pool_end, n_operation>> /\ \A i : Pending(i)' = Pending(i)
    BY DEF Execute, Pending
  <1>3. LauncherInv'
    BY <1>2 DEF ServiceInv, LauncherInv
  <1>4. \A i \in 1..n_operation : Pending(i) # th[w]
    BY <1>2 DEF ServiceInv, OnceInv, Held
  <1>5. \A v \in Workers \ {w} : wpc'[v] = wpc[v] /\ (Held(v) => th[v] # th[w])
    BY <1>1, <1>2 DEF ServiceInv, OnceInv, Held
  <1>6. PlaceInv'
    BY <1>1, <1>2, <1>4, <1>5 DEF ServiceInv, PlaceInv, Held, Stored, Awaited
  <1>7. OnceInv'
    BY <1>1, <1>2, <1>4, <1>5 DEF ServiceInv, OnceInv, Held
  <1> QED
    BY <1>3, <1>6, <1>7

\* The worker that tells a launcher is the only one that works for it.
LEMMA NotifyServes ==
    ASSUME ServiceInv, NEW w \in Workers, Notify(w)
    PROVE  LauncherInv' /\ PlaceInv' /\ OnceInv'
  <1> DEFINE l == th[w].owner
  <1> USE DEF ring, wvars, lvars, dvars
  <1>1. /\ wpc \in [Workers -> {"dequeue", "execute", "notify", "exited"}]
        /\ th[w] \in Op /\ l \in Launchers /\ r_wait \in [Launchers -> BOOLEAN]
        /\ \A v \in Workers : Held(v) => th[v] \in Op
    BY OpFields DEF ServiceInv, TypeInv, TypeOK, RingInv, Notify, Held
  <1>2. /\ wpc[w] = "notify" /\ wpc' = [wpc EXCEPT ![w] = "dequeue"]
        /\ r_wait' = [r_wait EXCEPT ![l] = FALSE]
        /\ UNCHANGED <<lpc, th_arg, launched, th, pool_end, n_operation, executed>>
        /\ \A i : Pending(i)' = Pending(i)
    BY DEF Notify, Pending
  <1>3. /\ th[w] \in executed /\ th[w].wait4me /\ th_arg[l] = th[w] /\ lpc[l] = "wait"
    BY <1>2 DEF ServiceInv, OnceInv, PlaceInv, Held, Awaited
  <1> HIDE DEF l
  <1>4. LauncherInv'
    BY <1>1, <1>2, <1>3 DEF ServiceInv, LauncherInv
  <1>5. ASSUME NEW x \in Op, x # th[w], Awaited(x)
        PROVE  Awaited(x)'
    BY <1>1, <1>2, <1>3, <1>5, OpFields DEF Awaited
  <1>6. \A x : Stored(x)' <=> Stored(x)
    BY <1>2 DEF Stored
  <1>7. \A i \in 1..n_operation : Pending(i) # th[w]
    BY <1>2 DEF ServiceInv, OnceInv, Held
  <1>8. \A v \in Workers \ {w} : wpc'[v] = wpc[v] /\ (Held(v) => th[v] # th[w])
    BY <1>1, <1>2 DEF ServiceInv, OnceInv, Held
  <1>9. wpc'[w] = "dequeue"
    BY <1>1, <1>2
  <1>10. PlaceInv'
    <2>1. \A i \in 1..n_operation' : Pending(i)' \in Op =>
             Stored(Pending(i))' /\ Awaited(Pending(i))' /\ Pending(i)' \notin executed'
      BY <1>2, <1>5, <1>6, <1>7 DEF ServiceInv, PlaceInv, Stored, Awaited
    <2>2. ASSUME NEW v \in Workers, Held(v)'
          PROVE  Stored(th[v])' /\ Awaited(th[v])'
      <3>1. v # w /\ Held(v)
        BY <1>8, <1>9, <2>2 DEF Held
      <3> QED
        BY <1>1, <1>2, <1>5, <1>6, <1>8, <3>1 DEF ServiceInv, PlaceInv, Stored, Awaited
    <2>3. \A op \in executed' : Stored(op)'
      BY <1>2, <1>6 DEF ServiceInv, PlaceInv
    <2>4. \A v \in Workers : wpc'[v] = "exited" /\ th'[v] # TH_FINALIZE =>
             th'[v] \in Op /\ Stored(th[v])' /\ ~th'[v].wait4me
      BY <1>2, <1>6, <1>8, <1>9 DEF ServiceInv, PlaceInv, Stored
    <2> QED
      BY <2>1, <2>2, <2>3, <2>4 DEF PlaceInv
  <1>11. OnceInv'
    BY <1>2, <1>8, <1>9 DEF ServiceInv, OnceInv, Held
  <1> QED
    BY <1>4, <1>10, <1>11

LEMMA NextServiceInv == ServiceInv /\ [Next]_vars => ServiceInv'
  <1> SUFFICES ASSUME ServiceInv, [Next]_vars PROVE LauncherInv' /\ PlaceInv' /\ OnceInv'
    BY NextTypeInv, NextWaitInv DEF ServiceInv
  <1> USE DEF ring, wvars, lvars, dvars
  <1>1. ASSUME NEW l \in Launchers, LauncherNext(l) PROVE LauncherInv' /\ PlaceInv' /\ OnceInv'
    <2>1. CASE LaunchBlocks(l)
      BY <2>1, NothingMoves DEF LaunchBlocks, EnqueueBlocks
    <2> QED
      BY <1>1, <2>1, LaunchServes, LaunchStoresServes, WaitReturnsServes DEF LauncherNext
  <1>2. ASSUME NEW w \in Workers, WorkerNext(w) PROVE LauncherInv' /\ PlaceInv' /\ OnceInv'
    <2>1. CASE DequeueBlocks(w)
      BY <2>1, NothingMoves DEF DequeueBlocks
    <2> QED
      BY <1>2, <2>1, DequeueTakesServes, ExecuteServes, NotifyServes DEF WorkerNext
  <1>3. CASE DestroyBegins \/ DestroyBlocks \/ DestroyBroadcasts \/ DestroyJoins \/ SpuriousWakeup
    BY <1>3, NothingMoves DEF DestroyBegins, DestroyBlocks, EnqueueBlocks, DestroyBroadcasts,
                              DestroyJoins, SpuriousWakeup
  <1>4. CASE DestroyStores
    <2>1. /\ n_operation' = n_operation + 1 /\ n_operation \in Nat
          /\ \A i \in 1..n_operation' :
               Pending(i)' = IF i = n_operation + 1 THEN TH_FINALIZE ELSE Pending(i)
      <3>1. Destroyer \in Enqueuers /\ EnqueueStores(Destroyer, TH_FINALIZE) /\ TypeInv
        BY <1>4 DEF DestroyStores, Enqueuers, ServiceInv
      <3> QED
        BY <3>1, EnqueuePending, PoolAssumption
    <2>2. UNCHANGED <<lvars, wvars, pool_end, executed>>
      BY <1>4 DEF DestroyStores
    <2>3. \A i \in 1..n_operation' : i = n_operation + 1 \/ i \in 1..n_operation
      BY <2>1
    <2>4. \A w \in Workers : Held(w) => th[w] # TH_FINALIZE
      BY FinalizeIsNoOp DEF ServiceInv, TypeInv, RingInv, Held
    <2>5. LauncherInv'
      BY <2>2 DEF ServiceInv, LauncherInv
    <2>6. PlaceInv'
      BY <2>1, <2>2, <2>3, FinalizeIsNoOp DEF ServiceInv, PlaceInv, Held, Stored, Awaited
    <2>7. OnceInv'
      BY <2>1, <2>2, <2>3, <2>4, FinalizeIsNoOp DEF ServiceInv, OnceInv, Held
    <2> QED
      BY <2>5, <2>6, <2>7
  <1>5. CASE UNCHANGED vars
    BY <1>5, NothingMoves DEF vars
  <1> QED
    BY <1>1, <1>2, <1>3, <1>4, <1>5 DEF Next, DestroyNext

\* Who waits for an operation is told of its end and of nothing else, and destroy
\* discards no operation somebody waits for, for every number of launchers and
\* workers that compete for the ring (workers_pool.c:182 and 202).
THEOREM PoolWaitersServed == Spec => WaitersServed
  <1>1. ServiceInv => NoWaitedOperationDiscarded
    BY DEF ServiceInv, PlaceInv, NoWaitedOperationDiscarded
  <1>2. ServiceInv /\ [Next]_vars =>
          [\A l \in Launchers :
             lpc[l] = "wait" /\ lpc'[l] # "wait" => th_arg[l] \in executed]_vars
    <2> SUFFICES ASSUME ServiceInv, Next, NEW l \in Launchers,
                        lpc[l] = "wait", lpc'[l] # "wait"
                 PROVE  th_arg[l] \in executed
      OBVIOUS
    <2> USE DEF ring, wvars, lvars, dvars
    <2>1. lpc \in [Launchers -> {"idle", "enqueue", "wait"}] /\ r_wait \in [Launchers -> BOOLEAN]
      BY DEF ServiceInv, TypeInv, TypeOK
    <2>2. WaitReturns(l)
      <3>1. ASSUME NEW k \in Launchers, LauncherNext(k) PROVE WaitReturns(l)
        BY <2>1, <3>1 DEF LauncherNext, Launch, LaunchBlocks, LaunchStores, WaitReturns
      <3>2. ASSUME NEW w \in Workers, WorkerNext(w) PROVE FALSE
        BY <3>2 DEF WorkerNext, DequeueBlocks, DequeueTakes, Execute, Notify
      <3>3. ASSUME DestroyNext \/ SpuriousWakeup PROVE FALSE
        BY <3>3 DEF DestroyNext, DestroyBegins, DestroyBlocks, DestroyStores,
                    DestroyBroadcasts, DestroyJoins, SpuriousWakeup
      <3> QED
        BY <3>1, <3>2, <3>3 DEF Next
    <2>3. r_wait[l] = FALSE
      BY <2>1, <2>2 DEF WaitReturns, WaitOver
    <2> QED
      BY <2>3 DEF ServiceInv, LauncherInv
  <1>3. Spec => []ServiceInv
    BY InitServiceInv, NextServiceInv, PTL DEF Spec
  <1> QED
    BY <1>1, <1>2, <1>3, PTL DEF Spec, WaitersServed, WaitReturnsAfterItsOperation

-----------------------------------------------------------------------------
(* The pool implements the queue of TaskQueue *)

\* What the ring holds, as a sequence: the queue of the refinement mapping.
RingQueue == [i \in 1..n_operation |-> Pending(i)]

LEMMA RingQueueType ==
    ASSUME TypeInv
    PROVE  /\ RingQueue \in Seq(Op \cup {TH_FINALIZE})
           /\ Len(RingQueue) = n_operation /\ n_operation \in Nat
           /\ \A i \in 1..n_operation : RingQueue[i] = Pending(i)
  <1>1. n_operation \in Nat /\ \A i \in 1..n_operation : Pending(i) \in Op \cup {TH_FINALIZE}
    BY PoolAssumption DEF TypeInv, TypeOK, RingInv
  <1> QED
    BY <1>1 DEF RingQueue

\* worker_pool_enqueue appends.
LEMMA EnqueueAppends ==
    ASSUME TypeInv, NEW t \in Enqueuers, NEW op \in Op \cup {TH_FINALIZE},
           EnqueueStores(t, op)
    PROVE  RingQueue' = Append(RingQueue, op) /\ Len(RingQueue) < MAX_OPERATIONS
  <1>1. /\ n_operation \in 0..(MAX_OPERATIONS - 1) /\ n_operation' = n_operation + 1
        /\ \A i \in 1..n_operation' :
             Pending(i)' = IF i = n_operation + 1 THEN op ELSE Pending(i)
    BY EnqueuePending
  <1>2. Append(RingQueue, op) =
          [i \in 1..(n_operation + 1) |-> IF i = n_operation + 1 THEN op ELSE Pending(i)]
    <2> DEFINE S == Op \cup {TH_FINALIZE}
               a == Append(RingQueue, op)
    <2>1. /\ a \in Seq(S) /\ Len(a) = Len(RingQueue) + 1 /\ a[Len(RingQueue) + 1] = op
          /\ \A i \in 1..Len(RingQueue) : a[i] = RingQueue[i]
      BY RingQueueType, AppendProperties
    <2> HIDE DEF S, a
    <2>2. a = [i \in 1..(n_operation + 1) |-> a[i]]
      BY <2>1, RingQueueType, LenProperties
    <2>3. \A i \in 1..(n_operation + 1) : a[i] = IF i = n_operation + 1 THEN op ELSE Pending(i)
      BY <1>1, <2>1, RingQueueType
    <2> QED
      BY <2>2, <2>3 DEF a
  <1>3. RingQueue' = [i \in 1..(n_operation + 1) |-> IF i = n_operation + 1 THEN op ELSE Pending(i)]
    BY <1>1 DEF RingQueue
  <1> QED
    BY <1>1, <1>2, <1>3, RingQueueType, PoolAssumption

\* worker_pool_dequeue takes the head and leaves the tail.
LEMMA DequeueTakesHead ==
    ASSUME TypeInv, NEW w \in Workers, DequeueTakes(w)
    PROVE  RingQueue # <<>> /\ Head(RingQueue) = TakenOp /\ RingQueue' = Tail(RingQueue)
  <1>1. /\ n_operation \in 1..MAX_OPERATIONS /\ n_operation' = n_operation - 1
        /\ TakenOp = Pending(1)
        /\ \A i \in 1..n_operation' : Pending(i)' = Pending(i + 1)
    BY DequeuePending
  <1>2. RingQueue # <<>> /\ Head(RingQueue) = Pending(1)
    BY RingQueueType, <1>1
  <1>3. Tail(RingQueue) = [i \in 1..(n_operation - 1) |-> Pending(i + 1)]
    <2> DEFINE a == Tail(RingQueue)
    <2>1. /\ a \in Seq(Op \cup {TH_FINALIZE}) /\ Len(a) = n_operation - 1
          /\ \A i \in 1..Len(a) : a[i] = RingQueue[i + 1]
      BY RingQueueType, <1>2, HeadTailProperties
    <2> HIDE DEF a
    <2>2. a = [i \in 1..(n_operation - 1) |-> a[i]]
      BY <2>1, LenProperties
    <2>3. \A i \in 1..(n_operation - 1) : a[i] = Pending(i + 1)
      BY <1>1, <2>1, RingQueueType
    <2> QED
      BY <2>2, <2>3 DEF a
  <1>4. RingQueue' = [i \in 1..(n_operation - 1) |-> Pending(i + 1)]
    BY <1>1 DEF RingQueue
  <1> QED
    BY <1>1, <1>2, <1>3, <1>4

\* The steps that move no operation and do not close the pool are not seen by the queue.
LEMMA QueueStutters ==
    ASSUME UNCHANGED <<ring, wvars, executed, pool_end>>
    PROVE  UNCHANGED Queue!tvars
  <1>1. RingQueue' = RingQueue
    BY DEF RingQueue, Pending, ring
  <1>2. heldOps' = heldOps /\ discardedOps' = discardedOps
    BY DEF heldOps, discardedOps, wvars
  <1> QED
    BY <1>1, <1>2 DEF Queue!tvars, RingQueue

\* Every step of the pool is a step of the queue or leaves it unchanged.
LEMMA PoolStepIsQueueStep == ServiceInv /\ [Next]_vars => [Queue!TaskNext]_(Queue!tvars)
  <1> SUFFICES ASSUME ServiceInv, [Next]_vars
               PROVE  Queue!TaskNext \/ UNCHANGED Queue!tvars
    OBVIOUS
  <1> USE DEF ring, wvars, lvars, dvars
  <1>0. /\ TypeInv /\ WaitInv
        /\ wpc \in [Workers -> {"dequeue", "execute", "notify", "exited"}]
        /\ th \in [Workers -> Op \cup {TH_FINALIZE, NoOp}]
    BY DEF ServiceInv, TypeInv, TypeOK
  <1>1. ASSUME NEW l \in Launchers, LaunchStores(l)
        PROVE  Queue!Submit(th_arg[l]) /\ th_arg[l] \in Op
    <2> DEFINE op == th_arg[l]
    <2>1. /\ op \in Op /\ l \in Enqueuers /\ EnqueueStores(l, op) /\ lpc[l] = "enqueue"
          /\ op.owner = l /\ op.id = launched[l] /\ UNCHANGED <<wvars, executed, pool_end>>
      BY <1>1 DEF LaunchStores, Enqueuers, ServiceInv, TypeInv, RingInv, LauncherInv
    <2>2. launched[l] \in Nat /\ launched \in [Launchers -> 0..MaxLaunches]
      BY PoolAssumption DEF ServiceInv, TypeInv, TypeOK
    <2>3. ~Stored(op)
      BY <2>1, <2>2 DEF Stored
    <2> HIDE DEF op
    <2>4. RingQueue' = Append(RingQueue, op) /\ Len(RingQueue) < MAX_OPERATIONS
      BY <1>0, <2>1, EnqueueAppends
    <2>5. ~pool_end
      BY <2>1 DEF ServiceInv, LauncherInv
    <2>6. \A i \in DOMAIN RingQueue : RingQueue[i] # op
      <3>1. \A i \in DOMAIN RingQueue : i \in 1..n_operation /\ RingQueue[i] = Pending(i)
        BY DEF RingQueue
      <3> QED
        BY <2>1, <2>3, <3>1 DEF ServiceInv, PlaceInv
    <2>7. op \notin executed \cup heldOps
      BY <2>3 DEF ServiceInv, PlaceInv, heldOps, Held
    <2>8. op \notin discardedOps
      BY <2>3 DEF ServiceInv, PlaceInv, discardedOps
    <2>9. heldOps' = heldOps /\ discardedOps' = discardedOps
      BY <2>1 DEF heldOps, discardedOps
    <2> QED
      BY <2>1, <2>4, <2>5, <2>6, <2>7, <2>8, <2>9 DEF Queue!Submit, Queue!Queued, RingQueue, op
  <1>2. ASSUME NEW w \in Workers, DequeueTakes(w)
        PROVE  Queue!Start \/ Queue!Discard
    <2>1. RingQueue # <<>> /\ Head(RingQueue) = TakenOp /\ RingQueue' = Tail(RingQueue)
      BY <1>0, <1>2, DequeueTakesHead
    <2>2. TakenOp = Pending(1) /\ 1 \in 1..n_operation
      BY <1>0, <1>2, DequeuePending, PoolAssumption
    <2>3. /\ wpc[w] = "dequeue" /\ th' = [th EXCEPT ![w] = TakenOp]
          /\ UNCHANGED <<pool_end, executed>>
          /\ wpc' = [wpc EXCEPT ![w] = IF pool_end \/ TakenOp = TH_FINALIZE
                                       THEN "exited" ELSE "execute"]
      BY <1>2 DEF DequeueTakes
    <2>4. CASE ~pool_end
      <3>1. TakenOp # TH_FINALIZE
        BY <2>2, <2>4 DEF ServiceInv, WaitInv
      <3>2. heldOps' = heldOps \cup {TakenOp} /\ discardedOps' = discardedOps
        BY <1>0, <2>3, <2>4, <3>1 DEF heldOps, discardedOps
      <3> QED
        BY <2>1, <2>3, <2>4, <3>2 DEF Queue!Start, RingQueue
    <2>5. CASE pool_end
      <3>1. heldOps' = heldOps /\ discardedOps' = discardedOps \cup ({TakenOp} \ {TH_FINALIZE})
        BY <1>0, <2>3, <2>5 DEF heldOps, discardedOps
      <3> QED
        BY <2>1, <2>3, <2>5, <3>1 DEF Queue!Discard, RingQueue
    <2> QED
      BY <2>4, <2>5
  <1>3. ASSUME NEW w \in Workers, Execute(w) PROVE UNCHANGED Queue!tvars
    <2>1. /\ wpc[w] = "execute" /\ executed' = executed \cup {th[w]} /\ th' = th
          /\ wpc' = [wpc EXCEPT ![w] = IF th[w].wait4me THEN "notify" ELSE "dequeue"]
          /\ UNCHANGED <<ring, pool_end>>
      BY <1>3 DEF Execute
    <2>2. executed' \cup heldOps' = executed \cup heldOps /\ discardedOps' = discardedOps
      BY <1>0, <2>1 DEF heldOps, discardedOps
    <2>3. RingQueue' = RingQueue
      BY <2>1 DEF RingQueue, Pending
    <2> QED
      BY <2>1, <2>2, <2>3 DEF Queue!tvars, RingQueue
  <1>4. ASSUME NEW w \in Workers, Notify(w) PROVE UNCHANGED Queue!tvars
    <2>1. /\ wpc[w] = "notify" /\ executed' = executed /\ th' = th
          /\ wpc' = [wpc EXCEPT ![w] = "dequeue"] /\ UNCHANGED <<ring, pool_end>>
      BY <1>4 DEF Notify
    <2>2. heldOps' = heldOps /\ discardedOps' = discardedOps
      BY <1>0, <2>1 DEF heldOps, discardedOps
    <2>3. RingQueue' = RingQueue
      BY <2>1 DEF RingQueue, Pending
    <2> QED
      BY <2>1, <2>2, <2>3 DEF Queue!tvars, RingQueue
  <1>5. CASE DestroyBegins
    <2>1. ~pool_end /\ pool_end' /\ UNCHANGED <<ring, wvars, executed>>
      BY <1>5 DEF DestroyBegins, ServiceInv, WaitInv
    <2>2. RingQueue' = RingQueue /\ heldOps' = heldOps /\ discardedOps' = discardedOps
      BY <2>1 DEF RingQueue, Pending, heldOps, discardedOps
    <2>3. pool_end' = TRUE
      BY <1>5 DEF DestroyBegins
    <2> QED
      BY <2>1, <2>2, <2>3 DEF Queue!TaskNext, Queue!Close, RingQueue
  <1>6. CASE DestroyStores
    <2>1. /\ Destroyer \in Enqueuers /\ EnqueueStores(Destroyer, TH_FINALIZE)
          /\ UNCHANGED <<wvars, executed, pool_end>>
      BY <1>6 DEF DestroyStores, Enqueuers
    <2>2. RingQueue' = Append(RingQueue, TH_FINALIZE) /\ Len(RingQueue) < MAX_OPERATIONS
      BY <1>0, <2>1, EnqueueAppends
    <2>3. pool_end
      BY <1>6 DEF DestroyStores, ServiceInv, WaitInv
    <2>4. heldOps' = heldOps /\ discardedOps' = discardedOps
      BY <2>1 DEF heldOps, discardedOps
    <2> QED
      BY <2>1, <2>2, <2>3, <2>4 DEF Queue!TaskNext, Queue!SubmitFinal, RingQueue
  <1>7. ASSUME NEW l \in Launchers, Launch(l) \/ LaunchBlocks(l) \/ WaitReturns(l)
        PROVE  UNCHANGED Queue!tvars
    BY <1>7, QueueStutters DEF Launch, LaunchBlocks, EnqueueBlocks, WaitReturns
  <1>8. ASSUME NEW w \in Workers, DequeueBlocks(w) PROVE UNCHANGED Queue!tvars
    BY <1>8, QueueStutters DEF DequeueBlocks
  <1>9. CASE DestroyBlocks \/ DestroyBroadcasts \/ DestroyJoins \/ SpuriousWakeup
    BY <1>9, QueueStutters DEF DestroyBlocks, EnqueueBlocks, DestroyBroadcasts, DestroyJoins,
                               SpuriousWakeup
  <1>10. CASE UNCHANGED vars
    BY <1>10, QueueStutters DEF vars
  <1>11. ASSUME NEW l \in Launchers, LauncherNext(l) PROVE Queue!TaskNext \/ UNCHANGED Queue!tvars
    BY <1>1, <1>7, <1>11 DEF LauncherNext, Queue!TaskNext
  <1>12. ASSUME NEW w \in Workers, WorkerNext(w) PROVE Queue!TaskNext \/ UNCHANGED Queue!tvars
    BY <1>2, <1>3, <1>4, <1>8, <1>12 DEF WorkerNext, Queue!TaskNext
  <1> QED
    BY <1>5, <1>6, <1>9, <1>10, <1>11, <1>12 DEF Next, DestroyNext

\* The pool implements the bounded first-in first-out queue, for every number of
\* threads and slots: an operation enters once, leaves once and in order, and is
\* discarded only after the pool was closed (workers_pool.c:118-200, 238).
THEOREM PoolImplementsTaskQueue == Spec => ImplementsTaskQueue
  <1>1. Init => Queue!TaskInit
    <2> SUFFICES ASSUME Init PROVE Queue!TaskInit
      OBVIOUS
    <2>1. [i \in 1..n_operation |-> Pending(i)] = <<>>
      BY DEF Init
    <2>2. heldOps = {} /\ discardedOps = {}
      BY DEF Init, heldOps, discardedOps
    <2> QED
      BY <2>1, <2>2 DEF Init, Queue!TaskInit
  <1>2. Spec => []ServiceInv
    BY InitServiceInv, NextServiceInv, PTL DEF Spec
  <1> QED
    BY <1>1, <1>2, PoolStepIsQueueStep, PTL DEF Spec, ImplementsTaskQueue, Queue!TaskSpec

=============================================================================
