----------------------------- MODULE WorkersPool -----------------------------
(***************************************************************************)
(* The thread pool of src/base/workers_pool.c: a ring of MAX_OPERATIONS    *)
(* slots filled by the threads that launch operations and emptied by       *)
(* POOL_MAX_THREADS worker threads, guarded by one mutex (m_pool) and two  *)
(* condition variables (c_pool_no_full, c_poll_no_empty), and torn down by *)
(* worker_pool_destroy with one TH_FINALIZE operation per worker.          *)
(*                                                                         *)
(* One critical section of m_pool is one action.  pthread_cond_wait puts a *)
(* thread in a wait set and gives the mutex up; a signal moves one member  *)
(* out of the set, a broadcast all of them; a thread out of the set tries  *)
(* its critical section again and re-tests its condition.                  *)
(***************************************************************************)
EXTENDS Integers, FiniteSets

CONSTANTS
    Launchers,      \* threads that call base_workers_launch
    Workers,        \* the POOL_MAX_THREADS threads started by worker_pool_init
    Destroyer,      \* the thread that calls worker_pool_destroy
    MAX_OPERATIONS, \* number of slots of operations_buffer
    MaxLaunches,    \* bound: launches of each launcher
    NoOp            \* content of a slot or of a th that was never written

Op == [owner : Launchers, id : 1..MaxLaunches, wait4me : BOOLEAN]

TH_FINALIZE == [type_op |-> "finalize"]

Enqueuers == Launchers \cup {Destroyer}

Slots == 0..(MAX_OPERATIONS - 1)

ASSUME PoolAssumption ==
    /\ IsFiniteSet(Launchers) /\ IsFiniteSet(Workers)
    /\ Destroyer \notin Launchers
    /\ MAX_OPERATIONS \in Nat \ {0}
    /\ MaxLaunches \in Nat
    /\ NoOp \notin Op \cup {TH_FINALIZE}

VARIABLES
    operations_buffer, n_operation, enq_pos, deq_pos,  \* the ring
    pool_end,                                          \* set by destroy
    noFull,      \* threads blocked in c_pool_no_full
    noEmpty,     \* threads blocked in c_poll_no_empty
    wpc, th,     \* program counter and local th of each worker
    lpc,         \* program counter of each launcher
    th_arg,      \* the operation each launcher is launching or waiting for
    r_wait,      \* th_arg->r_wait of each launcher
    launched,    \* number of operations each launcher has launched
    dpc, finals, \* program counter of destroy, finalize operations left
    executed     \* history: operations whose function has been called

ring  == <<operations_buffer, n_operation, enq_pos, deq_pos>>
wvars == <<wpc, th>>
lvars == <<lpc, th_arg, r_wait, launched>>
dvars == <<dpc, finals>>
vars  == <<ring, pool_end, noFull, noEmpty, wvars, lvars, dvars, executed>>

\* POOL_MAX_THREADS, the number of TH_FINALIZE operations destroy enqueues.
FinalizeCountShort == Cardinality(Workers) - 1
FinalizeCount == Cardinality(Workers)

\* The test of worker_pool_enqueue's while loop.
RingFull == n_operation = MAX_OPERATIONS

\* The operation worker_pool_dequeue reads.
TakenOpFromHead == operations_buffer[enq_pos]
TakenOp == operations_buffer[deq_pos]

\* pthread_cond_signal: one waiter, whichever the system picks, stops waiting.
SignalNoEmptyDropped == UNCHANGED noEmpty
SignalNoEmpty ==
    IF noEmpty = {} THEN UNCHANGED noEmpty
                    ELSE \E w \in noEmpty : noEmpty' = noEmpty \ {w}

SignalNoFullDropped == UNCHANGED noFull
SignalNoFull ==
    IF noFull = {} THEN UNCHANGED noFull
                   ELSE \E t \in noFull : noFull' = noFull \ {t}

Init ==
    /\ operations_buffer = [i \in Slots |-> NoOp]
    /\ n_operation = 0 /\ enq_pos = 0 /\ deq_pos = 0
    /\ pool_end = FALSE
    /\ noFull = {} /\ noEmpty = {}
    /\ wpc = [w \in Workers |-> "dequeue"] /\ th = [w \in Workers |-> NoOp]
    /\ lpc = [l \in Launchers |-> "idle"]
    /\ th_arg = [l \in Launchers |-> NoOp]
    /\ r_wait = [l \in Launchers |-> TRUE]
    /\ launched = [l \in Launchers |-> 0]
    /\ dpc = "running" /\ finals = FinalizeCount
    /\ executed = {}

-----------------------------------------------------------------------------
(* worker_pool_enqueue, by a launcher or by worker_pool_destroy *)

\* The while loop of worker_pool_enqueue: block while the ring is full.
EnqueueBlocks(t) ==
    /\ t \notin noFull
    /\ RingFull
    /\ noFull' = noFull \cup {t}
    /\ UNCHANGED <<ring, noEmpty>>

\* The rest of worker_pool_enqueue: store, advance, count, signal.
EnqueueStores(t, op) ==
    /\ t \notin noFull
    /\ ~RingFull
    /\ operations_buffer' = [operations_buffer EXCEPT ![enq_pos] = op]
    /\ enq_pos' = (enq_pos + 1) % MAX_OPERATIONS
    /\ n_operation' = n_operation + 1
    /\ UNCHANGED deq_pos
    /\ SignalNoEmpty
    /\ UNCHANGED noFull

\* What the launcher does next: base_workers_wait only for wait4me.
AfterLaunch(op) == IF op.wait4me THEN "wait" ELSE "idle"

\* A launcher fills th_arg, arms r_wait and calls base_workers_launch.
Launch(l) ==
    /\ dpc = "running"
    /\ lpc[l] = "idle" /\ launched[l] < MaxLaunches
    /\ \E b \in BOOLEAN :
         th_arg' = [th_arg EXCEPT ![l] =
                      [owner |-> l, id |-> launched[l] + 1, wait4me |-> b]]
    /\ launched' = [launched EXCEPT ![l] = @ + 1]
    /\ r_wait' = [r_wait EXCEPT ![l] = TRUE]
    /\ lpc' = [lpc EXCEPT ![l] = "enqueue"]
    /\ UNCHANGED <<ring, pool_end, noFull, noEmpty, wvars, dvars, executed>>

LaunchBlocks(l) ==
    /\ lpc[l] = "enqueue"
    /\ EnqueueBlocks(l)
    /\ UNCHANGED <<pool_end, wvars, lvars, dvars, executed>>

LaunchStores(l) ==
    /\ lpc[l] = "enqueue"
    /\ EnqueueStores(l, th_arg[l])
    /\ lpc' = [lpc EXCEPT ![l] = AfterLaunch(th_arg[l])]
    /\ UNCHANGED <<pool_end, wvars, th_arg, r_wait, launched, dvars, executed>>

\* The test of worker_pool_wait's while loop.
WaitOverUntested(l) == TRUE
WaitOver(l) == ~r_wait[l]

\* worker_pool_wait: r_wait is tested and reset under m_wait, the worker sets
\* it under m_wait and signals, so blocking is waiting for r_wait to be FALSE.
WaitReturns(l) ==
    /\ lpc[l] = "wait" /\ WaitOver(l)
    /\ r_wait' = [r_wait EXCEPT ![l] = TRUE]
    /\ lpc' = [lpc EXCEPT ![l] = "idle"]
    /\ UNCHANGED <<ring, pool_end, noFull, noEmpty, wvars, th_arg, launched,
                   dvars, executed>>

-----------------------------------------------------------------------------
(* worker_pool_function and worker_pool_dequeue *)

DequeueBlocks(w) ==
    /\ wpc[w] = "dequeue" /\ w \notin noEmpty
    /\ n_operation = 0
    /\ noEmpty' = noEmpty \cup {w}
    /\ UNCHANGED <<ring, pool_end, noFull, wvars, lvars, dvars, executed>>

\* The worker takes the oldest operation.  When the pool is ending, or the
\* operation is TH_FINALIZE, the thread exits: it does not run the operation
\* and does not signal c_pool_no_full.
DequeueTakes(w) ==
    /\ wpc[w] = "dequeue" /\ w \notin noEmpty
    /\ n_operation # 0
    /\ deq_pos' = (deq_pos + 1) % MAX_OPERATIONS
    /\ n_operation' = n_operation - 1
    /\ UNCHANGED <<operations_buffer, enq_pos>>
    /\ th' = [th EXCEPT ![w] = TakenOp]
    /\ IF pool_end \/ TakenOp = TH_FINALIZE
         THEN /\ wpc' = [wpc EXCEPT ![w] = "exited"]
              /\ UNCHANGED noFull
         ELSE /\ wpc' = [wpc EXCEPT ![w] = "execute"]
              /\ SignalNoFull
    /\ UNCHANGED <<pool_end, noEmpty, lvars, dvars, executed>>

\* th.function(th) and the test of wait4me.
Execute(w) ==
    /\ wpc[w] = "execute"
    /\ executed' = executed \cup {th[w]}
    /\ wpc' = [wpc EXCEPT ![w] = IF th[w].wait4me THEN "notify" ELSE "dequeue"]
    /\ UNCHANGED <<ring, pool_end, noFull, noEmpty, th, lvars, dvars>>

\* The worker clears r_wait of the th_shadow the operation came from.
Notify(w) ==
    /\ wpc[w] = "notify"
    /\ r_wait' = [r_wait EXCEPT ![th[w].owner] = FALSE]
    /\ wpc' = [wpc EXCEPT ![w] = "dequeue"]
    /\ UNCHANGED <<ring, pool_end, noFull, noEmpty, th, lpc, th_arg, launched,
                   dvars, executed>>

-----------------------------------------------------------------------------
(* worker_pool_destroy.  Its callers (nfi_worker's end, xpn_server_finish)  *)
(* reach it when no thread is launching or waiting any more; operations    *)
(* launched without wait4me may still be queued or running.                *)

DestroyBegins ==
    /\ dpc = "running"
    /\ \A l \in Launchers : lpc[l] = "idle"
    /\ pool_end' = TRUE
    /\ dpc' = "enqueue"
    /\ UNCHANGED <<ring, noFull, noEmpty, wvars, lvars, finals, executed>>

DestroyBlocks ==
    /\ dpc = "enqueue" /\ finals > 0
    /\ EnqueueBlocks(Destroyer)
    /\ UNCHANGED <<pool_end, wvars, lvars, dvars, executed>>

DestroyStores ==
    /\ dpc = "enqueue" /\ finals > 0
    /\ EnqueueStores(Destroyer, TH_FINALIZE)
    /\ finals' = finals - 1
    /\ UNCHANGED <<pool_end, wvars, lvars, dpc, executed>>

DestroyBroadcasts ==
    /\ dpc = "enqueue" /\ finals = 0
    /\ noEmpty' = {}
    /\ dpc' = "join"
    /\ UNCHANGED <<ring, pool_end, noFull, wvars, lvars, finals, executed>>

\* pthread_join of every worker, then the mutexes and the conditions go.
DestroyJoins ==
    /\ dpc = "join"
    /\ \A w \in Workers : wpc[w] = "exited"
    /\ dpc' = "done"
    /\ UNCHANGED <<ring, pool_end, noFull, noEmpty, wvars, lvars, finals, executed>>

\* POSIX lets pthread_cond_wait return without a signal.
SpuriousWakeup ==
    /\ \/ \E w \in noEmpty : noEmpty' = noEmpty \ {w} /\ UNCHANGED noFull
       \/ \E t \in noFull : noFull' = noFull \ {t} /\ UNCHANGED noEmpty
    /\ UNCHANGED <<ring, pool_end, wvars, lvars, dvars, executed>>

-----------------------------------------------------------------------------
LauncherNext(l) ==
    Launch(l) \/ LaunchBlocks(l) \/ LaunchStores(l) \/ WaitReturns(l)

WorkerNext(w) ==
    DequeueBlocks(w) \/ DequeueTakes(w) \/ Execute(w) \/ Notify(w)

DestroyNext ==
    \/ DestroyBegins \/ DestroyBlocks \/ DestroyStores
    \/ DestroyBroadcasts \/ DestroyJoins

Next ==
    \/ \E l \in Launchers : LauncherNext(l)
    \/ \E w \in Workers : WorkerNext(w)
    \/ DestroyNext
    \/ SpuriousWakeup

Spec == Init /\ [][Next]_vars

\* Every thread that can take a step takes one; nothing obliges a launcher to
\* launch, the caller to destroy, or a wait to wake up spuriously.
Fairness ==
    /\ \A l \in Launchers :
         WF_vars(LaunchBlocks(l) \/ LaunchStores(l) \/ WaitReturns(l))
    /\ \A w \in Workers : WF_vars(WorkerNext(w))
    /\ WF_vars(DestroyBlocks \/ DestroyStores \/ DestroyBroadcasts \/ DestroyJoins)

FairSpec == Spec /\ Fairness

-----------------------------------------------------------------------------
(* Properties *)

\* The i-th oldest operation in the ring, i \in 1..n_operation.
Pending(i) == operations_buffer[(deq_pos + i - 1) % MAX_OPERATIONS]

\* Types: n_operation, counted up and down by different threads, never leaves
\* 0..MAX_OPERATIONS, and both positions stay inside operations_buffer
\* (workers_pool.c:145-149 and 178-180).
TypeOK ==
    /\ operations_buffer \in [Slots -> Op \cup {TH_FINALIZE, NoOp}]
    /\ n_operation \in 0..MAX_OPERATIONS
    /\ enq_pos \in Slots /\ deq_pos \in Slots
    /\ pool_end \in BOOLEAN
    /\ noFull \subseteq Enqueuers /\ noEmpty \subseteq Workers
    /\ wpc \in [Workers -> {"dequeue", "execute", "notify", "exited"}]
    /\ th \in [Workers -> Op \cup {TH_FINALIZE, NoOp}]
    /\ lpc \in [Launchers -> {"idle", "enqueue", "wait"}]
    /\ th_arg \in [Launchers -> Op \cup {NoOp}]
    /\ r_wait \in [Launchers -> BOOLEAN]
    /\ launched \in [Launchers -> 0..MaxLaunches]
    /\ dpc \in {"running", "enqueue", "join", "done"}
    /\ finals \in 0..Cardinality(Workers)
    /\ executed \subseteq Op

\* The slots between deq_pos and enq_pos, and only they, hold operations that
\* were launched: what a worker runs is never a slot's leftover
\* (workers_pool.c:145-147 against 178-180).
RingInv ==
    /\ enq_pos = (deq_pos + n_operation) % MAX_OPERATIONS
    /\ \A i \in 1..n_operation : Pending(i) \in Op \cup {TH_FINALIZE}
    /\ \A w \in Workers : wpc[w] \in {"execute", "notify"} => th[w] \in Op
    /\ \A l \in Launchers : lpc[l] # "idle" => th_arg[l] \in Op

\* Who may be asleep on which condition variable.
WaitInv ==
    /\ \A w \in noEmpty : wpc[w] = "dequeue"
    /\ \A l \in noFull \ {Destroyer} : lpc[l] = "enqueue"
    /\ dpc = "running" <=> ~pool_end
    /\ ~pool_end => Destroyer \notin noFull
    /\ ~pool_end => \A i \in 1..n_operation : Pending(i) # TH_FINALIZE

\* Workers that will try worker_pool_dequeue without having to be woken.
AwakeWorkers == {w \in Workers : wpc[w] = "dequeue" /\ w \notin noEmpty}

\* Launchers that will try worker_pool_enqueue without having to be woken.
AwakeLaunchers == {l \in Launchers : lpc[l] = "enqueue" /\ l \notin noFull}

\* No lost wake-up on c_poll_no_empty (workers_pool.c:151 and 168): while some
\* worker sleeps there are at least as many workers on their way to
\* worker_pool_dequeue as there are queued operations, although each launch
\* signals once and the signalled worker may find the ring empty again.
WorkersNotStranded ==
    noEmpty # {} => n_operation <= Cardinality(AwakeWorkers)

\* No lost wake-up on c_pool_no_full (workers_pool.c:128 and 192) until the
\* pool ends: while a launcher sleeps, every free slot has a launcher on its
\* way to take it.
LaunchersNotStranded ==
    ~pool_end /\ noFull # {} =>
        MAX_OPERATIONS - n_operation <= Cardinality(AwakeLaunchers)

\* worker_pool_wait (workers_pool.c:202) returns only after the function of
\* the very operation this launcher launched has run: r_wait never carries a
\* completion over from an earlier launch.
WaitReturnsAfterItsOperation ==
    [][\A l \in Launchers :
         lpc[l] = "wait" /\ lpc'[l] # "wait" => th_arg[l] \in executed]_vars

\* worker_pool_destroy discards operations that are still queued
\* (workers_pool.c:182), but never one somebody waits for.
NoWaitedOperationDiscarded ==
    \A w \in Workers : wpc[w] = "exited" /\ th[w] # TH_FINALIZE => ~th[w].wait4me

\* Who waits for an operation is told of its end, and of nothing else.
WaitersServed == []NoWaitedOperationDiscarded /\ WaitReturnsAfterItsOperation

\* Once the ring holds an operation it is executed, or the pool is ended first.
QueuedOperationRuns ==
    \A op \in Op :
        (\E i \in 1..n_operation : Pending(i) = op) ~> (op \in executed \/ pool_end)

\* A launcher that entered base_workers_launch or base_workers_wait leaves it,
\* however many launchers compete for the ring (each a bounded number of times).
LauncherReturns == \A l \in Launchers : lpc[l] # "idle" ~> lpc[l] = "idle"

\* worker_pool_destroy ends, joining every worker, when the ring has room for
\* its TH_FINALIZE operations at the time it starts (workers_pool.c:238).
DestroyEnds ==
    (dpc = "enqueue" /\ finals = FinalizeCount /\ Destroyer \notin noFull
       /\ n_operation + Cardinality(Workers) <= MAX_OPERATIONS) ~> dpc = "done"

\* Launched operations run, and launch, wait and destroy return.
PoolGoesOn == QueuedOperationRuns /\ LauncherReturns /\ DestroyEnds

-----------------------------------------------------------------------------
(* The ring is a bounded first-in first-out queue of operations. *)

discardedOps == {th[w] : w \in {v \in Workers : wpc[v] = "exited"}} \ {TH_FINALIZE}

heldOps == {th[w] : w \in {v \in Workers : wpc[v] = "execute"}}

Queue == INSTANCE TaskQueue WITH
    Task <- Op, Final <- TH_FINALIZE, Capacity <- MAX_OPERATIONS,
    queue <- [i \in 1..n_operation |-> Pending(i)],
    started <- executed \cup heldOps,
    discarded <- discardedOps,
    closed <- pool_end

ImplementsTaskQueue == Queue!TaskSpec

=============================================================================
