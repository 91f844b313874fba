--------------------------- MODULE WorkersOnDemand ---------------------------
(***************************************************************************)
(* The one-thread-per-operation workers of src/base/workers_ondemand.c.    *)
(* worker_ondemand_launch creates a detached thread that copies th_arg     *)
(* from the launcher's memory; the launcher must not touch th_arg before   *)
(* that, so it waits until busy_worker is FALSE.  busy_worker, n_workers   *)
(* and the conditions c_worker and c_nworkers are shared by everyone who   *)
(* uses the same worker_ondemand_t.                                        *)
(***************************************************************************)
EXTENDS Integers, FiniteSets

CONSTANTS
    Launchers,    \* threads that call worker_ondemand_launch on this worker
    MaxLaunches,  \* bound: launches of each launcher
    MaxFailures   \* bound: failed pthread_create calls

ASSUME OnDemandAssumption ==
    IsFiniteSet(Launchers) /\ MaxLaunches \in Nat /\ MaxFailures \in Nat

\* The thread created by the k-th launch of launcher l.
Threads == Launchers \X (1..MaxLaunches)

VARIABLES
    busy_worker, n_workers,
    cWorker,      \* launchers blocked in c_worker
    cNworkers,    \* is the destroyer blocked in c_nworkers?
    lpc, th_arg, r_wait, launched,   \* each launcher and its st_th
    tpc, th,      \* program counter and copied arguments of each thread
    failures,     \* failed pthread_create calls
    dpc,          \* program counter of workers_ondemand_destroy
    executed      \* history: for each launch, how often its function ran

wvars == <<busy_worker, n_workers, cWorker, cNworkers>>
lvars == <<lpc, th_arg, r_wait, launched>>
tvars == <<tpc, th>>
vars  == <<wvars, lvars, tvars, failures, dpc, executed>>

NoArg == [id |-> 0, wait4me |-> FALSE]

Init ==
    /\ busy_worker = TRUE /\ n_workers = 0
    /\ cWorker = {} /\ cNworkers = FALSE
    /\ lpc = [l \in Launchers |-> "idle"]
    /\ th_arg = [l \in Launchers |-> NoArg]
    /\ r_wait = [l \in Launchers |-> TRUE]
    /\ launched = [l \in Launchers |-> 0]
    /\ tpc = [t \in Threads |-> "none"] /\ th = [t \in Threads |-> NoArg]
    /\ failures = 0 /\ dpc = "running"
    /\ executed = [t \in Threads |-> 0]

-----------------------------------------------------------------------------
(* worker_ondemand_launch *)

\* busy_worker is set without the mutex, then th_arg is filled in.
LaunchBegins(l) ==
    /\ dpc = "running" /\ lpc[l] = "idle" /\ launched[l] < MaxLaunches
    /\ busy_worker' = TRUE
    /\ \E b \in BOOLEAN :
         th_arg' = [th_arg EXCEPT ![l] = [id |-> launched[l] + 1, wait4me |-> b]]
    /\ launched' = [launched EXCEPT ![l] = @ + 1]
    /\ r_wait' = [r_wait EXCEPT ![l] = TRUE]
    /\ lpc' = [lpc EXCEPT ![l] = "create"]
    /\ UNCHANGED <<n_workers, cWorker, cNworkers, tvars, failures, dpc, executed>>

ThreadCreated(l) ==
    /\ lpc[l] = "create"
    /\ tpc' = [tpc EXCEPT ![<<l, launched[l]>>] = "created"]
    /\ lpc' = [lpc EXCEPT ![l] = "handshake"]
    /\ UNCHANGED <<wvars, th_arg, r_wait, launched, th, failures, dpc, executed>>

\* pthread_create fails: the error is printed and the launcher waits all the same.
CreateFails(l) ==
    /\ lpc[l] = "create" /\ failures < MaxFailures
    /\ failures' = failures + 1
    /\ lpc' = [lpc EXCEPT ![l] = "handshake"]
    /\ UNCHANGED <<wvars, th_arg, r_wait, launched, tvars, dpc, executed>>

HandshakeBlocks(l) ==
    /\ lpc[l] = "handshake" /\ l \notin cWorker
    /\ busy_worker
    /\ cWorker' = cWorker \cup {l}
    /\ UNCHANGED <<busy_worker, n_workers, cNworkers, lvars, tvars, failures, dpc, executed>>

\* The test of the while loop.  HandshakeOverUntested is the form without it.
HandshakeOverUntested == TRUE
HandshakeOver == ~busy_worker

\* The rest of the launch; a caller that set wait4me goes on to wait.
LaunchReturns(l) ==
    /\ lpc[l] = "handshake" /\ l \notin cWorker
    /\ HandshakeOver
    /\ busy_worker' = TRUE
    /\ lpc' = [lpc EXCEPT ![l] = IF th_arg[l].wait4me THEN "wait" ELSE "idle"]
    /\ UNCHANGED <<n_workers, cWorker, cNworkers, th_arg, r_wait, launched, tvars,
                   failures, dpc, executed>>

\* worker_ondemand_wait.
WaitReturns(l) ==
    /\ lpc[l] = "wait" /\ ~r_wait[l]
    /\ r_wait' = [r_wait EXCEPT ![l] = TRUE]
    /\ lpc' = [lpc EXCEPT ![l] = "idle"]
    /\ UNCHANGED <<wvars, th_arg, launched, tvars, failures, dpc, executed>>

-----------------------------------------------------------------------------
(* worker_run *)

\* n_workers++ in the prolog.
Counted(n) == n + 1

\* The broadcast on c_worker.
PrologWakes == {}

\* The value Notify stores in r_wait.  NotifiedNever is the form without it.
NotifiedNever == TRUE
Notified == FALSE

\* Prolog: copy the arguments from the launcher's st_th, free the launcher.
Prolog(t) ==
    /\ tpc[t] = "created"
    /\ th' = [th EXCEPT ![t] = th_arg[t[1]]]
    /\ busy_worker' = FALSE
    /\ n_workers' = Counted(n_workers)
    /\ cWorker' = PrologWakes
    /\ tpc' = [tpc EXCEPT ![t] = "function"]
    /\ UNCHANGED <<cNworkers, lvars, failures, dpc, executed>>

Function(t) ==
    /\ tpc[t] = "function"
    /\ executed' = [executed EXCEPT ![<<t[1], th[t].id>>] = @ + 1]
    /\ tpc' = [tpc EXCEPT ![t] = IF th[t].wait4me THEN "notify" ELSE "epilog"]
    /\ UNCHANGED <<wvars, lvars, th, failures, dpc>>

Notify(t) ==
    /\ tpc[t] = "notify"
    /\ r_wait' = [r_wait EXCEPT ![t[1]] = Notified]
    /\ tpc' = [tpc EXCEPT ![t] = "epilog"]
    /\ UNCHANGED <<wvars, lpc, th_arg, launched, th, failures, dpc, executed>>

\* The broadcast on c_nworkers.
EpilogWakes == FALSE

Epilog(t) ==
    /\ tpc[t] = "epilog"
    /\ n_workers' = n_workers - 1
    /\ cNworkers' = EpilogWakes
    /\ tpc' = [tpc EXCEPT ![t] = "gone"]
    /\ UNCHANGED <<busy_worker, cWorker, lvars, th, failures, dpc, executed>>

-----------------------------------------------------------------------------
(* workers_ondemand_destroy, called when no thread is launching or waiting *)

DestroyBegins ==
    /\ dpc = "running" /\ \A l \in Launchers : lpc[l] = "idle"
    /\ dpc' = "draining"
    /\ UNCHANGED <<wvars, lvars, tvars, failures, executed>>

DestroyBlocks ==
    /\ dpc = "draining" /\ ~cNworkers /\ n_workers # 0
    /\ cNworkers' = TRUE
    /\ UNCHANGED <<busy_worker, n_workers, cWorker, lvars, tvars, failures, dpc, executed>>

DestroyReturns ==
    /\ dpc = "draining" /\ ~cNworkers /\ n_workers = 0
    /\ dpc' = "done"
    /\ UNCHANGED <<wvars, lvars, tvars, failures, executed>>

\* POSIX lets pthread_cond_wait return without a signal.
SpuriousWakeup ==
    /\ \/ \E l \in cWorker : cWorker' = cWorker \ {l} /\ UNCHANGED cNworkers
       \/ cNworkers /\ cNworkers' = FALSE /\ UNCHANGED cWorker
    /\ UNCHANGED <<busy_worker, n_workers, lvars, tvars, failures, dpc, executed>>

-----------------------------------------------------------------------------
ThreadNext(t) == Prolog(t) \/ Function(t) \/ Notify(t) \/ Epilog(t)

\* What a launcher does by itself once it has called worker_ondemand_launch.
LauncherGoesOn(l) ==
    \/ ThreadCreated(l) \/ HandshakeBlocks(l) \/ LaunchReturns(l) \/ WaitReturns(l)

Next ==
    \/ \E l \in Launchers : LaunchBegins(l) \/ LauncherGoesOn(l) \/ CreateFails(l)
    \/ \E t \in Threads : ThreadNext(t)
    \/ DestroyBegins \/ DestroyBlocks \/ DestroyReturns
    \/ SpuriousWakeup

Spec == Init /\ [][Next]_vars

\* Running threads keep running; nobody is obliged to launch or to destroy.
Fairness ==
    /\ \A l \in Launchers : WF_vars(LauncherGoesOn(l))
    /\ \A t \in Threads : WF_vars(ThreadNext(t))
    /\ WF_vars(DestroyBlocks \/ DestroyReturns)

FairSpec == Spec /\ Fairness

-----------------------------------------------------------------------------
(* Properties *)

\* The comment "wait to copy args..." of worker_ondemand_launch
\* (workers_ondemand.c:148): a launch is over only when its own thread has its
\* own copy of the arguments.
LaunchWaitsForTheCopy ==
    \A l \in Launchers :
        lpc[l] \in {"idle", "wait"} /\ launched[l] > 0 =>
            tpc[<<l, launched[l]>>] \notin {"none", "created"}

\* Each launch runs its function at most once, with its own arguments, although
\* the thread reads them from memory the launcher uses again.
EachLaunchRunsOnce ==
    /\ \A t \in Threads : tpc[t] \notin {"none", "created"} => th[t].id = t[2]
    /\ \A t \in Threads : executed[t] <= 1

\* workers_ondemand_destroy (workers_ondemand.c:196) destroys the mutex only
\* when no thread will use it any more: a thread is counted before the launch
\* that created it returns.
NoThreadOutlivesDestroy ==
    dpc = "done" => \A t \in Threads : tpc[t] \in {"none", "gone"}

\* What a launch hands over is used once, by its own thread, which destroy awaits.
LaunchHandsOver == LaunchWaitsForTheCopy /\ EachLaunchRunsOnce /\ NoThreadOutlivesDestroy

\* A launch whose thread could be created returns, and a caller that waits is
\* woken by its own thread, also after a pthread_create of another launch failed.
LauncherReturns ==
    \A l \in Launchers :
        lpc[l] # "idle" ~> (lpc[l] = "idle" \/ (failures > 0 /\ lpc[l] # "wait"))

\* Destroy drains the threads and returns.
DestroyTerminates == dpc = "draining" ~> dpc = "done"

\* Launch, wait and destroy return.
OnDemandGoesOn == LauncherReturns /\ DestroyTerminates

=============================================================================
