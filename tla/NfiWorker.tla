------------------------------ MODULE NfiWorker ------------------------------
(***************************************************************************)
(* The client's side of a parallel call: xpn_pread, xpn_pwrite and         *)
(* XpnUpdateMetadata start one operation on each of several servers        *)
(* through nfi_worker_do_xxx and collect the results with nfiworker_wait.  *)
(* A server has ONE struct nfi_worker: its arg holds the operation to do   *)
(* and later its result, its warg the flag r_wait.  The thread that runs   *)
(* the operation gets a copy of warg, but reaches arg by a pointer.        *)
(* The threads are those of WorkersOnDemand or WorkersPool.                *)
(***************************************************************************)
EXTENDS Integers, FiniteSets, Sequences

CONSTANTS
    NServ,          \* servers 0..NServ-1 of the partition
    ReplicationLevel,
    ThreadModes,    \* the values of threads, below, to start from
    MaxCalls,       \* bound: calls of the application
    MaxUpdates,     \* bound: calls of XpnUpdateMetadata among them
    MaxMarks,       \* bound: servers marked in error
    MaxFailures     \* bound: failed calls of XpnGetFh

ASSUME NfiWorkerAssumption ==
    /\ NServ \in Nat \ {0} /\ ReplicationLevel \in 0..(NServ - 1) 
    /\ ThreadModes \subseteq BOOLEAN
    /\ {MaxCalls, MaxUpdates, MaxMarks, MaxFailures} \subseteq Nat

Servers == 0..(NServ - 1)

VARIABLES
    threads,   \* FALSE for TH_NOT, TRUE for TH_OP and TH_POOL (XPN_THREAD)
    call,      \* the call in progress: its number, kind, pc and position
    arg,       \* arg[s]: the call whose operation is in servers[s].wrk->arg
    result,    \* result[s]: the call whose result is in servers[s].wrk->arg
    r_wait,    \* r_wait[s]: servers[s].wrk->warg.r_wait
    tasks,     \* the launched operations that have not ended
    error,     \* servers with error = -1
    calls, updates, failures,
    got,       \* history: the results the waits of the call in progress returned
    done       \* history: done[s]: the calls whose operation server s has done

avars == <<arg, result, r_wait, tasks>>
bvars == <<threads, calls, updates, failures>>
vars == <<call, avars, error, bvars, got, done>>

NoCall == [n |-> 0, kind |-> "none", pc |-> "idle", i |-> 0]

Init ==
    /\ threads \in ThreadModes /\ call = NoCall
    /\ arg = [s \in Servers |-> 0] /\ result = [s \in Servers |-> 0]
    /\ r_wait = [s \in Servers |-> FALSE] /\ tasks = {}
    /\ error = {} /\ calls = 0 /\ updates = 0 /\ failures = 0
    /\ got = {} /\ done = [s \in Servers |-> {}]

-----------------------------------------------------------------------------
(* The loops of the calls *)

\* The servers a call launches on, in turn.
LaunchLast(kind) == IF kind = "update" THEN ReplicationLevel ELSE NServ - 1

\* The servers it waits for: the second loop of XpnUpdateMetadata ends one early.
\* WaitLastShort makes the same mistake in every call.
WaitLastShort(kind) == LaunchLast(kind) - 1
WaitLast(kind) == IF kind = "update" THEN ReplicationLevel - 1 ELSE NServ - 1

Begin(kind) ==
    /\ call.pc = "idle" /\ calls < MaxCalls
    /\ calls' = calls + 1
    /\ call' = [n |-> calls + 1, kind |-> kind, pc |-> "launch", i |-> 0]
    /\ got' = {}
    /\ UNCHANGED <<avars, threads, error, failures, done>>

PwriteBegins == Begin("pwrite") /\ UNCHANGED updates

UpdateMetadataBegins ==
    /\ updates < MaxUpdates /\ updates' = updates + 1
    /\ Begin("update")

\* After the last launch the waits begin; after the last wait the call returns.
AfterLaunch(c) ==
    IF c.i < LaunchLast(c.kind) THEN [c EXCEPT !.i = @ + 1]
    ELSE IF WaitLast(c.kind) >= 0 THEN [c EXCEPT !.pc = "wait", !.i = 0]
    ELSE NoCall

\* AfterWaitStays does not move on to the next server.
AfterWaitStays(c) == IF c.i < WaitLast(c.kind) THEN c ELSE NoCall
AfterWait(c) == IF c.i < WaitLast(c.kind) THEN [c EXCEPT !.i = @ + 1] ELSE NoCall

\* nfi_worker_do_xxx packs the request into arg, whether or not it is launched.
Packed(s, n) == [arg EXCEPT ![s] = n]

\* nfiworker_launch returns without doing anything for a server in error.
Launch ==
    LET s == call.i
        t == [s |-> s, n |-> call.n, pc |-> "start", op |-> 0]
    IN  /\ call.pc = "launch"
        /\ arg' = Packed(s, call.n)
        /\ IF s \in error
           THEN UNCHANGED <<result, r_wait, tasks, done>>
           ELSE /\ r_wait' = [r_wait EXCEPT ![s] = TRUE]
                /\ IF threads
                   THEN tasks' = tasks \cup {t} /\ UNCHANGED <<result, done>>
                   ELSE /\ result' = [result EXCEPT ![s] = call.n]
                        /\ done' = [done EXCEPT ![s] = @ \cup {call.n}]
                        /\ UNCHANGED tasks
        /\ call' = AfterLaunch(call)
        /\ UNCHANGED <<error, bvars, got>>

\* XpnGetFh fails for the next server: pread and pwrite free their buffers and
\* return without waiting for the servers launched before.
GetFhFails ==
    /\ call.pc = "launch" /\ call.kind = "pwrite" /\ failures < MaxFailures
    /\ failures' = failures + 1
    /\ call' = NoCall
    /\ UNCHANGED <<avars, threads, error, calls, updates, got, done>>

\* base_workers_wait.
WaitOver(s) == s \in error \/ ~threads \/ ~r_wait[s]

\* nfiworker_wait: 0 for a server in error, otherwise the result in arg.
Wait ==
    LET s == call.i
    IN  /\ call.pc = "wait"
        /\ WaitOver(s)
        /\ r_wait' = IF s \in error \/ ~threads THEN r_wait
                     ELSE [r_wait EXCEPT ![s] = TRUE]
        /\ got' = IF s \in error THEN got ELSE got \cup {<<call.n, s, result[s]>>}
        /\ call' = AfterWait(call)
        /\ UNCHANGED <<arg, result, tasks, error, bvars, done>>

-----------------------------------------------------------------------------
(* A thread in nfi_do_operation *)

\* It reads the operation from arg, not from its copy of warg.
TaskStarts(t) ==
    /\ t.pc = "start"
    /\ tasks' = (tasks \ {t}) \cup {[t EXCEPT !.pc = "run", !.op = arg[t.s]]}
    /\ UNCHANGED <<call, arg, result, r_wait, error, bvars, got, done>>

TaskRuns(t) ==
    /\ t.pc = "run"
    /\ done' = [done EXCEPT ![t.s] = @ \cup {t.op}]
    /\ result' = [result EXCEPT ![t.s] = t.op]
    /\ tasks' = (tasks \ {t}) \cup {[t EXCEPT !.pc = "notify"]}
    /\ UNCHANGED <<call, arg, r_wait, error, bvars, got>>

\* What the thread stores in r_wait.
Notified == FALSE

\* The thread clears r_wait through the pointer to the original st_th.
TaskNotifies(t) ==
    /\ t.pc = "notify"
    /\ r_wait' = [r_wait EXCEPT ![t.s] = Notified]
    /\ tasks' = tasks \ {t}
    /\ UNCHANGED <<call, arg, result, error, bvars, got, done>>

\* xpn_mark_error_server, from another thread of the application.
MarkError(s) ==
    /\ s \notin error /\ Cardinality(error) < MaxMarks
    /\ error' = error \cup {s}
    /\ UNCHANGED <<call, avars, bvars, got, done>>

-----------------------------------------------------------------------------
TaskNext(t) == TaskStarts(t) \/ TaskRuns(t) \/ TaskNotifies(t)

CallGoesOn == Launch \/ Wait

Next ==
    \/ PwriteBegins \/ UpdateMetadataBegins \/ CallGoesOn \/ GetFhFails
    \/ \E t \in tasks : TaskNext(t)
    \/ \E s \in Servers : MarkError(s)

Spec == Init /\ [][Next]_vars

\* Threads run on; nobody is obliged to make a call.
FairSpec ==
    Spec /\ WF_vars(CallGoesOn) /\ WF_vars(\E t \in tasks : TaskNext(t))

-----------------------------------------------------------------------------
(* Properties *)

\* nfiworker_wait returns the result of the operation that the call launched,
\* although arg and r_wait are those of every operation on the server: each
\* launch sets wait4me, "(wait4me==1) ? launch + wait : launch"
\* (workers_common.h:71).
WaitReturnsOwnResult == \A g \in got : g[3] = g[1]

\* What leaves a thread behind when a call is over: a metadata update, whose last
\* server is not waited for, a server that goes into error between launch and
\* wait, and a failed XpnGetFh.
Undisturbed == threads => updates = 0 /\ error = {} /\ failures = 0

\* ... always without threads, and with threads as long as no call left a thread
\* behind.
UndisturbedWaitReturnsOwnResult == Undisturbed => WaitReturnsOwnResult

\* When a call is over, and frees the buffers of its operations, no thread is at
\* work for it.
NoOperationLeftBehind == Undisturbed /\ call.pc = "idle" => tasks = {}

\* Every server that a call has waited for, unless in error, did its operation.
CallIsCarriedOut ==
    Undisturbed /\ call.pc = "wait" /\ call.i > 0 =>
        \A s \in 0..(call.i - 1) : s \in error \/ call.n \in done[s]

\* A call is told the ends of its own operations, and leaves none behind.
CallGetsItsResults ==
    UndisturbedWaitReturnsOwnResult /\ NoOperationLeftBehind /\ CallIsCarriedOut

\* Every call returns, also one that finds a thread of an earlier call behind it: its
\* wait may end early, on the notification of another operation, but it ends.
CallReturns == call.pc # "idle" ~> call.pc = "idle"

=============================================================================
