------------------------------ MODULE NfiProofs ------------------------------
(***************************************************************************)
(* Proofs about the client's network file interface.                       *)
(*                                                                         *)
(* First the parallel calls (NfiWorker), for any number of servers, any    *)
(* replication level and any number of calls: the results a call collects  *)
(* are its own, and it leaves no thread behind, as long as every launch is *)
(* waited for.                                                             *)
(*                                                                         *)
(* Then one connection (ServerSession), for any XPN_PATH_MAX, any          *)
(* MAX_BUFFER_SIZE, any sizes and any number of calls: the client and the  *)
(* server, which frame no message, read from the stream what the other one *)
(* meant, and what a call returns is what the server did.                  *)
(***************************************************************************)
EXTENDS NfiWorker, ServerSession, SequenceTheorems, TLAPS

Tasks == [s : Servers, n : Nat, pc : {"start", "run", "notify"}, op : Nat]

NfiWorkerType ==
    /\ threads \in BOOLEAN
    /\ call \in [n : Nat, kind : {"none", "pwrite", "update"}, pc : {"idle", "launch", "wait"}, i : Nat]
    /\ arg \in [Servers -> Nat] /\ result \in [Servers -> Nat] /\ r_wait \in [Servers -> BOOLEAN]
    /\ tasks \subseteq Tasks /\ error \subseteq Servers
    /\ calls \in Nat /\ updates \in Nat /\ failures \in Nat
    /\ done \in [Servers -> SUBSET Nat]

\* Where the loops of a call are.
LoopInv ==
    /\ call.pc = "launch" => call.i <= LaunchLast(call.kind)
    /\ call.pc = "wait" => call.i <= WaitLast(call.kind)
    /\ call.pc # "idle" => call.kind # "none"
    /\ call.kind = "update" => updates > 0

\* The servers the call has launched on, and those of them it has to wait for.
Launched(s) == IF call.pc = "launch" THEN s < call.i
               ELSE call.pc = "wait" /\ s <= LaunchLast(call.kind)
Awaited(s) == IF call.pc = "launch" THEN s < call.i
              ELSE call.pc = "wait" /\ call.i <= s

\* A thread works on the operation of the call in progress, one on a server.
TaskInv ==
    Undisturbed => \A t \in tasks :
        /\ threads = TRUE /\ Awaited(t.s) /\ arg[t.s] = call.n /\ r_wait[t.s] = TRUE
        /\ t.pc # "start" => t.op = call.n
        /\ t.pc = "notify" => result[t.s] = call.n /\ call.n \in done[t.s]
        /\ \A u \in tasks : u.s = t.s => u = t

\* An operation that was launched and has no thread any more has been done.
DoneInv ==
    Undisturbed => \A s \in Servers :
        Launched(s) /\ (\A t \in tasks : t.s # s) =>
            s \in error \/ (result[s] = call.n /\ call.n \in done[s])

NfiWorkerInv ==
    NfiWorkerType /\ LoopInv /\ TaskInv /\ DoneInv /\ UndisturbedWaitReturnsOwnResult

-----------------------------------------------------------------------------
(* The steps *)

LEMMA LoopEnds ==
    /\ LaunchLast("update") \in Nat /\ LaunchLast("pwrite") \in Nat
    /\ LaunchLast("pwrite") = WaitLast("pwrite")
    /\ \A kind : LaunchLast(kind) < NServ /\ WaitLast(kind) <= LaunchLast(kind) /\ WaitLast(kind) \in Int
                 /\ LaunchLast(kind) \in Nat
  BY NfiWorkerAssumption DEF LaunchLast, WaitLast

\* A call in progress, and how far its loops may be.
LEMMA CallIsRecord ==
    ASSUME NfiWorkerInv, call.pc # "idle"
    PROVE  \E s \in Servers, n \in Nat, kind \in {"pwrite", "update"} :
             \/ call = [n |-> n, kind |-> kind, pc |-> "launch", i |-> s] /\ s <= LaunchLast(kind)
             \/ call = [n |-> n, kind |-> kind, pc |-> "wait", i |-> s] /\ s <= WaitLast(kind)
  <1>1. /\ call = [n |-> call.n, kind |-> call.kind, pc |-> call.pc, i |-> call.i]
        /\ call.n \in Nat /\ call.i \in Nat /\ call.kind \in {"pwrite", "update"}
        /\ call.pc \in {"launch", "wait"}
    BY DEF NfiWorkerInv, NfiWorkerType, LoopInv
  <1>2. call.i <= LaunchLast(call.kind) /\ (call.pc = "wait" => call.i <= WaitLast(call.kind))
    BY <1>1, LoopEnds DEF NfiWorkerInv, LoopInv
  <1>3. call.i \in Servers
    BY <1>1, <1>2, LoopEnds, NfiWorkerAssumption DEF Servers
  <1> QED
    BY <1>1, <1>2, <1>3

LEMMA InitNfiWorkerInv == Init => NfiWorkerInv
  <1> SUFFICES ASSUME Init PROVE NfiWorkerInv
    OBVIOUS
  <1>1. NfiWorkerType
    BY NfiWorkerAssumption DEF Init, NfiWorkerType, NoCall
  <1>2. LoopInv /\ DoneInv
    BY DEF Init, LoopInv, DoneInv, NoCall, Launched
  <1>3. TaskInv /\ UndisturbedWaitReturnsOwnResult
    BY DEF Init, TaskInv, UndisturbedWaitReturnsOwnResult, WaitReturnsOwnResult
  <1> QED
    BY <1>1, <1>2, <1>3 DEF NfiWorkerInv

\* A call begins when there is none, and hence no thread that was not left behind.
LEMMA BeginKeeps ==
    ASSUME NfiWorkerInv, PwriteBegins \/ UpdateMetadataBegins
    PROVE  NfiWorkerInv'
  <1>1. PICK kind \in {"pwrite", "update"} :
          /\ call.pc = "idle" /\ calls' = calls + 1 /\ got' = {}
          /\ call' = [n |-> calls + 1, kind |-> kind, pc |-> "launch", i |-> 0]
          /\ updates' = IF kind = "update" THEN updates + 1 ELSE updates
          /\ UNCHANGED <<arg, result, r_wait, tasks, threads, error, failures, done>>
    BY DEF PwriteBegins, UpdateMetadataBegins, Begin, avars
  <1>2. NfiWorkerType'
    BY <1>1 DEF NfiWorkerInv, NfiWorkerType
  <1>3. LoopInv'
    BY <1>1, LoopEnds DEF NfiWorkerInv, NfiWorkerType, LoopInv
  <1>4. Undisturbed' => Undisturbed
    BY <1>1 DEF Undisturbed, NfiWorkerInv, NfiWorkerType
  <1>5. TaskInv'
    <2>1. Undisturbed => tasks = {}
      BY <1>1 DEF NfiWorkerInv, TaskInv, Awaited
    <2> QED
      BY <1>1, <1>4, <2>1 DEF TaskInv
  <1>6. DoneInv'
    <2>1. ASSUME NEW s \in Servers PROVE ~Launched(s)'
      BY <1>1, NfiWorkerAssumption DEF Launched, Servers
    <2> QED
      BY <2>1 DEF DoneInv
  <1>7. UndisturbedWaitReturnsOwnResult'
    BY <1>1 DEF UndisturbedWaitReturnsOwnResult, WaitReturnsOwnResult
  <1> QED
    BY <1>2, <1>3, <1>5, <1>6, <1>7 DEF NfiWorkerInv

\* nfi_worker_do_xxx on the next server, on which no thread is at work.
LEMMA LaunchKeeps == ASSUME NfiWorkerInv, Launch PROVE NfiWorkerInv'
  <1> USE NfiWorkerAssumption
  <1>0. PICK s \in Servers, n \in Nat, kind \in {"pwrite", "update"} :
          call = [n |-> n, kind |-> kind, pc |-> "launch", i |-> s] /\ s <= LaunchLast(kind)
    BY CallIsRecord DEF Launch
  <1>1. /\ call.pc = "launch" /\ arg' = [arg EXCEPT ![s] = n]
        /\ call' = AfterLaunch(call)
        /\ UNCHANGED <<error, threads, calls, updates, failures, got>>
    BY <1>0 DEF Launch, Packed, bvars
  <1>2. \/ s \in error /\ UNCHANGED <<result, r_wait, tasks, done>>
        \/ /\ s \notin error /\ threads = TRUE /\ r_wait' = [r_wait EXCEPT ![s] = TRUE]
           /\ tasks' = tasks \cup {[s |-> s, n |-> n, pc |-> "start", op |-> 0]}
           /\ UNCHANGED <<result, done>>
        \/ /\ s \notin error /\ threads = FALSE /\ r_wait' = [r_wait EXCEPT ![s] = TRUE]
           /\ result' = [result EXCEPT ![s] = n]
           /\ done' = [done EXCEPT ![s] = @ \cup {n}]
           /\ tasks' = tasks
    BY <1>0 DEF Launch, NfiWorkerInv, NfiWorkerType
  <1>3. \/ /\ s < LaunchLast(kind) /\ call' = [n |-> n, kind |-> kind, pc |-> "launch", i |-> s + 1]
        \/ /\ s = LaunchLast(kind) /\ WaitLast(kind) >= 0
           /\ call' = [n |-> n, kind |-> kind, pc |-> "wait", i |-> 0]
        \/ /\ s = LaunchLast(kind) /\ WaitLast(kind) < 0
           /\ call' = NoCall
    <2>1. s \in Nat /\ LaunchLast(kind) \in Nat /\ WaitLast(kind) \in Int
      BY LoopEnds DEF Servers
    <2>2. CASE s < LaunchLast(kind)
      BY <1>0, <1>1, <2>1, <2>2 DEF AfterLaunch
    <2>3. CASE s = LaunchLast(kind) /\ WaitLast(kind) >= 0
      <3>1. call' = [call EXCEPT !.pc = "wait", !.i = 0]
        BY <1>0, <1>1, <2>1, <2>3 DEF AfterLaunch
      <3> QED
        BY <1>0, <2>3, <3>1
    <2>4. CASE s = LaunchLast(kind) /\ WaitLast(kind) < 0
      BY <1>0, <1>1, <2>1, <2>4 DEF AfterLaunch
    <2> QED
      BY <1>0, <2>1, <2>2, <2>3, <2>4
  <1>4. NfiWorkerType'
    <2>1. call' \in [n : Nat, kind : {"none", "pwrite", "update"}, pc : {"idle", "launch", "wait"}, i : Nat]
      BY SMTT(40), <1>3 DEF NfiWorkerInv, NfiWorkerType, NoCall, Servers
    <2>2. arg' \in [Servers -> Nat] /\ result' \in [Servers -> Nat] /\ done' \in [Servers -> SUBSET Nat]
      BY <1>1, <1>2 DEF NfiWorkerInv, NfiWorkerType
    <2>3. tasks' \subseteq Tasks
      BY <1>2 DEF NfiWorkerInv, NfiWorkerType, Tasks
    <2>4. r_wait' \in [Servers -> BOOLEAN]
      BY <1>2 DEF NfiWorkerInv, NfiWorkerType
    <2> QED
      BY <1>1, <2>1, <2>2, <2>3, <2>4 DEF NfiWorkerInv, NfiWorkerType
  <1>5. LoopInv'
    <2>1. s \in Nat /\ LaunchLast(kind) \in Nat /\ WaitLast(kind) \in Int
      BY LoopEnds DEF Servers
    <2>2. kind = "update" => updates' > 0
      BY <1>0, <1>1 DEF NfiWorkerInv, LoopInv
    <2>3. CASE call' = NoCall
      BY <2>3 DEF LoopInv, NoCall
    <2>4. CASE call' # NoCall
      BY <1>3, <2>1, <2>2, <2>4 DEF LoopInv
    <2> QED
      BY <2>3, <2>4
  <1>6. (Undisturbed' <=> Undisturbed) /\ UndisturbedWaitReturnsOwnResult'
    BY <1>1 DEF NfiWorkerInv, Undisturbed, UndisturbedWaitReturnsOwnResult, WaitReturnsOwnResult
  <1>7. /\ arg'[s] = n
        /\ \A r \in Servers \ {s} : /\ arg'[r] = arg[r] /\ result'[r] = result[r]
                                    /\ r_wait'[r] = r_wait[r] /\ done'[r] = done[r]
    BY <1>1, <1>2 DEF NfiWorkerInv, NfiWorkerType
  <1>8. TaskInv'
    <2> SUFFICES ASSUME Undisturbed, NEW t \in tasks'
                 PROVE  /\ threads' = TRUE /\ Awaited(t.s)' /\ arg'[t.s] = call'.n /\ r_wait'[t.s] = TRUE
                        /\ t.pc # "start" => t.op = call'.n
                        /\ t.pc = "notify" => result'[t.s] = call'.n /\ call'.n \in done'[t.s]
                        /\ \A u \in tasks' : u.s = t.s => u = t
      BY <1>6 DEF TaskInv
    <2>1. t.s \in Servers
      BY <1>4 DEF NfiWorkerType, Tasks
    <2>2. \A u \in tasks : u.s < s /\ u.s \in Servers
      BY <1>0, <1>1 DEF NfiWorkerInv, NfiWorkerType, TaskInv, Awaited, Tasks
    <2>3. threads = TRUE
      BY <1>2 DEF NfiWorkerInv, TaskInv
    <2>4. kind = "pwrite" /\ call'.n = n
      BY <1>0, <1>1, <1>3, <2>3, LoopEnds DEF NfiWorkerInv, NfiWorkerType, LoopInv, Undisturbed
    <2>5. t.s <= s /\ \A u \in tasks' : u.s = t.s => u = t
      BY <1>2, <2>2, <2>3 DEF NfiWorkerInv, TaskInv, Servers
    <2>6. Awaited(t.s)'
      <3>1. s \in Nat /\ t.s \in Nat /\ LaunchLast(kind) = WaitLast(kind) /\ LaunchLast(kind) \in Nat
        BY <2>1, <2>4, LoopEnds DEF Servers
      <3>2. \/ call'.pc = "launch" /\ call'.i = s + 1
            \/ call'.pc = "wait" /\ call'.i = 0
        BY <1>3, <3>1
      <3> QED
        BY <2>5, <3>1, <3>2 DEF Awaited
    <2>7. CASE t \in tasks
      <3>1. t.s # s
        BY <2>2, <2>7 DEF Servers
      <3>2. /\ arg[t.s] = n /\ r_wait[t.s] = TRUE
            /\ t.pc # "start" => t.op = n
            /\ t.pc = "notify" => result[t.s] = n /\ n \in done[t.s]
        BY <1>0, <2>7 DEF NfiWorkerInv, TaskInv
      <3> QED
        BY <1>1, <1>7, <2>1, <2>3, <2>4, <2>5, <2>6, <3>1, <3>2
    <2>8. CASE t \notin tasks
      <3>1. t = [s |-> s, n |-> n, pc |-> "start", op |-> 0] /\ r_wait' = [r_wait EXCEPT ![s] = TRUE]
        BY <1>2, <2>3, <2>8
      <3>2. r_wait'[s] = TRUE
        BY <3>1 DEF NfiWorkerInv, NfiWorkerType
      <3> QED
        BY <1>1, <1>7, <2>3, <2>4, <2>5, <2>6, <3>1, <3>2
    <2> QED
      BY <2>7, <2>8
  <1>9. DoneInv'
    <2> SUFFICES ASSUME Undisturbed, NEW r \in Servers, Launched(r)', \A t \in tasks' : t.s # r
                 PROVE  r \in error' \/ (result'[r] = call'.n /\ call'.n \in done'[r])
      BY <1>6 DEF DoneInv
    <2>1. r <= s /\ call'.n = n
      BY SMTT(40), <1>0, <1>1, <1>3 DEF Launched, NoCall, NfiWorkerInv, NfiWorkerType, Servers
    <2>2. CASE r = s
      <3>1. threads = TRUE => s \in error
        <4>1. PICK u : u = [s |-> s, n |-> n, pc |-> "start", op |-> 0]
          OBVIOUS
        <4>2. u \notin tasks'
          BY <2>2, <4>1
        <4> QED
          BY <1>2, <4>1, <4>2
      <3>2. s \notin error => n \in done'[s] /\ result'[s] = n
        <4>1. ASSUME s \notin error
              PROVE  result' = [result EXCEPT ![s] = n] /\ done' = [done EXCEPT ![s] = @ \cup {n}]
          BY <1>2, <3>1, <4>1
        <4> QED
          BY <4>1 DEF NfiWorkerInv, NfiWorkerType
      <3> QED
        BY <1>1, <2>1, <2>2, <3>2
    <2>3. CASE r # s
      <3>1. Launched(r) /\ \A t \in tasks : t.s # r
        BY <1>0, <1>1, <1>2, <2>1, <2>3 DEF Launched, Servers
      <3> QED
        BY <1>0, <1>1, <1>7, <2>1, <2>3, <3>1 DEF NfiWorkerInv, DoneInv
    <2> QED
      BY <2>2, <2>3
  <1> QED
    BY <1>4, <1>5, <1>6, <1>8, <1>9 DEF NfiWorkerInv

\* XpnGetFh fails: the call is disturbed with threads, and without there is nothing left.
LEMMA GetFhFailsKeeps == ASSUME NfiWorkerInv, GetFhFails PROVE NfiWorkerInv'
  <1>1. /\ failures' = failures + 1 /\ call' = NoCall
        /\ UNCHANGED <<arg, result, r_wait, tasks, threads, error, calls, updates, got, done>>
    BY DEF GetFhFails, avars
  <1>2. NfiWorkerType'
    BY <1>1 DEF NfiWorkerInv, NfiWorkerType, NoCall
  <1>3. LoopInv' /\ DoneInv'
    BY <1>1 DEF LoopInv, DoneInv, Launched, NoCall
  <1>4. Undisturbed' => Undisturbed /\ threads = FALSE
    BY <1>1 DEF Undisturbed, NfiWorkerInv, NfiWorkerType
  <1>5. TaskInv' /\ UndisturbedWaitReturnsOwnResult'
    BY <1>1, <1>4 DEF NfiWorkerInv, TaskInv, UndisturbedWaitReturnsOwnResult, WaitReturnsOwnResult
  <1> QED
    BY <1>2, <1>3, <1>5 DEF NfiWorkerInv

\* nfiworker_wait: the flag is only down when the thread has stored its result.
LEMMA WaitKeeps == ASSUME NfiWorkerInv, Wait PROVE NfiWorkerInv'
  <1> USE NfiWorkerAssumption
  <1>0. PICK s \in Servers, n \in Nat, kind \in {"pwrite", "update"} :
          call = [n |-> n, kind |-> kind, pc |-> "wait", i |-> s] /\ s <= WaitLast(kind)
    BY CallIsRecord DEF Wait
  <1>1. /\ s \in error \/ threads = FALSE \/ r_wait[s] = FALSE
        /\ r_wait' = IF s \in error \/ ~threads THEN r_wait ELSE [r_wait EXCEPT ![s] = TRUE]
        /\ got' = IF s \in error THEN got ELSE got \cup {<<n, s, result[s]>>}
        /\ call' = AfterWait(call)
        /\ UNCHANGED <<arg, result, tasks, error, threads, calls, updates, failures, done>>
    BY <1>0 DEF Wait, WaitOver, bvars, NfiWorkerInv, NfiWorkerType
  <1>2. \/ s < WaitLast(kind) /\ call' = [n |-> n, kind |-> kind, pc |-> "wait", i |-> s + 1]
        \/ s = WaitLast(kind) /\ call' = NoCall
    <2>1. s \in Nat /\ WaitLast(kind) \in Int
      BY LoopEnds DEF Servers
    <2> QED
      BY <1>0, <1>1, <2>1 DEF AfterWait
  <1>3. NfiWorkerType'
    <2>1. r_wait' \in [Servers -> BOOLEAN]
      BY <1>1 DEF NfiWorkerInv, NfiWorkerType
    <2>2. call' \in [n : Nat, kind : {"none", "pwrite", "update"}, pc : {"idle", "launch", "wait"}, i : Nat]
      BY SMTT(40), <1>2 DEF NfiWorkerInv, NfiWorkerType, NoCall, Servers
    <2> QED
      BY <1>1, <2>1, <2>2 DEF NfiWorkerInv, NfiWorkerType
  <1>4. LoopInv'
    <2>1. s \in Nat /\ LaunchLast(kind) \in Nat /\ WaitLast(kind) \in Int
      BY LoopEnds DEF Servers
    <2>2. kind = "update" => updates' > 0
      BY <1>0, <1>1 DEF NfiWorkerInv, LoopInv
    <2>3. CASE call' = NoCall
      BY <2>3 DEF LoopInv, NoCall
    <2>4. CASE call' # NoCall
      BY <1>2, <2>1, <2>2, <2>4 DEF LoopInv
    <2> QED
      BY <2>3, <2>4
  <1>5. Undisturbed' <=> Undisturbed
    BY <1>1 DEF Undisturbed
  <1>6. ASSUME Undisturbed
        PROVE  /\ \A t \in tasks : t.s # s /\ t.s \in Servers
               /\ s \in error \/ result[s] = n
    <2>1. ASSUME NEW t \in tasks PROVE t.s # s /\ t.s \in Servers
      BY <1>1, <1>6 DEF NfiWorkerInv, NfiWorkerType, TaskInv, Undisturbed, Tasks
    <2>2. Launched(s)
      BY SMTT(40), <1>0, LoopEnds DEF Launched, Servers, NfiWorkerInv, NfiWorkerType
    <2> QED
      BY <1>0, <1>6, <2>1, <2>2 DEF NfiWorkerInv, DoneInv
  <1>7. UndisturbedWaitReturnsOwnResult'
    BY <1>1, <1>5, <1>6 DEF NfiWorkerInv, UndisturbedWaitReturnsOwnResult, WaitReturnsOwnResult
  <1>8. TaskInv'
    <2> SUFFICES ASSUME Undisturbed, NEW t \in tasks
                 PROVE  /\ threads' = TRUE /\ Awaited(t.s)' /\ arg'[t.s] = call'.n /\ r_wait'[t.s] = TRUE
                        /\ t.pc # "start" => t.op = call'.n
                        /\ t.pc = "notify" => result'[t.s] = call'.n /\ call'.n \in done'[t.s]
                        /\ \A u \in tasks' : u.s = t.s => u = t
      BY <1>1, <1>5 DEF TaskInv
    <2>1. /\ threads = TRUE /\ Awaited(t.s) /\ arg[t.s] = n /\ r_wait[t.s] = TRUE
          /\ t.pc # "start" => t.op = n
          /\ t.pc = "notify" => result[t.s] = n /\ n \in done[t.s]
          /\ \A u \in tasks : u.s = t.s => u = t
      BY <1>0 DEF NfiWorkerInv, TaskInv
    <2>2. t.s # s /\ t.s \in Servers /\ kind = "pwrite"
      BY <1>0, <1>6, <2>1 DEF NfiWorkerInv, NfiWorkerType, LoopInv, Undisturbed
    <2>3. s < t.s
      BY <1>0, <2>1, <2>2 DEF Awaited, Servers
    <2>4. s < WaitLast(kind) /\ call' = [n |-> n, kind |-> kind, pc |-> "wait", i |-> s + 1]
      BY <1>2, <2>2, <2>3, LoopEnds DEF WaitLast, Servers
    <2>5. Awaited(t.s)' /\ call'.n = n
      BY <1>0, <2>3, <2>2, <2>4 DEF Awaited, Servers, NfiWorkerInv, NfiWorkerType
    <2>6. r_wait'[t.s] = r_wait[t.s]
      BY <1>1, <2>2 DEF NfiWorkerInv, NfiWorkerType
    <2> QED
      BY <1>1, <2>1, <2>5, <2>6
  <1>9. DoneInv'
    <2> SUFFICES ASSUME Undisturbed, NEW r \in Servers, Launched(r)', \A t \in tasks : t.s # r
                 PROVE  r \in error \/ (result[r] = call'.n /\ call'.n \in done[r])
      BY <1>1, <1>5 DEF DoneInv
    <2>1. Launched(r) /\ call'.n = call.n
      BY <1>0, <1>2 DEF Launched, NoCall, NfiWorkerInv, NfiWorkerType
    <2> QED
      BY <2>1 DEF NfiWorkerInv, DoneInv
  <1> QED
    BY <1>3, <1>4, <1>7, <1>8, <1>9 DEF NfiWorkerInv

LEMMA TaskStarted ==
    ASSUME NEW t, NEW u, NEW a, t = [s |-> t.s, n |-> t.n, pc |-> t.pc, op |-> t.op],
           u = [t EXCEPT !.pc = "run", !.op = a]
    PROVE  u = [s |-> t.s, n |-> t.n, pc |-> "run", op |-> a]
  <1>1. PICK r, m, p, o : r = t.s /\ m = t.n /\ p = t.pc /\ o = t.op
    OBVIOUS
  <1>2. t = [s |-> r, n |-> m, pc |-> p, op |-> o]
    BY <1>1, Zenon
  <1>3. u = [s |-> r, n |-> m, pc |-> "run", op |-> a]
    BY ONLY <1>2, u = [t EXCEPT !.pc = "run", !.op = a]
  <1> QED
    BY <1>1, <1>3, Zenon

\* The thread of an operation, from reading arg to clearing the flag.
LEMMA TaskKeeps == ASSUME NfiWorkerInv, NEW t \in tasks, TaskNext(t) PROVE NfiWorkerInv'
  <1> USE NfiWorkerAssumption
  <1>0. /\ t.s \in Servers /\ t.n \in Nat /\ t.op \in Nat /\ t.pc \in {"start", "run", "notify"}
        /\ t = [s |-> t.s, n |-> t.n, pc |-> t.pc, op |-> t.op]
    BY DEF NfiWorkerInv, NfiWorkerType, Tasks
  <1>1. UNCHANGED <<call, arg, error, threads, calls, updates, failures, got>>
    BY DEF TaskNext, TaskStarts, TaskRuns, TaskNotifies, bvars
  <1>2. (Undisturbed' <=> Undisturbed) /\ LoopInv' /\ UndisturbedWaitReturnsOwnResult'
    BY <1>1 DEF Undisturbed, NfiWorkerInv, LoopInv, UndisturbedWaitReturnsOwnResult, WaitReturnsOwnResult
  <1>3. \A r : (Awaited(r)' <=> Awaited(r)) /\ (Launched(r)' <=> Launched(r))
    BY <1>1 DEF Awaited, Launched
  <1>4. ASSUME TaskStarts(t) PROVE NfiWorkerInv'
    <2>1. PICK v \in Tasks : v = [s |-> t.s, n |-> t.n, pc |-> "run", op |-> arg[t.s]]
      BY <1>0 DEF Tasks, NfiWorkerInv, NfiWorkerType
    <2>2. tasks' = (tasks \ {t}) \cup {v} /\ UNCHANGED <<result, r_wait, done>>
      <3>1. v = [t EXCEPT !.pc = "run", !.op = arg[t.s]]
        BY <1>0, <2>1, TaskStarted, Zenon
      <3> QED
        BY <1>4, <3>1 DEF TaskStarts
    <2>3. NfiWorkerType'
      BY <1>1, <2>2 DEF NfiWorkerInv, NfiWorkerType
    <2>4. TaskInv'
      BY <1>1, <1>2, <1>3, <2>1, <2>2 DEF NfiWorkerInv, TaskInv
    <2>5. DoneInv'
      BY <1>1, <1>2, <1>3, <2>1, <2>2 DEF NfiWorkerInv, DoneInv
    <2> QED
      BY <1>2, <2>3, <2>4, <2>5 DEF NfiWorkerInv
  <1>5. ASSUME TaskRuns(t) PROVE NfiWorkerInv'
    <2>1. PICK v \in Tasks : v = [s |-> t.s, n |-> t.n, pc |-> "notify", op |-> t.op]
      BY <1>0 DEF Tasks
    <2>2. /\ tasks' = (tasks \ {t}) \cup {v} /\ t.pc = "run" /\ r_wait' = r_wait
          /\ done' = [done EXCEPT ![t.s] = @ \cup {t.op}] /\ result' = [result EXCEPT ![t.s] = t.op]
      BY <1>0, <1>5, <2>1 DEF TaskRuns
    <2>3. /\ t.op \in done'[t.s] /\ result'[t.s] = t.op
          /\ \A r \in Servers \ {t.s} : done'[r] = done[r] /\ result'[r] = result[r]
      BY <1>0, <2>2 DEF NfiWorkerInv, NfiWorkerType
    <2>4. NfiWorkerType'
      <3>1. done' \in [Servers -> SUBSET Nat] /\ result' \in [Servers -> Nat]
        BY <1>0, <2>2 DEF NfiWorkerInv, NfiWorkerType
      <3> QED
        BY <1>1, <2>2, <3>1 DEF NfiWorkerInv, NfiWorkerType
    <2>5. TaskInv'
      <3> SUFFICES ASSUME Undisturbed, NEW u \in tasks'
                   PROVE  /\ threads = TRUE /\ Awaited(u.s) /\ arg[u.s] = call.n /\ r_wait[u.s] = TRUE
                          /\ u.pc # "start" => u.op = call.n
                          /\ u.pc = "notify" => result'[u.s] = call.n /\ call.n \in done'[u.s]
                          /\ \A w \in tasks' : w.s = u.s => w = u
        BY <1>1, <1>2, <1>3, <2>2 DEF TaskInv
      <3>1. /\ Awaited(t.s) /\ arg[t.s] = call.n /\ r_wait[t.s] = TRUE /\ t.op = call.n /\ threads = TRUE
            /\ \A w \in tasks : w.s = t.s => w = t
        BY <2>2 DEF NfiWorkerInv, TaskInv
      <3>2. CASE u = v
        BY <2>1, <2>2, <2>3, <3>1, <3>2
      <3>3. CASE u # v
        <4>1. u \in tasks /\ u.s # t.s /\ u.s \in Servers
          BY <2>2, <3>1, <3>3 DEF NfiWorkerInv, NfiWorkerType, Tasks
        <4> QED
          BY <2>1, <2>2, <2>3, <4>1 DEF NfiWorkerInv, TaskInv
      <3> QED
        BY <3>2, <3>3
    <2>6. DoneInv'
      <3> SUFFICES ASSUME Undisturbed, NEW r \in Servers, Launched(r), \A u \in tasks' : u.s # r
                   PROVE  r \in error \/ (result'[r] = call.n /\ call.n \in done'[r])
        BY <1>1, <1>2, <1>3 DEF DoneInv
      <3>1. r # t.s /\ \A u \in tasks : u.s # r
        BY <2>1, <2>2
      <3> QED
        BY <2>3, <3>1 DEF NfiWorkerInv, DoneInv
    <2> QED
      BY <1>2, <2>4, <2>5, <2>6 DEF NfiWorkerInv
  <1>6. ASSUME TaskNotifies(t) PROVE NfiWorkerInv'
    <2>1. /\ t.pc = "notify" /\ tasks' = tasks \ {t} /\ UNCHANGED <<result, done>>
          /\ r_wait' = [r_wait EXCEPT ![t.s] = FALSE]
      BY <1>6 DEF TaskNotifies, Notified
    <2>2. \A r \in Servers \ {t.s} : r_wait'[r] = r_wait[r]
      BY <1>0, <2>1 DEF NfiWorkerInv, NfiWorkerType
    <2>3. NfiWorkerType'
      <3>1. r_wait' \in [Servers -> BOOLEAN]
        BY <1>0, <2>1 DEF NfiWorkerInv, NfiWorkerType
      <3> QED
        BY <1>1, <2>1, <3>1 DEF NfiWorkerInv, NfiWorkerType
    <2>4. TaskInv'
      <3> SUFFICES ASSUME Undisturbed, NEW u \in tasks'
                   PROVE  /\ threads = TRUE /\ Awaited(u.s) /\ arg[u.s] = call.n /\ r_wait'[u.s] = TRUE
                          /\ u.pc # "start" => u.op = call.n
                          /\ u.pc = "notify" => result[u.s] = call.n /\ call.n \in done[u.s]
                          /\ \A w \in tasks' : w.s = u.s => w = u
        BY <1>1, <1>2, <1>3, <2>1 DEF TaskInv
      <3>1. u \in tasks /\ u # t /\ u.s \in Servers
        BY <2>1 DEF NfiWorkerInv, NfiWorkerType, Tasks
      <3>2. u.s # t.s
        BY <3>1 DEF NfiWorkerInv, TaskInv
      <3> QED
        BY <2>1, <2>2, <3>1, <3>2 DEF NfiWorkerInv, TaskInv
    <2>5. DoneInv'
      <3> SUFFICES ASSUME Undisturbed, NEW r \in Servers, Launched(r), \A u \in tasks' : u.s # r
                   PROVE  r \in error \/ (result[r] = call.n /\ call.n \in done[r])
        BY <1>1, <1>2, <1>3, <2>1 DEF DoneInv
      <3>1. CASE r = t.s
        BY <2>1, <3>1 DEF NfiWorkerInv, TaskInv
      <3>2. CASE r # t.s
        BY <2>1, <3>2 DEF NfiWorkerInv, DoneInv
      <3> QED
        BY <3>1, <3>2
    <2> QED
      BY <1>2, <2>3, <2>4, <2>5 DEF NfiWorkerInv
  <1> QED
    BY <1>4, <1>5, <1>6 DEF TaskNext

\* A server marked in error disturbs the calls with threads; without, nothing waits.
LEMMA MarkErrorKeeps == ASSUME NfiWorkerInv, NEW s \in Servers, MarkError(s) PROVE NfiWorkerInv'
  <1>1. /\ error' = error \cup {s}
        /\ UNCHANGED <<call, arg, result, r_wait, tasks, threads, calls, updates, failures, got, done>>
    BY DEF MarkError, avars, bvars
  <1>2. NfiWorkerType' /\ LoopInv'
    BY <1>1 DEF NfiWorkerInv, NfiWorkerType, LoopInv
  <1>3. Undisturbed' => Undisturbed
    BY <1>1 DEF Undisturbed
  <1>4. UndisturbedWaitReturnsOwnResult' /\ TaskInv' /\ DoneInv'
    BY <1>1, <1>3 DEF NfiWorkerInv, TaskInv, DoneInv, Awaited, Launched,
                      UndisturbedWaitReturnsOwnResult, WaitReturnsOwnResult
  <1> QED
    BY <1>2, <1>4 DEF NfiWorkerInv

LEMMA NextNfiWorkerInv == NfiWorkerInv /\ [Next]_vars => NfiWorkerInv'
  <1> SUFFICES ASSUME NfiWorkerInv, [Next]_vars PROVE NfiWorkerInv'
    OBVIOUS
  <1>1. ASSUME NEW t \in tasks, TaskNext(t) PROVE NfiWorkerInv'
    BY ONLY <1>1, NfiWorkerInv, TaskKeeps
  <1>2. ASSUME NEW s \in Servers, MarkError(s) PROVE NfiWorkerInv'
    BY ONLY <1>2, NfiWorkerInv, MarkErrorKeeps
  <1>3. CASE UNCHANGED vars
    <2>1. UNCHANGED <<call, arg, result, r_wait, tasks, error, threads, calls, updates, failures, got, done>>
      BY <1>3 DEF vars, avars, bvars
    <2>2. NfiWorkerType' /\ LoopInv' /\ (Undisturbed' <=> Undisturbed)
      BY <2>1 DEF NfiWorkerInv, NfiWorkerType, LoopInv, Undisturbed
    <2>3. UndisturbedWaitReturnsOwnResult' /\ TaskInv' /\ DoneInv'
      BY <2>1, <2>2 DEF NfiWorkerInv, TaskInv, DoneInv, Awaited, Launched,
                        UndisturbedWaitReturnsOwnResult, WaitReturnsOwnResult
    <2> QED
      BY <2>2, <2>3 DEF NfiWorkerInv
  <1>4. CASE Next
    BY <1>1, <1>2, <1>4, BeginKeeps, LaunchKeeps, WaitKeeps, GetFhFailsKeeps DEF Next, CallGoesOn
  <1> QED
    BY <1>3, <1>4

-----------------------------------------------------------------------------
(* The theorem *)

\* A parallel call is told the ends of its own operations and leaves none behind: what
\* nfiworker_wait returns is the result of what nfi_worker_do_xxx launched for the call,
\* the operation has been done on every server it waited for, and no thread is at work
\* when the call is over.
THEOREM NfiWorkerCallGetsItsResults == Spec => []CallGetsItsResults
  <1>1. NfiWorkerInv => CallGetsItsResults
    <2> SUFFICES ASSUME NfiWorkerInv PROVE CallGetsItsResults
      OBVIOUS
    <2>1. NoOperationLeftBehind
      BY DEF NoOperationLeftBehind, NfiWorkerInv, TaskInv, Awaited
    <2>2. CallIsCarriedOut
      <3> SUFFICES ASSUME Undisturbed, call.pc = "wait", NEW s \in 0..(call.i - 1), s \notin error
                   PROVE  call.n \in done[s]
        BY DEF CallIsCarriedOut
      <3>1. s \in Servers /\ s < call.i /\ Launched(s)
        <4>1. PICK i \in Servers, kind \in {"pwrite", "update"} :
                i = call.i /\ kind = call.kind /\ i <= WaitLast(kind)
          BY CallIsRecord
        <4>2. s \in Servers /\ s < i
          BY <4>1, NfiWorkerAssumption DEF Servers
        <4>3. s <= LaunchLast(kind)
          BY <4>1, <4>2, LoopEnds DEF Servers
        <4> QED
          BY <4>1, <4>2, <4>3 DEF Launched
      <3>2. \A t \in tasks : t.s # s
        BY <3>1 DEF NfiWorkerInv, NfiWorkerType, TaskInv, Awaited, Servers
      <3> QED
        BY <3>1, <3>2 DEF NfiWorkerInv, DoneInv
    <2> QED
      BY <2>1, <2>2 DEF CallGetsItsResults, NfiWorkerInv
  <1> QED
    BY <1>1, InitNfiWorkerInv, NextNfiWorkerInv, PTL DEF Spec

-----------------------------------------------------------------------------
(* The session of a client and a server.                                     *)

\* What an item of a stream carries: a code, the struct of a request, or a number.
Codes == {"OPEN", "READ", "WRITE", "CLOSE", "RM", "RENAME", "GETATTR", "MKDIR", "OPENDIR", "READDIR",
          "CLOSEDIR", "RMDIR", "READ_MDATA", "WRITE_MDATA", "WRITE_MDATA_FILE_SIZE", "DISCONNECT"}
Structs == {"status", "rw_req", "attr_req", "opendir_req", "readdir_req", "mdata_req"}
Kinds == Structs \union {"op", "head", "tail", "data"}
Vals == Codes \union [lens : Seq(Nat), size : Nat] \union Int
Msgs == [k : Kinds, v : Vals, id : Nat]

\* The fields of the two processes.
ClientRecords ==
  [pc : {"connect", "idle", "sending", "ended", "dead"}, f : ClientFunctions,
   id : 0 .. MaxRequests, conn : 0 .. MaxRequests, out : Seq(Msgs),
   size : 0 .. MaxSize, cont : 0 .. MaxSize, res : {"none", "silent", "ok", "error"}]
ServerRecords ==
  [pc : {"accept", "op", "head", "path", "READ", "WRITE", "done", "astray", "dead"},
   comm : 0 .. MaxRequests, type_op : DOMAIN Handler, id : 0 .. MaxRequests,
   need : Seq(Nat), size : 0 .. MaxSize, cont : 0 .. MaxSize, garbled : BOOLEAN]
Faults == {"no_answer", "client_died", "data_abandoned", "seek_failed", "comm_used_after_free"}
SessionType ==
  /\ keep \in {0, 1} /\ made \in 0 .. MaxRequests
  /\ up \in [Conns -> Seq(Msgs)] /\ down \in [Conns -> Seq(Msgs)]
  /\ hung \subseteq 1 .. made /\ freed \subseteq 1 .. made
  /\ cl \in ClientRecords /\ sv \in ServerRecords /\ sv.cont <= sv.size
  /\ ran \in [0 .. MaxRequests -> 0 .. 2] /\ written \in [Calls -> 0 .. MaxSize]
  /\ fault \subseteq Faults

\* Where a handler is at work, and where the dispatcher waits for a code.
AtWork == {"head", "path", "READ", "WRITE"}
Waits == {"op", "astray"}

\* The connections of the client: one that is kept, or one for each call, closed with it.
ClientConns ==
  /\ keep = 1 => made <= 1 /\ cl.conn = made /\ IF cl.pc = "connect" THEN made = 0 ELSE made # 0
  /\ keep = 0 => /\ cl.pc # "connect" /\ made <= cl.id /\ cl.conn \in {0, made}
                 /\ cl.pc \in {"idle", "ended"} => cl.conn = 0
                 /\ \A c \in 1 .. made : c # cl.conn => c \in hung
  /\ cl.pc = "sending" => cl.conn # 0 /\ cl.conn = made /\ cl.id # 0
  /\ cl.pc # "sending" => cl.pc = "dead" \/ cl.out = <<>>
  /\ cl.pc = "connect" => cl.res = "none"
  /\ cl.conn \in hung => cl.pc \in {"dead", "ended"}
  /\ "client_died" \in fault => cl.pc = "dead"
  /\ cl.pc = "dead" /\ "client_died" \notin fault => cl.conn \in freed

\* The server takes them in the order in which they were made, and is done with the ones
\* before the client's.
ServerPlaces ==
  /\ sv.comm <= made /\ sv.id <= cl.id
  /\ sv.pc = "accept" => sv.comm = 0 \/ (keep = 0 /\ sv.comm \in freed)
  /\ sv.pc \notin {"accept", "dead"} => sv.comm # 0
  /\ sv.pc \in {"accept", "op", "head", "path"} => sv.cont = 0
  /\ sv.pc \in {"accept", "op"} => sv.garbled = FALSE
  /\ sv.pc \in AtWork => sv.comm \notin freed
  /\ sv.pc = "op" /\ sv.comm \in freed => "client_died" \in fault
  /\ "comm_used_after_free" \in fault => "client_died" \in fault
  /\ keep = 0 /\ sv.pc = "op" => sv.comm \notin freed
  /\ sv.pc # "dead" /\ sv.comm # cl.conn =>
       \/ sv.pc = "accept"
       \/ sv.pc = "op" /\ keep = 0 /\ sv.comm \in hung /\ sv.comm \notin freed
  /\ sv.pc # "dead" /\ cl.conn \in freed =>
       IF keep = 0 THEN sv.pc = "accept" /\ sv.comm = cl.conn
       ELSE cl.pc = "ended" \/ "client_died" \in fault
ServerStreams ==
  /\ sv.pc # "dead" => freed \subseteq 1 .. sv.comm
  /\ sv.pc # "dead" => \A c \in Conns : c >= sv.comm /\ c # cl.conn /\ c \notin freed => up[c] = <<>>
  /\ \A c \in Conns : c > made => up[c] = <<>> /\ down[c] = <<>>
ServerConns == ServerPlaces /\ ServerStreams

\* What the client has sent, and will send, of its calls and the server has not read.
Pending == up[cl.conn] \o cl.out

\* What is left of writes given up before, then m.
AfterJunk(p, m, faults) ==
  \E junk \in Seq(Msgs) :
    /\ p = junk \o m
    /\ \A i \in 1 .. Len(junk) : junk[i].k = "data"
    /\ junk # <<>> => "data_abandoned" \in faults

TailItems(need, id) == [i \in 1 .. Len(need) |-> Item("tail", need[i], id)]
DataOf(f, size, id) == IF f.op = "WRITE" THEN SentData(size, id) ELSE <<>>

\* Between two calls, or after the last one.
BetweenCalls ==
  /\ cl.pc # "sending" /\ cl.out = <<>>
  /\ sv.pc \in Waits \/ sv.comm = 0
  /\ keep = 1 /\ AfterJunk(Pending, IF cl.pc = "ended" THEN <<Item("op", "DISCONNECT", 0)>> ELSE <<>>, fault)

\* The pieces of the answer to a read that the client has not taken: m of them, acc[i]
\* bytes with the i-th, and the end if there are no more.
Chunks(d, m, acc, from, size, id) ==
  /\ acc[0] = from /\ \A i \in 1 .. m : acc[i - 1] < acc[i] /\ acc[i - 1] < size
  /\ acc[m] <= size
  /\ \A i \in 1 .. m : /\ d[2 * i - 1] = Item("rw_req", acc[i] - acc[i - 1], id)
                       /\ d[2 * i] = Item("data", acc[i] - acc[i - 1], id)
Accs(m) == [0 .. m -> 0 .. MaxSize]
OpenAnswer(d, from, size, id, upto) ==
  \E m \in 0 .. Len(d) : \E acc \in Accs(m) :
    Chunks(d, m, acc, from, size, id) /\ Len(d) = 2 * m /\ acc[m] = upto
ReadAnswer(d, from, size, id, times) ==
  \E m \in 0 .. Len(d) : \E acc \in Accs(m) :
    /\ Chunks(d, m, acc, from, size, id)
    /\ \/ Len(d) = 2 * m /\ (m > 0 /\ acc[m] = size => times = 1)
       \/ /\ Len(d) = 2 * m + 1 /\ times = 1 /\ (m > 0 => acc[m] < size)
          /\ d[2 * m + 1] \in {Item("rw_req", 0, id), Item("rw_req", -1, id)}

\* Nothing of the answer is there.
NotRun == cl.pc = "sending" => ran[cl.id] = 0 /\ cl.cont = 0 /\ down[cl.conn] = <<>>

\* The server does not know of the call yet.
Unread ==
  /\ cl.pc \in {"sending", "dead"} /\ (sv.comm < cl.conn \/ sv.pc \in Waits)
  /\ cl.f.op = "WRITE" => cl.size > 0
  /\ \E lens \in Paths(cl.f) : AfterJunk(Pending, Request(cl.f, lens, cl.size, cl.id), fault)
  /\ NotRun

Serving(pc) ==
  /\ cl.pc \in {"sending", "dead"} /\ sv.comm = cl.conn /\ sv.pc = pc
  /\ sv.type_op = cl.f.op /\ sv.id = cl.id /\ sv.garbled = FALSE
  /\ cl.f.op = "WRITE" => cl.size > 0
  /\ pc \in {"READ", "WRITE"} => cl.f.op = pc

HeadNext ==
  /\ Serving("head") /\ sv.cont = 0 /\ NotRun
  /\ \E lens \in Paths(cl.f) : Pending = Tail(Request(cl.f, lens, cl.size, cl.id))
PathNext ==
  /\ Serving("path") /\ sv.cont = 0 /\ NotRun /\ sv.size = cl.size
  /\ Pending = TailItems(sv.need, cl.id) \o DataOf(cl.f, cl.size, cl.id)

\* The server sends the pieces of a read.
Reading ==
  /\ Serving("READ") /\ sv.size = cl.size /\ Pending = <<>> /\ (sv.cont > 0 => sv.cont < sv.size)
  /\ cl.pc = "sending" =>
       /\ ran[cl.id] = 0
       /\ OpenAnswer(down[cl.conn], cl.cont, cl.size, cl.id, sv.cont)

\* It reads those of a write, of which it has read j.
Writing ==
  /\ Serving("WRITE") /\ sv.size = cl.size /\ NotRun
  /\ \E j \in Nat : /\ sv.cont = j * MaxBuffer /\ sv.cont < sv.size
                    /\ Pending = SubSeq(SentData(cl.size, cl.id), j + 1, Pieces(cl.size))

\* The answer is on its way; what the server did not read is the rest of a write.
Answered ==
  /\ keep = 1 /\ cl.pc \in {"sending", "dead"} /\ sv.comm = cl.conn /\ sv.pc \in Waits
  /\ AfterJunk(Pending, <<>>, fault)

\* The client has died and the server has read all that it had sent.
Lost == cl.conn \in hung /\ up[cl.conn] = <<>> /\ "client_died" \in fault

Phase ==
  sv.pc # "dead" /\ cl.conn # 0 /\ cl.conn \notin freed =>
    Lost \/ BetweenCalls \/ Unread \/ HeadNext \/ PathNext \/ Reading \/ Writing \/ Answered

PlainAnswer(d) ==
  d # <<>> =>
    /\ d[1].v \in Int /\ d = <<Item(cl.f.reply, d[1].v, cl.id)>> /\ ran[cl.id] = 1
    /\ cl.f.op = "WRITE" /\ d[1].v >= 0 /\ "seek_failed" \notin fault => written[cl.id] = cl.size

\* What is on its way to the client, and how often the server has run the call.
Answers ==
  /\ cl.pc = "sending" =>
       IF cl.f.op = "READ" THEN ReadAnswer(down[cl.conn], cl.cont, cl.size, cl.id, ran[cl.id])
       ELSE PlainAnswer(down[cl.conn])
  /\ cl.pc = "idle" /\ cl.conn # 0 => down[cl.conn] = <<>>
  /\ cl.pc = "idle" /\ cl.res \in {"ok", "error"} /\ "no_answer" \notin fault => ran[cl.id] = 1
  /\ "client_died" \notin fault => ran[0] = 0
  /\ \A i \in 0 .. MaxRequests : i > cl.id => ran[i] = 0
  /\ cl.f.op = "READ" => cl.cont <= cl.size
  /\ WriteOkMeansWritten

SessionInv == SessionType /\ ClientConns /\ ServerConns /\ Phase /\ Answers

-----------------------------------------------------------------------------
(* The streams.                                                              *)

LEMMA SendsPending ==
  ASSUME NEW S, NEW a \in Seq(S), NEW b \in Seq(S), b # <<>>
  PROVE  Append(a, Head(b)) \o Tail(b) = a \o b /\ Append(a, Head(b)) \in Seq(S) /\ Tail(b) \in Seq(S)
  OBVIOUS

LEMMA TakesFirst ==
  ASSUME NEW S, NEW a \in Seq(S), NEW b \in Seq(S), a # <<>>
  PROVE  /\ Tail(a \o b) = Tail(a) \o b /\ Head(a \o b) = Head(a) /\ a \o b # <<>>
         /\ Tail(a) \in Seq(S) /\ Head(a) \in S /\ Head(a) = a[1]
  OBVIOUS

LEMMA FirstOf ==
  ASSUME NEW S, NEW h \in S, NEW t \in Seq(S)
  PROVE  <<h>> \o t # <<>> /\ Head(<<h>> \o t) = h /\ Tail(<<h>> \o t) = t
  OBVIOUS

LEMMA TailIs ==
  ASSUME NEW S, NEW t \in Seq(S), NEW u \in Seq(S), t # <<>>, Len(u) = Len(t) - 1,
         \A i \in 1 .. Len(u) : u[i] = t[i + 1]
  PROVE  Tail(t) = u
  OBVIOUS

\* What client and server know of each of the fifteen requests is the same.
LEMMA TablesAgree ==
  ASSUME NEW f \in ClientFunctions
  PROVE  /\ f.op \in DOMAIN Handler /\ f.op \in Codes /\ f.op # "DISCONNECT"
         /\ Handler[f.op].reply = f.reply
         /\ f.op \in {"READ", "WRITE"} => f.reply = "rw_req"
         /\ f.paths \in 0 .. 2 /\ Len(Handler[f.op].paths) = f.paths
         /\ \A i \in 1 .. f.paths : Handler[f.op].paths[i] = i
  <1> USE DEF ClientFunctions, nfi_xpn_server_open, nfi_xpn_server_read, nfi_xpn_server_write,
              nfi_xpn_server_close, nfi_xpn_server_remove, nfi_xpn_server_rename,
              nfi_xpn_server_getattr, nfi_xpn_server_mkdir, nfi_xpn_server_opendir,
              nfi_xpn_server_readdir, nfi_xpn_server_closedir, nfi_xpn_server_rmdir,
              nfi_xpn_server_read_mdata, nfi_xpn_server_write_mdata,
              Handler, xpn_server_op_open, xpn_server_op_read, xpn_server_op_write, xpn_server_op_close,
              xpn_server_op_rm, xpn_server_op_rename, xpn_server_op_getattr, xpn_server_op_mkdir,
              xpn_server_op_opendir, xpn_server_op_readdir, xpn_server_op_closedir,
              xpn_server_op_rmdir, xpn_server_op_read_mdata, xpn_server_op_write_mdata,
              xpn_server_op_write_mdata_file_size
  <1>1. f.op \in DOMAIN Handler /\ Handler[f.op].reply = f.reply
    OBVIOUS
  <1>2. f.op \in Codes /\ f.op # "DISCONNECT" /\ (f.op \in {"READ", "WRITE"} => f.reply = "rw_req")
    BY DEF Codes
  <1>3. /\ f.paths = 0 => Handler[f.op].paths = <<>>
        /\ f.paths = 1 => Handler[f.op].paths = <<1>>
        /\ f.paths = 2 => Handler[f.op].paths = <<1, 2>>
        /\ f.paths \in 0 .. 2
    OBVIOUS
  <1> HIDE DEF Handler, ClientFunctions
  <1>4. PICK q, n : q = Handler[f.op].paths /\ n = f.paths
    OBVIOUS
  <1>5. Len(q) = n /\ \A i \in 1 .. n : q[i] = i
    <2>1. (n = 0 /\ q = <<>>) \/ (n = 1 /\ q = <<1>>) \/ (n = 2 /\ q = <<1, 2>>)
      BY ONLY <1>3, <1>4
    <2>2. CASE n = 0 /\ q = <<>>
      BY ONLY <2>2
    <2>3. CASE n = 1 /\ q = <<1>>
      BY ONLY <2>3
    <2>4. CASE n = 2 /\ q = <<1, 2>>
      BY ONLY <2>4
    <2> QED
      BY ONLY <2>1, <2>2, <2>3, <2>4
  <1> QED
    BY ONLY <1>1, <1>2, <1>3, <1>4, <1>5

LEMMA ReplyIsStruct ==
  ASSUME NEW op \in DOMAIN Handler PROVE Handler[op].reply \in Structs
  <1>1. op \in {"OPEN", "READ", "WRITE", "CLOSE", "RM", "RENAME", "GETATTR", "MKDIR", "OPENDIR", "READDIR",
               "CLOSEDIR", "RMDIR", "READ_MDATA", "WRITE_MDATA", "WRITE_MDATA_FILE_SIZE"}
    BY DEF Handler
  <1> QED
    BY <1>1 DEF Structs, Handler, xpn_server_op_open, xpn_server_op_read, xpn_server_op_write, xpn_server_op_close,
              xpn_server_op_rm, xpn_server_op_rename, xpn_server_op_getattr, xpn_server_op_mkdir,
              xpn_server_op_opendir, xpn_server_op_readdir, xpn_server_op_closedir,
              xpn_server_op_rmdir, xpn_server_op_read_mdata, xpn_server_op_write_mdata,
              xpn_server_op_write_mdata_file_size

LEMMA LensOf ==
  ASSUME NEW f \in ClientFunctions, NEW lens \in Paths(f)
  PROVE  lens \in Seq(Nat) /\ Len(lens) = f.paths /\ \A i \in 1 .. f.paths : lens[i] \in Nat
  <1>1. Lens \subseteq Nat
    BY SessionAssumption DEF Lens
  <1>2. f.paths \in Nat
    BY TablesAgree
  <1>3. lens \in [1 .. f.paths -> Nat]
    BY <1>1 DEF Paths
  <1> QED
    BY <1>2, <1>3

LEMMA ItemIsMsg ==
  ASSUME NEW k \in Kinds, NEW v \in Vals, NEW id \in Nat
  PROVE  Item(k, v, id) \in Msgs /\ Item(k, v, id).k = k /\ Item(k, v, id).v = v /\ Item(k, v, id).id = id
  BY DEF Item, Msgs

LEMMA NumberIsMsg ==
  ASSUME NEW k \in Kinds, NEW v \in Int, NEW id \in Nat
  PROVE  Item(k, v, id) \in Msgs /\ Item(k, v, id).k = k /\ Item(k, v, id).v = v /\ Item(k, v, id).id = id
  <1>1. v \in Vals
    BY DEF Vals
  <1> QED
    BY ONLY <1>1, k \in Kinds, id \in Nat, ItemIsMsg

LEMMA MinOfTwo ==
  ASSUME NEW a \in Int, NEW b \in Int
  PROVE  Min({a, b}) = IF a <= b THEN a ELSE b
  BY DEF Min

LEMMA MinOfThree ==
  ASSUME NEW a \in Int, NEW b \in Int, NEW c \in Int
  PROVE  Min({a, b, c}) = IF a <= b /\ a <= c THEN a ELSE IF b <= c THEN b ELSE c
  BY DEF Min

\* The rest of each path that the client sends is what the server waits for.
LEMMA TailsAgree ==
  ASSUME NEW f \in ClientFunctions, NEW lens \in Paths(f), NEW id \in Nat
  PROVE  /\ Wanted(f.op, lens) \in Seq(Nat)
         /\ SentTails(lens, id) = [i \in 1 .. Len(Wanted(f.op, lens)) |-> Item("tail", Wanted(f.op, lens)[i], id)]
         /\ SentTails(lens, id) \in Seq(Msgs)
  <1>1. /\ f.paths \in 0 .. 2 /\ Len(Handler[f.op].paths) = f.paths
        /\ \A i \in 1 .. f.paths : Handler[f.op].paths[i] = i
    BY TablesAgree
  <1>2. lens \in Seq(Nat) /\ Len(lens) = f.paths /\ \A i \in 1 .. f.paths : lens[i] \in Nat
    BY LensOf
  <1>3. ASSUME NEW len \in Nat
        PROVE  \/ WantedTail(len) = <<>> /\ SentTail(len, id) = <<>>
               \/ \E r \in Nat : WantedTail(len) = <<r>> /\ SentTail(len, id) = <<Item("tail", r, id)>>
    <2>1. Rest(len) = Tail128(len) /\ Rest(len) \in Nat
      BY SessionAssumption DEF Rest, Tail128
    <2> QED
      BY <2>1 DEF WantedTail, SentTail
  <1>4. \A r \in Nat : Item("tail", r, id) \in Msgs
    <2>1. "tail" \in Kinds
      BY DEF Kinds
    <2> QED
      BY <2>1, NumberIsMsg
  <1>5. PICK a, x : /\ a = IF f.paths >= 1 THEN WantedTail(lens[1]) ELSE <<>>
                    /\ x = IF f.paths >= 1 THEN SentTail(lens[1], id) ELSE <<>>
    OBVIOUS
  <1>6. PICK b, y : /\ b = IF f.paths >= 2 THEN WantedTail(lens[2]) ELSE <<>>
                    /\ y = IF f.paths >= 2 THEN SentTail(lens[2], id) ELSE <<>>
    OBVIOUS
  <1>7. Wanted(f.op, lens) = a \o b
    <2>1. CASE f.paths = 0
      BY <1>1, <1>5, <1>6, <2>1 DEF Wanted
    <2>2. CASE f.paths = 1
      BY <1>1, <1>5, <1>6, <2>2 DEF Wanted
    <2>3. CASE f.paths = 2
      <3>1. Handler[f.op].paths[1] = 1 /\ Handler[f.op].paths[2] = 2
        BY <1>1, <2>3
      <3> QED
        BY <1>1, <1>5, <1>6, <2>3, <3>1 DEF Wanted
    <2> QED
      BY <1>1, <2>1, <2>2, <2>3
  <1>8. SentTails(lens, id) = x \o y
    BY <1>2, <1>5, <1>6 DEF SentTails
  <1>9. PICK r \in Nat : (a = <<>> /\ x = <<>>) \/ (a = <<r>> /\ x = <<Item("tail", r, id)>>)
    BY <1>1, <1>2, <1>3, <1>5
  <1>10. PICK u \in Nat : (b = <<>> /\ y = <<>>) \/ (b = <<u>> /\ y = <<Item("tail", u, id)>>)
    BY <1>1, <1>2, <1>3, <1>6
  <1>11. PICK w, z : w = a \o b /\ z = x \o y
    OBVIOUS
  <1> DEFINE Agreed == /\ w \in Seq(Nat) /\ z \in Seq(Msgs) /\ Len(z) = Len(w)
                       /\ \A i \in 1 .. Len(w) : z[i] = Item("tail", w[i], id)
  <1>12. Agreed
    <2>1. CASE a = <<>> /\ x = <<>> /\ b = <<>> /\ y = <<>>
      BY ONLY <1>11, <2>1
    <2>2. CASE a = <<r>> /\ x = <<Item("tail", r, id)>> /\ b = <<>> /\ y = <<>>
      BY ONLY <1>4, <1>11, <2>2, r \in Nat
    <2>3. CASE a = <<>> /\ x = <<>> /\ b = <<u>> /\ y = <<Item("tail", u, id)>>
      BY ONLY <1>4, <1>11, <2>3, u \in Nat
    <2>4. CASE a = <<r>> /\ x = <<Item("tail", r, id)>> /\ b = <<u>> /\ y = <<Item("tail", u, id)>>
      BY ONLY <1>4, <1>11, <2>4, r \in Nat, u \in Nat
    <2> HIDE DEF Agreed
    <2> QED
      BY ONLY <1>9, <1>10, <2>1, <2>2, <2>3, <2>4
  <1>13. z = [i \in 1 .. Len(w) |-> Item("tail", w[i], id)]
    BY ONLY <1>12
  <1> QED
    BY ONLY <1>7, <1>8, <1>11, <1>12, <1>13

\* A write of size bytes in pieces of MaxBuffer.
LEMMA PiecesCover ==
  ASSUME NEW size \in Nat
  PROVE  /\ Pieces(size) \in Nat /\ Pieces(size) * MaxBuffer >= size
         /\ size > 0 => Pieces(size) > 0 /\ (Pieces(size) - 1) * MaxBuffer < size
         /\ size = 0 => Pieces(size) = 0
  <1>1. PICK b \in Nat \ {0} : b = MaxBuffer
    BY SessionAssumption
  <1>2. PICK q, r : q = (size + b - 1) \div b /\ r = (size + b - 1) % b
    OBVIOUS
  <1>3. q \in Nat /\ r \in 0 .. (b - 1) /\ size + b - 1 = b * q + r
    BY ONLY <1>2, b \in Nat \ {0}, size \in Nat
  <1>4. b * q >= size
    BY ONLY <1>3, b \in Nat \ {0}, size \in Nat
  <1>5. b * q = q * b /\ (q - 1) * b = b * q - b
    BY ONLY <1>3, b \in Nat \ {0}
  <1>6. (q - 1) * b < size \/ size = 0
    BY ONLY <1>3, <1>5, b \in Nat \ {0}, size \in Nat
  <1>7. size > 0 => q > 0
    BY ONLY <1>3, <1>4, b \in Nat \ {0}, size \in Nat
  <1>8. size = 0 => q = 0
    <2>1. size = 0 /\ q >= 1 => b * q >= b
      BY ONLY <1>3, b \in Nat \ {0}
    <2> QED
      BY ONLY <1>3, <2>1, b \in Nat \ {0}, size \in Nat
  <1>9. Pieces(size) = q
    BY <1>1, <1>2 DEF Pieces
  <1> QED
    BY <1>1, <1>3, <1>4, <1>5, <1>6, <1>7, <1>8, <1>9

LEMMA DataItems ==
  ASSUME NEW size \in 0 .. MaxSize, NEW id \in Nat
  PROVE  /\ SentData(size, id) \in Seq(Msgs) /\ Len(SentData(size, id)) = Pieces(size)
         /\ \A i \in 1 .. Pieces(size) : /\ SentData(size, id)[i].k = "data" /\ SentData(size, id)[i].id = id
                                         /\ SentData(size, id)[i].v = Min({MaxBuffer, size - (i - 1) * MaxBuffer})
  <1>1. Pieces(size) \in Nat /\ MaxBuffer \in Nat /\ size \in Int
    BY PiecesCover, SessionAssumption
  <1>2. "data" \in Kinds
    BY DEF Kinds
  <1>3. \A i \in 1 .. Pieces(size) : Min({MaxBuffer, size - (i - 1) * MaxBuffer}) \in Int
    <2>1. TAKE i \in 1 .. Pieces(size)
    <2>2. size - (i - 1) * MaxBuffer \in Int
      BY <1>1
    <2> QED
      BY <1>1, <2>2, MinOfTwo
  <1>4. \A i \in 1 .. Pieces(size) :
          LET m == Item("data", Min({MaxBuffer, size - (i - 1) * MaxBuffer}), id)
          IN  m \in Msgs /\ m.k = "data" /\ m.id = id /\ m.v = Min({MaxBuffer, size - (i - 1) * MaxBuffer})
    BY ONLY <1>2, <1>3, id \in Nat, NumberIsMsg
  <1>5. \A i \in 1 .. Pieces(size) : SentData(size, id)[i] = Item("data", Min({MaxBuffer, size - (i - 1) * MaxBuffer}), id)
    BY DEF SentData
  <1>6. SentData(size, id) \in Seq(Msgs) /\ Len(SentData(size, id)) = Pieces(size)
    <2>1. \A i \in 1 .. Pieces(size) : SentData(size, id)[i] \in Msgs
      BY ONLY <1>4, <1>5
    <2>2. SentData(size, id) = [i \in 1 .. Pieces(size) |-> SentData(size, id)[i]]
      BY DEF SentData
    <2>3. SentData(size, id) \in [1 .. Pieces(size) -> Msgs]
      BY ONLY <2>1, <2>2
    <2> QED
      BY ONLY <1>1, <2>3
  <1> QED
    BY ONLY <1>4, <1>5, <1>6

\* After j pieces the next one is what xpn_server_op_write asks for, and it is the last
\* one if nothing is left after it.
LEMMA NextPiece ==
  ASSUME NEW size \in 0 .. MaxSize, NEW j \in Nat, j * MaxBuffer < size, NEW w,
         w = Min({MaxBuffer, size - j * MaxBuffer})
  PROVE  /\ j + 1 \in 1 .. Pieces(size) /\ w \in Nat \ {0}
         /\ j * MaxBuffer + w < size => j * MaxBuffer + w = (j + 1) * MaxBuffer
         /\ j * MaxBuffer + w >= size => j * MaxBuffer + w = size /\ Pieces(size) = j + 1
  <1>1. PICK b \in Nat \ {0} : b = MaxBuffer
    BY SessionAssumption
  <1>2. PICK p \in Nat, t \in Nat : p = Pieces(size) /\ t = j * b
    BY <1>1, PiecesCover
  <1>3. size \in Nat /\ t < size /\ p * b >= size /\ (p - 1) * b < size
    BY <1>1, <1>2, PiecesCover
  <1>4. w = IF b <= size - t THEN b ELSE size - t
    BY <1>1, <1>2, <1>3, MinOfTwo
  <1>5. (j + 1) * b = t + b /\ (p - 1) * b = p * b - b
    BY ONLY <1>2, b \in Nat \ {0}, p \in Nat, j \in Nat
  <1>6. j < p
    <2>1. SUFFICES ASSUME p <= j PROVE FALSE
      BY <1>2
    <2>2. PICK e \in Nat : e = j - p
      BY ONLY <2>1, j \in Nat, p \in Nat
    <2>3. j * b = p * b + e * b /\ e * b >= 0
      BY ONLY <2>2, p \in Nat, e \in Nat, b \in Nat \ {0}
    <2> QED
      BY ONLY <1>2, <1>3, <2>3
  <1>7. t + b >= size => p = j + 1
    <2>1. SUFFICES ASSUME t + b >= size, p >= j + 2 PROVE FALSE
      BY <1>6, p \in Nat
    <2>2. PICK e \in Nat : e = (p - 1) - (j + 1)
      BY ONLY <2>1, j \in Nat, p \in Nat
    <2>3. (p - 1) * b = (j + 1) * b + e * b /\ e * b >= 0
      BY ONLY <2>2, j \in Nat, e \in Nat, b \in Nat \ {0}
    <2> QED
      BY ONLY <1>3, <1>5, <2>1, <2>3, t \in Nat, b \in Nat \ {0}
  <1>8. t + w < size => w = b
    BY ONLY <1>3, <1>4, t \in Nat, b \in Nat \ {0}
  <1>9. t + w >= size => t + w = size /\ t + b >= size
    BY ONLY <1>3, <1>4, t \in Nat, b \in Nat \ {0}
  <1>10. w \in Nat \ {0}
    BY ONLY <1>3, <1>4, t \in Nat, b \in Nat \ {0}
  <1> QED
    BY <1>1, <1>2, <1>5, <1>6, <1>7, <1>8, <1>9, <1>10

\* A request is its code, its head, the rests of its paths and the pieces of a write.
IsRequest(R, f, lens, size, id) ==
  LET h == Head(Tail(R))
  IN  /\ R \in Seq(Msgs) /\ R # <<>> /\ Head(R).k = "op" /\ Head(R).v = f.op /\ Head(R).id = id
      /\ Tail(R) \in Seq(Msgs) /\ Tail(R) # <<>>
      /\ h.k = "head" /\ h.v.size = size /\ h.v.lens = lens /\ h.id = id
      /\ Tail(Tail(R)) = SentTails(lens, id) \o DataOf(f, size, id) /\ Tail(Tail(R)) \in Seq(Msgs)

LEMMA RequestShape ==
  ASSUME NEW f \in ClientFunctions, NEW lens \in Paths(f), NEW size \in 0 .. MaxSize, NEW id \in Nat
  PROVE  IsRequest(Request(f, lens, size, id), f, lens, size, id)
  <1>1. SentTails(lens, id) \in Seq(Msgs)
    BY TailsAgree
  <1>2. SentData(size, id) \in Seq(Msgs)
    BY DataItems
  <1>3. PICK T : T = SentTails(lens, id) \o (IF f.op = "WRITE" THEN SentData(size, id) ELSE <<>>)
    OBVIOUS
  <1>4. T \in Seq(Msgs)
    BY <1>1, <1>2, <1>3
  <1>5. PICK o, h : o = Item("op", f.op, id) /\ h = Item("head", [lens |-> lens, size |-> size], id)
    OBVIOUS
  <1>6. o \in Msgs /\ o.k = "op" /\ o.v = f.op /\ o.id = id
    <2>1. f.op \in Vals /\ "op" \in Kinds
      BY TablesAgree DEF Vals, Kinds
    <2> QED
      BY ONLY <1>5, <2>1, id \in Nat, ItemIsMsg
  <1>7. h \in Msgs /\ h.k = "head" /\ h.v.size = size /\ h.v.lens = lens /\ h.id = id
    <2>1. PICK v : v = [lens |-> lens, size |-> size]
      OBVIOUS
    <2>2. v \in [lens : Seq(Nat), size : Nat] /\ v.size = size /\ v.lens = lens
      BY <2>1, LensOf, SessionAssumption
    <2>3. v \in Vals /\ "head" \in Kinds
      BY ONLY <2>2 DEF Vals, Kinds
    <2> QED
      BY ONLY <1>5, <2>1, <2>2, <2>3, id \in Nat, ItemIsMsg
  <1>8. PICK R : R = Request(f, lens, size, id)
    OBVIOUS
  <1>9. R = <<o, h>> \o T
    <2>1. PICK s, d : s = SentTails(lens, id) /\ d = IF f.op = "WRITE" THEN SentData(size, id) ELSE <<>>
      OBVIOUS
    <2>2. s \in Seq(Msgs) /\ d \in Seq(Msgs) /\ T = s \o d /\ R = (<<o, h>> \o s) \o d
      BY <1>1, <1>2, <1>3, <1>5, <1>8, <2>1 DEF Request
    <2> QED
      BY ONLY <1>6, <1>7, <2>2
  <1>10. /\ R \in Seq(Msgs) /\ R # <<>> /\ Head(R) = o /\ Tail(R) \in Seq(Msgs)
         /\ Tail(R) = <<h>> \o T
    <2>1. PICK q : q = <<h>> \o T
      OBVIOUS
    <2>2. q \in Seq(Msgs)
      BY ONLY <1>4, <1>7, <2>1
    <2>3. R = <<o>> \o q
      <3>1. <<o>> \in Seq(Msgs) /\ <<h>> \in Seq(Msgs)
        BY ONLY <1>6, <1>7
      <3>2. <<o, h>> = <<o>> \o <<h>>
        <4>1. PICK x : x = <<o>> \o <<h>>
          OBVIOUS
        <4>2. x \in Seq(Msgs) /\ Len(x) = 2 /\ x[1] = o /\ x[2] = h
          BY ONLY <1>6, <1>7, <3>1, <4>1
        <4>3. <<o, h>> \in Seq(Msgs) /\ Len(<<o, h>>) = 2 /\ <<o, h>>[1] = o /\ <<o, h>>[2] = h
          BY ONLY <1>6, <1>7
        <4>4. PICK y : y = <<o, h>>
          OBVIOUS
        <4>5. \A i \in 1 .. Len(x) : x[i] = y[i]
          <5>1. ASSUME NEW i \in 1 .. 2 PROVE x[i] = y[i]
            <6>1. i = 1 \/ i = 2
              OBVIOUS
            <6> QED
              BY ONLY <4>2, <4>3, <4>4, <6>1
          <5> QED
            BY ONLY <4>2, <5>1
        <4>6. x = y
          BY ONLY <4>2, <4>3, <4>4, <4>5, SeqEqual
        <4> QED
          BY ONLY <4>1, <4>4, <4>6
      <3> QED
        <4>1. (<<o>> \o <<h>>) \o T = <<o>> \o (<<h>> \o T)
          BY ONLY <1>4, <3>1, ConcatAssociative
        <4> QED
          BY ONLY <1>9, <2>1, <3>2, <4>1
    <2>4. R \in Seq(Msgs)
      BY ONLY <1>6, <2>2, <2>3
    <2>5. Head(<<o>> \o q) = o /\ Tail(<<o>> \o q) = q /\ <<o>> \o q # <<>>
      <3>1. o \in Msgs
        BY ONLY <1>6
      <3> QED
        BY ONLY <2>2, <3>1, FirstOf
    <2> QED
      BY ONLY <2>1, <2>2, <2>3, <2>4, <2>5
  <1>11. Tail(R) # <<>> /\ Head(Tail(R)) = h /\ Tail(Tail(R)) = T
    <2>1. h \in Msgs
      BY ONLY <1>7
    <2>2. <<h>> \o T # <<>> /\ Head(<<h>> \o T) = h /\ Tail(<<h>> \o T) = T
      BY ONLY <1>4, <2>1, FirstOf
    <2>3. Tail(R) = <<h>> \o T
      BY ONLY <1>10
    <2> QED
      BY ONLY <2>2, <2>3
  <1> QED
    BY ONLY <1>3, <1>4, <1>6, <1>7, <1>8, <1>10, <1>11 DEF IsRequest, DataOf

\* The rests of the paths, one after the other.
FirstTail(t, u, need, id) ==
  /\ t \in Seq(Msgs) /\ u \in Seq(Msgs) /\ t # <<>> /\ Tail(t) = u
  /\ Head(t).k = "tail" /\ Head(t).v = Head(need) /\ Head(t).id = id

LEMMA NextTail ==
  ASSUME NEW need \in Seq(Nat), need # <<>>, NEW id \in Nat, NEW t, NEW u,
         t = TailItems(need, id), u = TailItems(Tail(need), id)
  PROVE  FirstTail(t, u, need, id)
  <1>1. \A r \in Nat : Item("tail", r, id) \in Msgs /\ Item("tail", r, id).k = "tail" /\ Item("tail", r, id).v = r
                       /\ Item("tail", r, id).id = id
    <2>1. "tail" \in Kinds
      BY DEF Kinds
    <2> QED
      BY <2>1, NumberIsMsg
  <1>2. Len(need) \in Nat \ {0} /\ \A i \in 1 .. Len(need) : need[i] \in Nat
    OBVIOUS
  <1>3. /\ Tail(need) \in Seq(Nat) /\ Len(Tail(need)) = Len(need) - 1
        /\ \A i \in 1 .. Len(Tail(need)) : Tail(need)[i] = need[i + 1]
    OBVIOUS
  <1>4. t \in Seq(Msgs) /\ Len(t) = Len(need) /\ \A i \in 1 .. Len(need) : t[i] = Item("tail", need[i], id)
    BY <1>1, <1>2 DEF TailItems
  <1>5. u \in Seq(Msgs) /\ Len(u) = Len(need) - 1 /\ \A i \in 1 .. Len(u) : u[i] = Item("tail", need[i + 1], id)
    <2>1. PICK r : r = Tail(need)
      OBVIOUS
    <2>2. PICK n \in Nat : n = Len(need) - 1
      BY ONLY <1>2
    <2>3. /\ Len(r) = n /\ \A i \in 1 .. n : r[i] = need[i + 1] /\ need[i + 1] \in Nat
      BY ONLY <1>2, <1>3, <2>1, <2>2
    <2>4. u = [i \in 1 .. n |-> Item("tail", r[i], id)]
      BY ONLY <2>1, <2>3, u = TailItems(Tail(need), id) DEF TailItems
    <2>5. \A i \in 1 .. n : u[i] = Item("tail", need[i + 1], id) /\ u[i] \in Msgs
      BY ONLY <1>1, <2>3, <2>4
    <2>6. u \in Seq(Msgs) /\ Len(u) = n
      BY ONLY <2>4, <2>5, n \in Nat
    <2> QED
      BY ONLY <2>2, <2>5, <2>6
  <1>6. Head(t) = Item("tail", Head(need), id)
    BY ONLY <1>2, <1>4, need \in Seq(Nat)
  <1>7. Tail(t) = u
    <2>1. t # <<>> /\ Len(u) = Len(t) - 1
      BY ONLY <1>2, <1>4, <1>5
    <2>2. ASSUME NEW i \in 1 .. Len(u) PROVE u[i] = t[i + 1]
      <3>1. i + 1 \in 1 .. Len(need)
        BY ONLY <1>2, <1>5, i \in 1 .. Len(u)
      <3> QED
        BY ONLY <1>4, <1>5, <3>1, i \in 1 .. Len(u)
    <2>3. t \in Seq(Msgs) /\ u \in Seq(Msgs)
      BY ONLY <1>4, <1>5
    <2> QED
      BY ONLY <2>1, <2>2, <2>3, TailIs
  <1>8. Head(need) \in Nat
    BY ONLY <1>2, need \in Seq(Nat)
  <1>9. Head(t).k = "tail" /\ Head(t).v = Head(need) /\ Head(t).id = id
    BY ONLY <1>1, <1>6, <1>8
  <1>10. t # <<>>
    BY ONLY <1>2, <1>4
  <1> QED
    BY ONLY <1>4, <1>5, <1>7, <1>9, <1>10 DEF FirstTail


-----------------------------------------------------------------------------
(* The steps.                                                                *)

LEMMA SessionInitially == SessionInit => SessionInv
  <1> SUFFICES ASSUME SessionInit PROVE SessionInv
    OBVIOUS
  <1>1. /\ nfi_xpn_server_open \in ClientFunctions /\ "OPEN" \in DOMAIN Handler
        /\ nfi_xpn_server_open.op = "OPEN" /\ <<>> \in Seq(Msgs) /\ <<>> \in Seq(Nat)
    BY DEF ClientFunctions, Handler, nfi_xpn_server_open
  <1>2. /\ keep \in {0, 1} /\ made = 0 /\ hung = {} /\ freed = {} /\ fault = {}
        /\ cl.pc = (IF keep = 1 THEN "connect" ELSE "idle") /\ cl.out = <<>> /\ cl.conn = 0 /\ cl.id = 0
        /\ cl.f = nfi_xpn_server_open /\ cl.res = "none" /\ cl.size = 0 /\ cl.cont = 0
        /\ sv.pc = "accept" /\ sv.comm = 0 /\ sv.cont = 0 /\ sv.size = 0 /\ sv.id = 0 /\ sv.garbled = FALSE
    BY SessionAssumption DEF SessionInit, NoClient, NoServer
  <1>3. cl \in ClientRecords /\ sv \in ServerRecords /\ sv.cont <= sv.size
    <2>1. /\ cl = [NoClient EXCEPT !.pc = IF keep = 1 THEN "connect" ELSE "idle"] /\ sv = NoServer
          /\ 0 \in 0 .. MaxRequests /\ 0 \in 0 .. MaxSize
      BY SessionAssumption DEF SessionInit
    <2>2. cl \in ClientRecords
      BY ONLY <1>1, <2>1 DEF NoClient, ClientRecords
    <2>3. sv \in ServerRecords /\ sv.cont <= sv.size
      BY ONLY <1>1, <2>1 DEF NoServer, ServerRecords
    <2> QED
      BY <2>2, <2>3
  <1>4. SessionType
    BY <1>1, <1>2, <1>3, SessionAssumption DEF SessionInit, SessionType
  <1>5. ClientConns
    BY ONLY <1>2, <1>1 DEF ClientConns
  <1>6. ServerConns
    BY <1>2, SessionAssumption DEF SessionInit, ServerConns, ServerPlaces, ServerStreams, AtWork, Conns
  <1>7. Phase
    BY ONLY <1>2 DEF Phase
  <1>8. Answers
    BY <1>1, <1>2, SessionAssumption DEF SessionInit, Answers, WriteOkMeansWritten
  <1> QED
    BY <1>4, <1>5, <1>6, <1>7, <1>8 DEF SessionInv

\* The client sends: what is pending stays the same.
LEMMA SendKeeps == ASSUME SessionInv, Send PROVE SessionInv'
  <1>0. /\ cl \in ClientRecords /\ up \in [Conns -> Seq(Msgs)] /\ cl.pc = "sending" /\ cl.out # <<>>
        /\ made \in 0 .. MaxRequests /\ cl.conn = made /\ cl.conn # 0
    BY DEF Send, SessionInv, SessionType, ClientRecords, ClientConns
  <1>01. cl.pc = "sending" /\ cl.conn = made /\ cl.conn # 0 /\ made \in Nat
    BY <1>0
  <1>00. SessionType /\ ClientConns /\ ServerConns /\ Phase /\ Answers
    BY DEF SessionInv
  <1>1. UNCHANGED <<keep, made, down, freed, sv, ran, written, fault>>
    BY DEF Send
  <1>2. CASE cl' = [cl EXCEPT !.pc = "dead"] /\ hung' = hung \union {cl.conn} /\ up' = up /\ cl.conn \in freed
    <2>1. /\ cl' \in ClientRecords /\ cl'.pc = "dead" /\ cl'.f = cl.f /\ cl'.id = cl.id /\ cl'.conn = cl.conn
          /\ cl'.out = cl.out /\ cl'.size = cl.size /\ cl'.cont = cl.cont /\ cl'.res = cl.res
      BY ONLY <1>0, <1>2 DEF ClientRecords
    <2>2. SessionType'
      BY <1>0, <1>1, <1>2, <2>1 DEF SessionInv, SessionType
    <2>0. hung' = hung \union {cl.conn} /\ cl.conn \in freed
      BY <1>2
    <2>3. ClientConns'
      BY ONLY <1>00, <1>01, <1>1, <2>0, <2>1 DEF ClientConns
    <2>4. ServerConns'
      BY <1>0, <1>1, <1>2, <2>1 DEF SessionInv, ServerConns, ServerPlaces, ServerStreams, ClientConns
    <2>5. Phase'
      BY <1>1, <1>2, <2>1 DEF Phase
    <2>6. Answers'
      BY <1>0, <1>1, <1>2, <2>1 DEF SessionInv, Answers, WriteOkMeansWritten
    <2> QED
      BY <2>2, <2>3, <2>4, <2>5, <2>6 DEF SessionInv
  <1>3. CASE cl' = [cl EXCEPT !.out = Tail(@)] /\ hung' = hung
    <2>1. /\ cl' \in ClientRecords /\ cl'.pc = cl.pc /\ cl'.f = cl.f /\ cl'.id = cl.id /\ cl'.conn = cl.conn
          /\ cl'.out = Tail(cl.out) /\ cl'.size = cl.size /\ cl'.cont = cl.cont /\ cl'.res = cl.res
      <3>1. PICK o : o = Tail(cl.out)
        OBVIOUS
      <3>2. o \in Seq(Msgs)
        <4>1. cl.out \in Seq(Msgs)
          BY ONLY <1>0 DEF ClientRecords
        <4> QED
          BY ONLY <1>0, <4>1, <3>1
      <3>3. cl' = [cl EXCEPT !.out = o]
        BY <1>3, <3>1
      <3> QED
        BY ONLY <1>0, <3>1, <3>2, <3>3 DEF ClientRecords
    <2>0. hung' = hung
      BY <1>3
    <2>2. /\ cl.conn \in Conns /\ cl.out \in Seq(Msgs)
      BY ONLY <1>0 DEF Conns, ClientRecords
    <2>3. \/ up' = up /\ cl.conn \in freed
          \/ up' = [up EXCEPT ![cl.conn] = Append(@, Head(cl.out))] /\ cl.conn \notin freed
      BY <1>0, <1>3 DEF Send
    <2>4. up' \in [Conns -> Seq(Msgs)] /\ \A c \in Conns : c # cl.conn => up'[c] = up[c]
      <3>1. PICK q : q = Append(up[cl.conn], Head(cl.out))
        OBVIOUS
      <3>2. q \in Seq(Msgs)
        BY ONLY <1>0, <2>2, <3>1, SendsPending
      <3>3. up' = up \/ up' = [up EXCEPT ![cl.conn] = q]
        BY ONLY <2>3, <3>1
      <3> QED
        BY ONLY <1>0, <2>2, <3>2, <3>3
    <2>5. cl.conn \notin freed => Pending' = Pending
      <3>1. CASE cl.conn \notin freed
        <4>1. up'[cl.conn] = Append(up[cl.conn], Head(cl.out))
          BY ONLY <1>0, <2>2, <2>3, <3>1
        <4>2. up[cl.conn] \in Seq(Msgs)
          BY ONLY <1>0, <2>2
        <4> QED
          <5>1. PICK a, b : a = up[cl.conn] /\ b = cl.out
            OBVIOUS
          <5>0. a \in Seq(Msgs) /\ b \in Seq(Msgs) /\ b # <<>>
            BY ONLY <1>0, <2>2, <4>2, <5>1
          <5>2. Append(a, Head(b)) \o Tail(b) = a \o b
            BY ONLY <5>0, SendsPending
          <5> QED
            BY ONLY <2>1, <4>1, <5>1, <5>2 DEF Pending
      <3> QED
        BY <3>1
    <2>6. SessionType'
      BY <1>0, <1>1, <1>3, <2>1, <2>4 DEF SessionInv, SessionType
    <2>7. ClientConns'
      BY ONLY <1>00, <1>01, <1>1, <2>0, <2>1 DEF ClientConns
    <2>8. ServerConns'
      <3>1. \A c \in Conns : c # cl.conn => up'[c] = up[c]
        BY ONLY <2>4
      <3>2. ServerPlaces'
        BY ONLY <1>00, <1>1, <2>0, <2>1 DEF ServerConns, ServerPlaces
      <3>3. ServerStreams'
        BY ONLY <1>00, <1>01, <1>1, <2>1, <3>1 DEF ServerConns, ServerStreams, Conns
      <3> QED
        BY ONLY <3>2, <3>3 DEF ServerConns
    <2>9. Phase'
      <3>1. SUFFICES ASSUME sv.pc # "dead", cl.conn # 0, cl.conn \notin freed PROVE Phase'
        BY <1>1, <2>1 DEF Phase
      <3>2. Pending' = Pending /\ ~Lost /\ ~BetweenCalls
        BY <1>0, <2>5, <3>1 DEF SessionInv, ClientConns, Lost, BetweenCalls
      <3>3. Phase
        BY DEF SessionInv
      <3>4. NotRun => NotRun'
        BY <1>1, <2>1 DEF NotRun
      <3>5. Unread => Unread'
        BY <1>1, <2>1, <3>2, <3>4 DEF Unread
      <3>6. \A pc \in AtWork : Serving(pc) => Serving(pc)'
        BY <1>1, <2>1 DEF Serving
      <3>7. HeadNext => HeadNext'
        BY <1>1, <2>1, <3>2, <3>4, <3>6 DEF HeadNext, AtWork
      <3>8. PathNext => PathNext'
        BY <1>1, <2>1, <3>2, <3>4, <3>6 DEF PathNext, AtWork
      <3>9. Reading => Reading'
        BY <1>1, <2>1, <3>2, <3>6 DEF Reading, AtWork
      <3>10. Writing => Writing'
        BY <1>1, <2>1, <3>2, <3>4, <3>6 DEF Writing, AtWork
      <3>11. Answered => Answered'
        BY <1>1, <2>1, <3>2 DEF Answered
      <3> QED
        BY ONLY <3>1, <3>2, <3>3, <3>5, <3>7, <3>8, <3>9, <3>10, <3>11 DEF Phase
    <2>10. Answers'
      <3>1. PlainAnswer(down[cl.conn]) => PlainAnswer(down[cl.conn])'
        BY ONLY <1>1, <2>1 DEF PlainAnswer
      <3> QED
        BY ONLY <1>00, <1>0, <1>1, <2>1, <3>1 DEF Answers, WriteOkMeansWritten
    <2> QED
      BY <2>6, <2>7, <2>8, <2>9, <2>10 DEF SessionInv
  <1> QED
    BY <1>2, <1>3 DEF Send

\* What every step starts from.
LEMMA Known ==
  ASSUME SessionInv
  PROVE  /\ SessionType /\ ClientConns /\ ServerPlaces /\ ServerStreams /\ Phase /\ Answers
         /\ keep \in {0, 1} /\ made \in Nat /\ made <= MaxRequests /\ MaxRequests \in Nat \ {0} /\ MaxSize \in Nat
         /\ hung \subseteq 1 .. made /\ freed \subseteq 1 .. made
         /\ up \in [Conns -> Seq(Msgs)] /\ down \in [Conns -> Seq(Msgs)]
         /\ cl \in ClientRecords /\ sv \in ServerRecords
         /\ cl.id \in Nat /\ cl.conn \in Nat /\ cl.conn <= made /\ sv.comm \in Nat /\ sv.comm <= made
         /\ sv.id \in Nat /\ cl.size \in 0 .. MaxSize /\ cl.cont \in 0 .. MaxSize
         /\ Conns = 1 .. MaxRequests
  <1>1. SessionType /\ ClientConns /\ ServerPlaces /\ ServerStreams /\ Phase /\ Answers
    BY DEF SessionInv, ServerConns
  <1>2. /\ keep \in {0, 1} /\ made \in Nat /\ made <= MaxRequests /\ MaxRequests \in Nat \ {0} /\ MaxSize \in Nat
        /\ cl \in ClientRecords /\ sv \in ServerRecords
    BY <1>1, SessionAssumption DEF SessionType
  <1>3. /\ hung \subseteq 1 .. made /\ freed \subseteq 1 .. made
        /\ up \in [Conns -> Seq(Msgs)] /\ down \in [Conns -> Seq(Msgs)]
    BY <1>1 DEF SessionType
  <1>4. /\ cl.id \in Nat /\ cl.conn \in Nat /\ sv.comm \in Nat /\ sv.id \in Nat
        /\ cl.size \in 0 .. MaxSize /\ cl.cont \in 0 .. MaxSize
    BY ONLY <1>2 DEF ClientRecords, ServerRecords
  <1>5. cl.conn <= made /\ sv.comm <= made
    <2>1. keep \in {0, 1} /\ made \in Nat
      BY ONLY <1>2
    <2>2. cl.conn <= made
      BY ONLY <1>1, <1>4, <2>1 DEF ClientConns
    <2>3. sv.comm <= made
      BY ONLY <1>1 DEF ServerPlaces
    <2> QED
      BY <2>2, <2>3
  <1> QED
    BY ONLY <1>1, <1>2, <1>3, <1>4, <1>5 DEF Conns

LEMMA ClientTyped ==
  ASSUME SessionType, UNCHANGED <<keep, freed, sv, ran, written>>, cl' \in ClientRecords,
         made' \in 0 .. MaxRequests, made <= made', hung' \subseteq 1 .. made', fault' \subseteq Faults,
         up' \in [Conns -> Seq(Msgs)], down' \in [Conns -> Seq(Msgs)]
  PROVE  SessionType'
  <1>1. freed' \subseteq 1 .. made'
    <2>1. freed \subseteq 1 .. made /\ made \in Nat /\ made' \in Nat /\ made <= made' /\ freed' = freed
      BY SessionAssumption DEF SessionType
    <2> QED
      BY ONLY <2>1
  <1> QED
    BY <1>1 DEF SessionType

LEMMA ServerTyped ==
  ASSUME SessionType, UNCHANGED <<keep, made, hung, cl>>, sv' \in ServerRecords, sv'.cont <= sv'.size,
         freed' \subseteq 1 .. made, fault' \subseteq Faults,
         up' \in [Conns -> Seq(Msgs)], down' \in [Conns -> Seq(Msgs)],
         ran' \in [0 .. MaxRequests -> 0 .. 2], written' \in [Calls -> 0 .. MaxSize]
  PROVE  SessionType'
  BY DEF SessionType

LEMMA NothingPending ==
  ASSUME NEW faults PROVE AfterJunk(<<>>, <<>>, faults)
  <1>1. /\ <<>> \in Seq(Msgs) /\ <<>> \o <<>> = <<>> /\ Len(<<>>) = 0
    OBVIOUS
  <1>2. \A i \in 1 .. Len(<<>>) : <<>>[i].k = "data"
    BY <1>1
  <1> QED
    BY <1>1, <1>2 DEF AfterJunk

\* nfi_xpn_server_connect.
LEMMA ConnectKeeps == ASSUME SessionInv, Connect PROVE SessionInv'
  <1>0. /\ ClientConns /\ ServerPlaces /\ ServerStreams /\ Phase /\ Answers
        /\ keep \in {0, 1} /\ made \in Nat /\ MaxRequests \in Nat \ {0} /\ hung \subseteq 1 .. made /\ freed \subseteq 1 .. made
        /\ Conns = 1 .. MaxRequests /\ sv.comm \in Nat
    BY Known
  <1>1. UNCHANGED <<keep, up, down, hung, freed, sv, ran, written, fault>> /\ cl.pc = "connect" /\ sv.pc # "dead"
    BY DEF Connect
  <1>2. keep = 1 /\ made = 0 /\ cl.out = <<>> /\ cl.res = "none" /\ sv.comm = 0 /\ sv.pc = "accept" /\ hung = {} /\ freed = {}
    <2>1. keep = 1
      BY ONLY <1>0, <1>1 DEF ClientConns
    <2>2. made = 0 /\ cl.out = <<>> /\ cl.res = "none"
      BY ONLY <1>0, <1>1, <2>1 DEF ClientConns
    <2>3. hung = {} /\ freed = {}
      BY ONLY <1>0, <2>2
    <2>4. sv.comm <= made /\ (sv.pc \notin {"accept", "dead"} => sv.comm # 0)
      BY ONLY <1>0 DEF ServerPlaces
    <2>5. sv.comm = 0
      BY ONLY <1>0, <2>2, <2>4
    <2> QED
      BY ONLY <1>1, <2>1, <2>2, <2>3, <2>4, <2>5
  <1>3. made' = 1
    BY <1>2 DEF Connect
  <1>4a. /\ cl' \in ClientRecords /\ cl'.pc = "idle" /\ cl'.f = cl.f /\ cl'.id = cl.id /\ cl'.conn = 1
         /\ cl'.out = cl.out /\ cl'.size = cl.size /\ cl'.cont = cl.cont /\ cl'.res = cl.res
    <2>1. cl' = [cl EXCEPT !.pc = "idle", !.conn = 1] /\ cl \in ClientRecords /\ 1 \in 0 .. MaxRequests
      BY <1>0, <1>2, Known DEF Connect
    <2> QED
      BY ONLY <2>1 DEF ClientRecords
  <1>4. /\ cl'.pc = "idle" /\ cl'.f = cl.f /\ cl'.id = cl.id /\ cl'.conn = 1
        /\ cl'.out = cl.out /\ cl'.size = cl.size /\ cl'.cont = cl.cont /\ cl'.res = cl.res
    BY <1>4a
  <1>5. SessionType'
    <2>1. /\ 1 \in 0 .. MaxRequests /\ hung' \subseteq 1 .. made' /\ fault' \subseteq Faults /\ made <= made'
          /\ up' \in [Conns -> Seq(Msgs)] /\ down' \in [Conns -> Seq(Msgs)]
      BY <1>0, <1>1, <1>2, <1>3, Known DEF SessionType
    <2> QED
      BY <1>1, <1>3, <1>4a, <2>1, Known, ClientTyped
  <1>6. ClientConns'
    BY ONLY <1>0, <1>1, <1>2, <1>3, <1>4 DEF ClientConns
  <1>7. ServerPlaces'
    BY ONLY <1>0, <1>1, <1>2, <1>3, <1>4 DEF ServerPlaces, AtWork
  <1>8. ServerStreams'
    BY ONLY <1>0, <1>1, <1>2, <1>3, <1>4 DEF ServerStreams
  <1>9. up[1] = <<>> /\ down[1] = <<>>
    BY ONLY <1>0, <1>2 DEF ServerStreams
  <1>10. Phase'
    <2>1. Pending' = <<>>
      BY ONLY <1>1, <1>2, <1>4, <1>9 DEF Pending
    <2>2. BetweenCalls'
      BY ONLY <1>1, <1>2, <1>4, <2>1, NothingPending DEF BetweenCalls
    <2> QED
      BY ONLY <2>2 DEF Phase
  <1>11. Answers'
    BY ONLY <1>0, <1>1, <1>2, <1>4, <1>9 DEF Answers, WriteOkMeansWritten
  <1> QED
    BY <1>5, <1>6, <1>7, <1>8, <1>10, <1>11 DEF SessionInv, ServerConns

\* While the client makes no call its kept connection is between calls.
LEMMA IdleConn ==
  ASSUME SessionInv, cl.pc = "idle"
  PROVE  /\ cl.out = <<>> /\ cl.conn \notin hung /\ "client_died" \notin fault
         /\ keep = 0 => cl.conn = 0 /\ \A c \in 1 .. made : c \in hung
         /\ keep = 1 => made = 1 /\ cl.conn = 1 /\ down[1] = <<>>
         /\ keep = 1 /\ sv.pc # "dead" => /\ 1 \notin freed /\ (sv.pc \in Waits \/ sv.comm = 0)
                                          /\ AfterJunk(up[1], <<>>, fault)
  <1>0. /\ ClientConns /\ ServerPlaces /\ Phase /\ Answers /\ keep \in {0, 1} /\ made \in Nat
    BY Known
  <1>1. /\ cl.out = <<>> /\ cl.conn \notin hung /\ "client_died" \notin fault
        /\ keep = 0 => cl.conn = 0 /\ \A c \in 1 .. made : c \in hung
    BY ONLY <1>0, cl.pc = "idle" DEF ClientConns
  <1>2. keep = 1 => made = 1 /\ cl.conn = 1
    BY ONLY <1>0, cl.pc = "idle" DEF ClientConns
  <1>3. keep = 1 => down[1] = <<>>
    BY ONLY <1>0, <1>2, cl.pc = "idle" DEF Answers
  <1>4. ASSUME keep = 1, sv.pc # "dead"
        PROVE  1 \notin freed /\ (sv.pc \in Waits \/ sv.comm = 0) /\ AfterJunk(up[1], <<>>, fault)
    <2>1. 1 \notin freed
      BY ONLY <1>0, <1>1, <1>2, <1>4, cl.pc = "idle" DEF ServerPlaces
    <2>2. BetweenCalls
      BY ONLY <1>0, <1>1, <1>2, <1>4, <2>1, cl.pc = "idle" DEF Phase, Lost, Unread, HeadNext, PathNext, Reading, Writing,
              Answered, Serving
    <2>3. up[1] \in Seq(Msgs)
      BY Known, <1>2, <1>4
    <2>4. Pending = up[1]
      BY ONLY <1>1, <1>2, <1>4, <2>3 DEF Pending
    <2> QED
      BY ONLY <2>1, <2>2, <2>4, cl.pc = "idle" DEF BetweenCalls
  <1> QED
    BY ONLY <1>1, <1>2, <1>3, <1>4

LEMMA JunkThen ==
  ASSUME NEW p \in Seq(Msgs), NEW m \in Seq(Msgs), NEW faults, AfterJunk(p, <<>>, faults)
  PROVE  AfterJunk(p \o m, m, faults)
  <1>1. PICK junk \in Seq(Msgs) : /\ p = junk \o <<>> /\ \A i \in 1 .. Len(junk) : junk[i].k = "data"
                                  /\ junk # <<>> => "data_abandoned" \in faults
    BY DEF AfterJunk
  <1>2. p \o m = junk \o m
    BY ONLY <1>1, junk \in Seq(Msgs), m \in Seq(Msgs)
  <1> QED
    BY ONLY <1>1, <1>2, junk \in Seq(Msgs) DEF AfterJunk

\* An answer of which nothing is there.
LEMMA NoChunks ==
  ASSUME NEW from \in 0 .. MaxSize, NEW size \in 0 .. MaxSize, from <= size, NEW id, NEW times
  PROVE  OpenAnswer(<<>>, from, size, id, from) /\ ReadAnswer(<<>>, from, size, id, times)
  <1>1. PICK acc : acc = [i \in 0 .. 0 |-> from]
    OBVIOUS
  <1>2. acc \in Accs(0) /\ acc[0] = from
    BY <1>1 DEF Accs
  <1>3. Chunks(<<>>, 0, acc, from, size, id)
    BY ONLY <1>2, from \in 0 .. MaxSize, size \in 0 .. MaxSize, from <= size DEF Chunks
  <1>4. Len(<<>>) = 0 /\ 0 \in 0 .. Len(<<>>) /\ 2 * 0 = 0 /\ ~(0 > 0)
    OBVIOUS
  <1> QED
    BY ONLY <1>2, <1>3, <1>4 DEF OpenAnswer, ReadAnswer

\* A call with a request.
LEMMA StartCallKeeps ==
  ASSUME SessionInv, NEW f \in ClientFunctions, NEW lens \in Paths(f), NEW size \in SizesOf(f), StartCall(f, lens, size)
  PROVE  SessionInv'
  <1>0. /\ ClientConns /\ ServerPlaces /\ ServerStreams /\ Answers
        /\ keep \in {0, 1} /\ made \in Nat /\ hung \subseteq 1 .. made /\ freed \subseteq 1 .. made
        /\ cl.id \in Nat /\ sv.comm \in Nat /\ sv.comm <= made /\ sv.id \in Nat
        /\ MaxRequests \in Nat /\ Conns = 1 .. MaxRequests /\ made <= MaxRequests
    BY Known
  <1>1. /\ UNCHANGED <<keep, up, down, hung, freed, sv, ran, written, fault>> /\ cl.pc = "idle" /\ cl.id < MaxRequests
        /\ keep = 1 \/ sv.pc # "dead"
        /\ f.op = "WRITE" => size > 0
        /\ made' = IF keep = 0 THEN made + 1 ELSE made
    BY DEF StartCall
  <1>2. size \in 0 .. MaxSize
    BY SessionAssumption DEF SizesOf
  <1>3. PICK R \in Seq(Msgs), n \in Nat, i \in 1 .. MaxRequests :
          /\ R = Request(f, lens, size, i) /\ i = cl.id + 1
          /\ n = (IF keep = 0 THEN made + 1 ELSE cl.conn) /\ n = made' /\ n # 0 /\ n <= i /\ n \in Conns /\ n \notin hung
          /\ keep = 1 => n = 1 /\ made = 1
          /\ keep = 0 => n = made + 1
    <2>1. cl.id + 1 \in 1 .. MaxRequests /\ cl.id + 1 \in Nat
      BY ONLY <1>0, <1>1
    <2>2. Request(f, lens, size, cl.id + 1) \in Seq(Msgs)
      BY <1>2, <2>1, RequestShape DEF IsRequest
    <2>3. CASE keep = 0
      <3>1. made <= cl.id
        BY ONLY <1>0, <2>3 DEF ClientConns
      <3>2. made + 1 \in Nat /\ made + 1 # 0 /\ made + 1 <= cl.id + 1 /\ made + 1 \in Conns /\ made + 1 \notin hung
        BY ONLY <1>0, <1>1, <3>1
      <3> QED
        BY ONLY <1>1, <2>1, <2>2, <2>3, <3>2
    <2>4. CASE keep = 1
      <3>1. made = 1 /\ cl.conn = 1 /\ cl.conn \notin hung
        BY <1>1, <2>4, IdleConn
      <3>2. 1 \in Conns /\ 1 <= cl.id + 1 /\ 1 \in Nat
        BY ONLY <1>0, <1>1
      <3> QED
        BY ONLY <1>1, <2>1, <2>2, <2>4, <3>1, <3>2
    <2> QED
      BY <1>0, <2>3, <2>4
  <1>4. /\ cl'.pc = "sending" /\ cl'.f = f /\ cl'.id = i /\ cl'.conn = n /\ cl'.out = R /\ cl'.size = size
        /\ cl'.cont = 0 /\ cl'.res = "none"
    BY <1>3 DEF StartCall
  <1>5. cl' \in ClientRecords
    <2>1. cl' = [pc |-> "sending", f |-> f, id |-> i, conn |-> n, out |-> R, size |-> size, cont |-> 0, res |-> "none"]
      BY <1>3 DEF StartCall
    <2>2. n \in 0 .. MaxRequests /\ i \in 0 .. MaxRequests /\ 0 \in 0 .. MaxSize
      BY <1>0, <1>3, SessionAssumption
    <2> QED
      BY ONLY <1>2, <2>1, <2>2, f \in ClientFunctions, R \in Seq(Msgs) DEF ClientRecords
  <1>6. /\ cl.out = <<>> /\ cl.conn \notin hung /\ "client_died" \notin fault
        /\ keep = 0 => cl.conn = 0 /\ \A c \in 1 .. made : c \in hung
        /\ keep = 1 => made = 1 /\ cl.conn = 1 /\ down[1] = <<>>
        /\ keep = 1 /\ sv.pc # "dead" => /\ 1 \notin freed /\ (sv.pc \in Waits \/ sv.comm = 0)
                                         /\ AfterJunk(up[1], <<>>, fault)
    BY <1>1, IdleConn
  <1>7. SessionType'
    <2>1. made' \in 0 .. MaxRequests /\ made <= made' /\ hung' \subseteq 1 .. made'
      BY ONLY <1>0, <1>1, <1>3
    <2>2. fault' \subseteq Faults /\ up' \in [Conns -> Seq(Msgs)] /\ down' \in [Conns -> Seq(Msgs)]
      BY <1>1, Known DEF SessionType
    <2> QED
      BY <1>1, <1>5, <2>1, <2>2, Known, ClientTyped
  <1>8. ClientConns'
    <2>1. keep = 0 => \A c \in 1 .. n : c # n => c \in hung
      BY ONLY <1>0, <1>3, <1>6
    <2> QED
      BY ONLY <1>0, <1>1, <1>3, <1>4, <1>6, <2>1 DEF ClientConns
  <1>9. ServerPlaces'
    <2>1. sv.comm <= n /\ sv.id <= cl.id + 1
      BY ONLY <1>0, <1>3 DEF ServerPlaces
    <2>2. sv.pc # "dead" => n \notin freed
      BY ONLY <1>0, <1>3, <1>6
    <2>3. sv.pc # "dead" /\ sv.comm # n =>
            \/ sv.pc = "accept"
            \/ sv.pc = "op" /\ keep = 0 /\ sv.comm \in hung /\ sv.comm \notin freed
      BY ONLY <1>0, <1>3, <1>6 DEF ServerPlaces
    <2> QED
      BY ONLY <1>0, <1>1, <1>3, <1>4, <2>1, <2>2, <2>3 DEF ServerPlaces
  <1>10. ServerStreams'
    BY ONLY <1>0, <1>1, <1>3, <1>4, <1>6 DEF ServerStreams
  <1>11. down[n] = <<>> /\ ran[i] = 0
    <2>1. down[n] = <<>>
      BY ONLY <1>0, <1>3, <1>6 DEF ServerStreams
    <2>2. ran[i] = 0
      BY ONLY <1>0, <1>3 DEF Answers
    <2> QED
      BY <2>1, <2>2
  <1>12. Phase'
    <2>1. SUFFICES ASSUME sv'.pc # "dead" PROVE Unread'
      BY DEF Phase
    <2>0. sv.pc # "dead"
      BY ONLY <1>1, <2>1
    <2>2. NotRun'
      BY ONLY <1>1, <1>4, <1>11 DEF NotRun
    <2>3. sv.comm < n \/ sv.pc \in Waits
      BY ONLY <1>0, <1>3, <1>6, <2>0
    <2>4. up[n] \in Seq(Msgs) /\ AfterJunk(up[n], <<>>, fault)
      <3>1. up[n] \in Seq(Msgs)
        BY <1>3, Known
      <3>2. CASE keep = 1
        BY ONLY <1>3, <1>6, <2>0, <3>1, <3>2
      <3>3. CASE keep = 0
        <4>1. up[n] = <<>>
          BY ONLY <1>0, <1>3, <3>3 DEF ServerStreams
        <4> QED
          BY ONLY <3>1, <4>1, NothingPending
      <3> QED
        BY <1>0, <3>2, <3>3
    <2>5. AfterJunk(up[n] \o R, R, fault)
      BY ONLY <2>4, R \in Seq(Msgs), JunkThen
    <2>6. Pending' = up[n] \o R
      BY ONLY <1>1, <1>4 DEF Pending
    <2>7. AfterJunk(Pending', Request(cl'.f, lens, cl'.size, cl'.id), fault')
      BY ONLY <1>1, <1>3, <1>4, <2>5, <2>6
    <2>8. lens \in Paths(cl'.f)
      BY ONLY <1>4, lens \in Paths(f)
    <2> QED
      BY ONLY <1>1, <1>4, <2>2, <2>3, <2>7, <2>8 DEF Unread, Waits
  <1>13. Answers'
    <2>1. ReadAnswer(<<>>, 0, size, i, 0)
      BY <1>2, NoChunks, SessionAssumption
    <2>2. PlainAnswer(down[cl.conn])'
      BY ONLY <1>1, <1>4, <1>11 DEF PlainAnswer
    <2>3. "client_died" \notin fault => ran[0] = 0
      BY ONLY <1>0 DEF Answers
    <2>4. \A k \in 0 .. MaxRequests : k > i => ran[k] = 0
      BY ONLY <1>0, <1>3 DEF Answers
    <2>5. size \in Nat
      BY <1>2
    <2> QED
      BY ONLY <1>1, <1>4, <1>11, <2>1, <2>2, <2>3, <2>4, <2>5 DEF Answers, WriteOkMeansWritten
  <1> QED
    BY <1>7, <1>8, <1>9, <1>10, <1>12, <1>13 DEF SessionInv, ServerConns

\* A call that sends nothing.
LEMMA SilentCallKeeps == ASSUME SessionInv, SilentCall PROVE SessionInv'
  <1>0. /\ ClientConns /\ ServerPlaces /\ ServerStreams /\ Phase /\ Answers
        /\ keep \in {0, 1} /\ made \in Nat /\ hung \subseteq 1 .. made /\ freed \subseteq 1 .. made
        /\ cl.id \in Nat /\ sv.comm \in Nat /\ sv.comm <= made /\ sv.id \in Nat
        /\ MaxRequests \in Nat /\ MaxSize \in Nat /\ Conns = 1 .. MaxRequests /\ made <= MaxRequests
    BY Known
  <1>1. /\ UNCHANGED <<keep, up, down, freed, sv, ran, written, fault>> /\ cl.pc = "idle" /\ cl.id < MaxRequests
        /\ made' = (IF keep = 0 THEN made + 1 ELSE made)
        /\ hung' = (IF keep = 0 THEN hung \union {made + 1} ELSE hung)
    BY DEF SilentCall
  <1>2. PICK i \in 1 .. MaxRequests : i = cl.id + 1
    BY ONLY <1>0, <1>1
  <1>3. /\ cl' \in ClientRecords /\ cl'.pc = cl.pc /\ cl'.f = cl.f /\ cl'.id = i /\ cl'.conn = cl.conn
        /\ cl'.out = cl.out /\ cl'.size = 0 /\ cl'.cont = 0 /\ cl'.res = "silent"
    <2>1. cl' = [cl EXCEPT !.id = i, !.size = 0, !.cont = 0, !.res = "silent"] /\ cl \in ClientRecords
      BY <1>2, Known DEF SilentCall
    <2>2. i \in 0 .. MaxRequests /\ 0 \in 0 .. MaxSize
      BY ONLY <1>0
    <2> QED
      BY ONLY <2>1, <2>2 DEF ClientRecords
  <1>4. /\ cl'.pc = "idle" /\ cl'.f = cl.f /\ cl'.id = i /\ cl'.conn = cl.conn
        /\ cl'.out = cl.out /\ cl'.size = 0 /\ cl'.cont = 0 /\ cl'.res = "silent"
    BY <1>1, <1>3
  <1>5. /\ cl.out = <<>> /\ cl.conn \notin hung /\ "client_died" \notin fault
        /\ keep = 0 => cl.conn = 0 /\ \A c \in 1 .. made : c \in hung
        /\ keep = 1 => made = 1 /\ cl.conn = 1 /\ down[1] = <<>>
        /\ keep = 1 /\ sv.pc # "dead" => /\ 1 \notin freed /\ (sv.pc \in Waits \/ sv.comm = 0)
                                         /\ AfterJunk(up[1], <<>>, fault)
    BY <1>1, IdleConn
  <1>6. keep = 0 => made <= cl.id
    BY ONLY <1>0 DEF ClientConns
  <1>7. SessionType'
    <2>1. made' \in 0 .. MaxRequests /\ made <= made' /\ hung' \subseteq 1 .. made'
      BY ONLY <1>0, <1>1, <1>2, <1>6
    <2>2. fault' \subseteq Faults /\ up' \in [Conns -> Seq(Msgs)] /\ down' \in [Conns -> Seq(Msgs)]
      BY <1>1, Known DEF SessionType
    <2> QED
      BY <1>1, <1>3, <2>1, <2>2, Known, ClientTyped
  <1>8. ClientConns'
    <2>1. keep = 0 => /\ \A c \in 1 .. (made + 1) : c \in hung \union {made + 1}
                      /\ made + 1 <= i /\ 0 \notin hung \union {made + 1}
      BY ONLY <1>0, <1>2, <1>5, <1>6
    <2>2. CASE keep = 0
      BY ONLY <1>1, <1>4, <1>5, <2>1, <2>2 DEF ClientConns
    <2>3. CASE keep = 1
      BY ONLY <1>1, <1>4, <1>5, <2>3 DEF ClientConns
    <2> QED
      BY ONLY <1>0, <2>2, <2>3
  <1>9. ServerPlaces'
    <2>1. sv.comm <= made' /\ sv.id <= i
      BY ONLY <1>0, <1>1, <1>2 DEF ServerPlaces
    <2>2. sv.comm \in hung => sv.comm \in hung'
      BY ONLY <1>1
    <2> QED
      BY ONLY <1>0, <1>1, <1>4, <2>1, <2>2 DEF ServerPlaces
  <1>10. ServerStreams'
    <2>1. \A c \in Conns : c > made' => c > made
      BY ONLY <1>0, <1>1
    <2> QED
      BY ONLY <1>0, <1>1, <1>4, <2>1 DEF ServerStreams
  <1>11. Phase'
    <2>1. SUFFICES ASSUME sv'.pc # "dead", cl'.conn # 0 PROVE BetweenCalls'
      BY DEF Phase
    <2>2. keep = 1 /\ cl.conn = 1 /\ sv.pc # "dead"
      BY ONLY <1>0, <1>1, <1>4, <1>5, <2>1
    <2>3. up[1] \in Seq(Msgs)
      BY <1>5, <2>2, Known
    <2>4. Pending' = up[1]
      BY ONLY <1>1, <1>4, <1>5, <2>2, <2>3 DEF Pending
    <2> QED
      BY ONLY <1>1, <1>4, <1>5, <2>2, <2>4 DEF BetweenCalls, Waits
  <1>12. Answers'
    <2>1. \A k \in 0 .. MaxRequests : k > i => ran[k] = 0
      BY ONLY <1>0, <1>2 DEF Answers
    <2>2. cl.conn # 0 => down[cl.conn] = <<>>
      BY ONLY <1>0, <1>5
    <2>3. ran[0] = 0
      BY ONLY <1>0, <1>5 DEF Answers
    <2> QED
      BY ONLY <1>1, <1>4, <2>1, <2>2, <2>3 DEF Answers, WriteOkMeansWritten
  <1> QED
    BY <1>7, <1>8, <1>9, <1>10, <1>11, <1>12 DEF SessionInv, ServerConns

LEMMA JunkStays ==
  ASSUME NEW p, NEW m, NEW faults, NEW more, AfterJunk(p, m, faults),
         "data_abandoned" \in faults => "data_abandoned" \in more
  PROVE  AfterJunk(p, m, more)
  BY DEF AfterJunk

\* A call that was answered: the server waits for the next one.
LEMMA AnsweredCall ==
  ASSUME SessionInv, cl.pc = "sending", ran[cl.id] # 0, sv.pc # "dead", cl.conn \notin freed
  PROVE  Answered
  <1>0. ClientConns /\ Phase
    BY Known
  <1>1. cl.conn # 0 /\ "client_died" \notin fault
    BY ONLY <1>0, cl.pc = "sending" DEF ClientConns
  <1>2. ~NotRun /\ ~Reading /\ ~Lost /\ ~BetweenCalls
    BY ONLY <1>1, cl.pc = "sending", ran[cl.id] # 0 DEF NotRun, Reading, Lost, BetweenCalls
  <1>3. ~Unread /\ ~HeadNext /\ ~PathNext /\ ~Writing
    BY ONLY <1>2 DEF Unread, HeadNext, PathNext, Writing
  <1> QED
    BY ONLY <1>0, <1>1, <1>2, <1>3, sv.pc # "dead", cl.conn \notin freed DEF Phase

\* The end of a call, with its answer or at the end of the stream.
LEMMA ReturnKeeps ==
  ASSUME SessionInv, cl.pc = "sending", cl.out = <<>>, NEW res \in {"ok", "error"}, NEW cont \in 0 .. MaxSize,
         Return(res, cont), UNCHANGED <<keep, made, up, freed, sv, ran, written>>,
         down' \in [Conns -> Seq(Msgs)], down'[cl.conn] = <<>>, \A c \in Conns : c # cl.conn => down'[c] = down[c],
         fault' = fault \/ fault' = fault \union {"no_answer"},
         ran[cl.id] = 1 \/ (cl.conn \in freed /\ "no_answer" \in fault'),
         cl.f.op = "READ" => cont <= cl.size,
         /\ res = "ok" /\ cl.f.op = "WRITE" /\ "no_answer" \notin fault' /\ "seek_failed" \notin fault'
         => written[cl.id] = cl.size
  PROVE  SessionInv'
  <1>0. /\ ClientConns /\ ServerPlaces /\ ServerStreams /\ Answers
        /\ keep \in {0, 1} /\ made \in Nat /\ hung \subseteq 1 .. made /\ freed \subseteq 1 .. made
        /\ cl.id \in Nat /\ sv.comm \in Nat /\ sv.comm <= made
        /\ MaxRequests \in Nat /\ Conns = 1 .. MaxRequests /\ made <= MaxRequests
    BY Known
  <1>1. UNCHANGED <<keep, made, up, freed, sv, ran, written>>
    OBVIOUS
  <1>2. /\ hung' = (IF keep = 0 THEN hung \union {cl.conn} ELSE hung)
    BY DEF Return
  <1>3. PICK n \in 0 .. MaxRequests : n = IF keep = 0 THEN 0 ELSE cl.conn
    BY Known
  <1>4. /\ cl' \in ClientRecords /\ cl'.pc = "idle" /\ cl'.f = cl.f /\ cl'.id = cl.id /\ cl'.conn = n
        /\ cl'.out = cl.out /\ cl'.size = cl.size /\ cl'.cont = cont /\ cl'.res = res
    <2>1. cl' = [cl EXCEPT !.pc = "idle", !.res = res, !.cont = cont, !.conn = n] /\ cl \in ClientRecords
      BY <1>3, Known DEF Return
    <2>2. res \in {"none", "silent", "ok", "error"}
      OBVIOUS
    <2> QED
      BY ONLY <2>1, <2>2, n \in 0 .. MaxRequests, cont \in 0 .. MaxSize DEF ClientRecords
  <1>5. /\ cl'.pc = "idle" /\ cl'.f = cl.f /\ cl'.id = cl.id /\ cl'.conn = n
        /\ cl'.out = <<>> /\ cl'.size = cl.size /\ cl'.cont = cont /\ cl'.res = res
    BY <1>4
  <1>6. /\ cl.conn = made /\ made # 0 /\ cl.conn \notin hung /\ "client_died" \notin fault
        /\ keep = 1 => made = 1
        /\ keep = 0 => made <= cl.id /\ \A c \in 1 .. made : c # made => c \in hung
    BY ONLY <1>0, cl.pc = "sending" DEF ClientConns
  <1>7. sv.pc # "dead" /\ made \notin freed => Answered
    BY <1>6, AnsweredCall
  <1>8. sv.pc # "dead" /\ made \in freed => keep = 0 /\ sv.pc = "accept" /\ sv.comm = made
    BY ONLY <1>0, <1>6, cl.pc = "sending" DEF ServerPlaces
  <1>9. sv.pc # "dead" /\ keep = 0 => made \in freed /\ sv.pc = "accept" /\ sv.comm = made
    BY ONLY <1>7, <1>8 DEF Answered
  <1>10. "client_died" \notin fault'
    BY <1>6
  <1>11. ("seek_failed" \in fault => "seek_failed" \in fault') /\ ("no_answer" \in fault => "no_answer" \in fault')
         /\ ("data_abandoned" \in fault => "data_abandoned" \in fault')
         /\ ("comm_used_after_free" \in fault' => "comm_used_after_free" \in fault)
    OBVIOUS
  <1>12. SessionType'
    <2>1. made' \in 0 .. MaxRequests /\ made <= made' /\ hung' \subseteq 1 .. made'
      BY ONLY <1>0, <1>1, <1>2, <1>6
    <2>2. fault' \subseteq Faults /\ up' \in [Conns -> Seq(Msgs)]
      <3>1. fault \subseteq Faults /\ "no_answer" \in Faults
        BY Known DEF SessionType, Faults
      <3> QED
        BY <1>1, <3>1, Known
    <2> QED
      BY <1>1, <1>4, <2>1, <2>2, Known, ClientTyped
  <1>13. ClientConns'
    <2>1. CASE keep = 0
      <3>1. n = 0 /\ hung' = hung \union {made} /\ 0 \notin hung'
        BY ONLY <1>0, <1>2, <1>3, <1>6, <2>1
      <3>2. \A c \in 1 .. made : c \in hung'
        BY ONLY <1>6, <2>1, <3>1
      <3> QED
        BY ONLY <1>1, <1>5, <1>6, <1>10, <2>1, <3>1, <3>2 DEF ClientConns
    <2>2. CASE keep = 1
      BY ONLY <1>1, <1>2, <1>3, <1>5, <1>6, <1>10, <2>2 DEF ClientConns
    <2> QED
      BY ONLY <1>0, <2>1, <2>2
  <1>14. ServerPlaces'
    <2>1. sv.comm \in hung => sv.comm \in hung'
      BY ONLY <1>2
    <2>2. CASE keep = 0
      <3>1. n = 0 /\ 0 \notin freed
        BY ONLY <1>0, <1>3, <2>2
      <3> QED
        BY ONLY <1>0, <1>1, <1>5, <1>6, <1>9, <1>10, <1>11, <2>1, <2>2, <3>1 DEF ServerPlaces
    <2>3. CASE keep = 1
      <3>1. n = cl.conn
        BY ONLY <1>3, <2>3
      <3>2. sv.pc # "dead" => n \notin freed
        BY ONLY <1>6, <1>8, <2>3, <3>1
      <3> QED
        BY ONLY <1>0, <1>1, <1>5, <1>6, <1>10, <1>11, <2>1, <2>3, <3>1, <3>2 DEF ServerPlaces
    <2> QED
      BY ONLY <1>0, <2>2, <2>3
  <1>15. ServerStreams'
    <2>1. \A c \in Conns : c > made => down'[c] = <<>>
      <3>1. \A c \in Conns : c # made => down'[c] = down[c]
        BY <1>6
      <3> QED
        BY ONLY <1>0, <3>1 DEF ServerStreams
    <2>2. sv.pc # "dead" => \A c \in Conns : c >= sv.comm /\ c # n /\ c \notin freed => up[c] = <<>>
      BY ONLY <1>0, <1>3, <1>6, <1>9 DEF ServerStreams
    <2> QED
      BY ONLY <1>0, <1>1, <1>5, <2>1, <2>2 DEF ServerStreams
  <1>16. Phase'
    <2>1. SUFFICES ASSUME sv'.pc # "dead", cl'.conn # 0, cl'.conn \notin freed' PROVE BetweenCalls'
      BY DEF Phase
    <2>2. keep = 1 /\ n = made /\ Answered
      BY ONLY <1>0, <1>1, <1>3, <1>5, <1>6, <1>7, <2>1
    <2>3. Pending' = Pending
      BY ONLY <1>1, <1>5, <1>6, <2>2, cl.out = <<>> DEF Pending
    <2>4. AfterJunk(Pending, <<>>, fault')
      BY ONLY <1>11, <2>2, JunkStays DEF Answered
    <2> QED
      BY ONLY <1>1, <1>5, <2>2, <2>3, <2>4 DEF BetweenCalls, Answered, Waits
  <1>17. Answers'
    <2>1. n # 0 => down'[n] = <<>>
      BY <1>3
    <2>2. /\ \A k \in 0 .. MaxRequests : k > cl.id => ran[k] = 0
          /\ ran[0] = 0
      BY ONLY <1>0, <1>6 DEF Answers
    <2>3. "no_answer" \notin fault' => ran[cl.id] = 1
      OBVIOUS
    <2>4. cl.f.op = "READ" => cont <= cl.size
      OBVIOUS
    <2>5. WriteOkMeansWritten'
      BY <1>1, <1>5 DEF WriteOkMeansWritten
    <2> QED
      BY ONLY <1>1, <1>5, <2>1, <2>2, <2>3, <2>4, <2>5 DEF Answers
  <1> QED
    BY <1>12, <1>13, <1>14, <1>15, <1>16, <1>17 DEF SessionInv, ServerConns

\* The answer of a call that is not a read.
LEMMA ReceiveStatusKeeps == ASSUME SessionInv, ReceiveStatus PROVE SessionInv'
  <1>0. /\ Answers /\ cl.conn = made /\ made \in Conns /\ down \in [Conns -> Seq(Msgs)]
        /\ cl.size \in 0 .. MaxSize /\ 0 \in 0 .. MaxSize
    <2>1. ClientConns /\ cl.pc = "sending"
      BY Known DEF ReceiveStatus
    <2>2. cl.conn = made /\ made # 0
      BY ONLY <2>1 DEF ClientConns
    <2> QED
      BY <2>2, Known
  <1>1. cl.pc = "sending" /\ cl.out = <<>> /\ cl.f.op # "READ" /\ down[cl.conn] # <<>>
    BY DEF ReceiveStatus
  <1>2. PlainAnswer(down[cl.conn])
    BY ONLY <1>0, <1>1 DEF Answers
  <1>3. PICK v \in Int : /\ down[cl.conn] = <<Item(cl.f.reply, v, cl.id)>> /\ ran[cl.id] = 1
                         /\ cl.f.op = "WRITE" /\ v >= 0 /\ "seek_failed" \notin fault => written[cl.id] = cl.size
    BY ONLY <1>1, <1>2 DEF PlainAnswer
  <1>4. PICK r, k : r = Result(cl.f, v) /\ k = IF cl.f.op = "WRITE" /\ v >= 0 THEN cl.size ELSE 0
    OBVIOUS
  <1>5. Return(r, k) /\ down' = [down EXCEPT ![cl.conn] = Tail(@)]
    <2>1. Head(down[cl.conn]).v = v
      BY <1>3 DEF Item
    <2> QED
      BY <1>4, <2>1 DEF ReceiveStatus
  <1>6. r \in {"ok", "error"} /\ k \in 0 .. MaxSize /\ (r = "ok" /\ cl.f.op = "WRITE" => v >= 0)
    BY ONLY <1>0, <1>4 DEF Result
  <1>7. down' \in [Conns -> Seq(Msgs)] /\ down'[cl.conn] = <<>> /\ \A c \in Conns : c # cl.conn => down'[c] = down[c]
    <2>1. PICK t : t = Tail(down[cl.conn])
      OBVIOUS
    <2>2. t = <<>>
      BY ONLY <1>3, <2>1
    <2>3. down' = [down EXCEPT ![cl.conn] = t]
      BY ONLY <1>5, <2>1
    <2> QED
      BY ONLY <1>0, <2>2, <2>3
  <1>8. UNCHANGED <<keep, made, up, freed, sv, ran, written>> /\ fault' = fault
    BY DEF ReceiveStatus
  <1> QED
    BY ONLY <1>1, <1>3, <1>5, <1>6, <1>7, <1>8, SessionInv, ReturnKeeps

\* No answer: the server has closed the connection.
LEMMA ReceiveEofKeeps == ASSUME SessionInv, ReceiveEof PROVE SessionInv'
  <1>0. /\ Answers /\ cl.conn \in Conns /\ down \in [Conns -> Seq(Msgs)]
        /\ cl.size \in 0 .. MaxSize /\ cl.cont \in 0 .. MaxSize
    <2>1. ClientConns /\ cl.pc = "sending"
      BY Known DEF ReceiveEof
    <2>2. cl.conn = made /\ made # 0
      BY ONLY <2>1 DEF ClientConns
    <2> QED
      BY <2>2, Known
  <1>1. /\ cl.pc = "sending" /\ cl.out = <<>> /\ down[cl.conn] = <<>> /\ cl.conn \in freed
        /\ fault' = fault \union {"no_answer"}
        /\ UNCHANGED <<keep, made, up, down, freed, sv, ran, written>>
    BY DEF ReceiveEof
  <1>2. PICK r, k : /\ Return(r, k) /\ r \in {"ok", "error"}
                    /\ (r = "error" /\ k = cl.cont) \/ (r = "ok" /\ k = IF cl.f.op = "WRITE" THEN cl.size ELSE cl.cont)
    BY DEF ReceiveEof
  <1>3. k \in 0 .. MaxSize /\ (cl.f.op = "READ" => k <= cl.size)
    <2>1. cl.f.op = "READ" => cl.cont <= cl.size
      BY ONLY <1>0 DEF Answers
    <2>2. k = cl.cont \/ (k = cl.size /\ cl.f.op = "WRITE")
      BY ONLY <1>2
    <2> QED
      BY ONLY <1>0, <2>1, <2>2
  <1>4. /\ down' \in [Conns -> Seq(Msgs)] /\ down'[cl.conn] = <<>> /\ (\A c \in Conns : c # cl.conn => down'[c] = down[c])
        /\ "no_answer" \in fault'
    BY ONLY <1>0, <1>1
  <1> QED
    BY ONLY <1>1, <1>2, <1>3, <1>4, SessionInv, ReturnKeeps

\* nfi_xpn_server_disconnect.
LEMMA DisconnectKeeps == ASSUME SessionInv, Disconnect PROVE SessionInv'
  <1>0. /\ ClientConns /\ ServerPlaces /\ ServerStreams /\ Answers
        /\ keep \in {0, 1} /\ made \in Nat /\ hung \subseteq 1 .. made /\ freed \subseteq 1 .. made
        /\ cl.id \in Nat /\ sv.comm \in Nat /\ sv.comm <= made
        /\ MaxRequests \in Nat /\ Conns = 1 .. MaxRequests /\ made <= MaxRequests
    BY Known
  <1>1. UNCHANGED <<keep, made, down, freed, sv, ran, written, fault>> /\ cl.pc = "idle"
    BY DEF Disconnect
  <1>2. /\ cl' \in ClientRecords /\ cl'.pc = "ended" /\ cl'.f = cl.f /\ cl'.id = cl.id /\ cl'.conn = cl.conn
        /\ cl'.out = cl.out /\ cl'.size = cl.size /\ cl'.cont = cl.cont /\ cl'.res = cl.res
    <2>1. cl' = [cl EXCEPT !.pc = "ended"] /\ cl \in ClientRecords
      BY Known DEF Disconnect
    <2> QED
      BY ONLY <2>1 DEF ClientRecords
  <1>3. /\ cl'.pc = "ended" /\ cl'.f = cl.f /\ cl'.id = cl.id /\ cl'.conn = cl.conn
        /\ cl'.out = cl.out /\ cl'.size = cl.size /\ cl'.cont = cl.cont /\ cl'.res = cl.res
    BY <1>2
  <1>5. /\ cl.out = <<>> /\ cl.conn \notin hung /\ "client_died" \notin fault
        /\ keep = 0 => cl.conn = 0 /\ \A c \in 1 .. made : c \in hung
        /\ keep = 1 => made = 1 /\ cl.conn = 1 /\ down[1] = <<>>
        /\ keep = 1 /\ sv.pc # "dead" => /\ 1 \notin freed /\ (sv.pc \in Waits \/ sv.comm = 0)
                                         /\ AfterJunk(up[1], <<>>, fault)
    BY <1>1, IdleConn
  <1>6a. PICK x \in Msgs : x = Item("op", "DISCONNECT", 0)
    <2>1. "op" \in Kinds /\ "DISCONNECT" \in Vals
      BY DEF Kinds, Vals, Codes
    <2>2. Item("op", "DISCONNECT", 0) \in Msgs
      BY ONLY <2>1, ItemIsMsg
    <2> QED
      BY ONLY <2>2
  <1>6b. PICK D \in Seq(Msgs) : D = <<x>>
    <2>1. <<x>> \in Seq(Msgs)
      BY ONLY x \in Msgs
    <2> QED
      BY ONLY <2>1
  <1>6. D = <<Item("op", "DISCONNECT", 0)>>
    BY ONLY <1>6a, <1>6b
  <1>7. /\ hung' \subseteq 1 .. made /\ hung \subseteq hung'
        /\ up' \in [Conns -> Seq(Msgs)] /\ (\A c \in Conns : c # cl.conn => up'[c] = up[c])
        /\ keep = 0 => hung' = hung
        /\ keep = 1 /\ 1 \notin freed => up'[1] = up[1] \o D
    <2>1. CASE keep = 0
      BY <1>0, <2>1, Known DEF Disconnect
    <2>2. CASE keep = 1
      <3>1. up[1] \in Seq(Msgs) /\ up \in [Conns -> Seq(Msgs)] /\ 1 \in Conns
        BY <1>0, <1>5, <2>2, Known
      <3>2. PICK q : q = Append(up[1], x)
        OBVIOUS
      <3>3. q \in Seq(Msgs) /\ q = up[1] \o D
        <4>1. PICK a \in Seq(Msgs) : a = up[1]
          BY ONLY <3>1
        <4>2. Append(a, x) \in Seq(Msgs) /\ Append(a, x) = a \o <<x>>
          BY ONLY x \in Msgs, a \in Seq(Msgs)
        <4> QED
          BY ONLY <1>6b, <3>2, <4>1, <4>2
      <3>4. hung' = hung \union {1} /\ up' = IF 1 \in freed THEN up ELSE [up EXCEPT ![1] = q]
        BY <1>5, <1>6a, <2>2, <3>2 DEF Disconnect
      <3> QED
        BY ONLY <1>0, <1>5, <2>2, <3>1, <3>3, <3>4
    <2> QED
      BY ONLY <1>0, <2>1, <2>2
  <1>8. SessionType'
    <2>1. made' \in 0 .. MaxRequests /\ made <= made' /\ hung' \subseteq 1 .. made'
      BY ONLY <1>0, <1>1, <1>7
    <2>2. fault' \subseteq Faults /\ down' \in [Conns -> Seq(Msgs)] /\ up' \in [Conns -> Seq(Msgs)]
      BY <1>1, <1>7, Known DEF SessionType
    <2> QED
      BY <1>1, <1>2, <2>1, <2>2, Known, ClientTyped
  <1>9. ClientConns'
    <2>1. /\ \A c \in 1 .. made : c \in hung => c \in hung'
          /\ keep = 0 => 0 \notin hung'
      BY ONLY <1>0, <1>7
    <2>2. CASE keep = 0
      BY ONLY <1>0, <1>1, <1>3, <1>5, <2>1, <2>2 DEF ClientConns
    <2>3. CASE keep = 1
      BY ONLY <1>0, <1>1, <1>3, <1>5, <2>3 DEF ClientConns
    <2> QED
      BY ONLY <1>0, <2>2, <2>3
  <1>10. ServerPlaces'
    <2>1. sv.comm \in hung => sv.comm \in hung'
      BY ONLY <1>7
    <2> QED
      BY ONLY <1>0, <1>1, <1>3, <2>1 DEF ServerPlaces
  <1>11. ServerStreams'
    <2>1. \A c \in Conns : c # cl.conn => up'[c] = up[c]
      BY ONLY <1>7
    <2>2. \A c \in Conns : c > made => c # cl.conn
      BY ONLY <1>0, <1>5
    <2> QED
      BY ONLY <1>0, <1>1, <1>3, <2>1, <2>2 DEF ServerStreams
  <1>12. Phase'
    <2>1. SUFFICES ASSUME sv'.pc # "dead", cl'.conn # 0, cl'.conn \notin freed' PROVE BetweenCalls'
      BY DEF Phase
    <2>2. keep = 1 /\ cl.conn = 1 /\ sv.pc # "dead" /\ 1 \notin freed
      BY ONLY <1>0, <1>1, <1>3, <1>5, <2>1
    <2>3. up[1] \in Seq(Msgs)
      BY <1>5, <2>2, Known
    <2>4. Pending' = up[1] \o D
      BY ONLY <1>1, <1>3, <1>5, <1>7, <2>2, <2>3, D \in Seq(Msgs) DEF Pending
    <2>5. AfterJunk(up[1] \o D, D, fault)
      BY ONLY <1>5, <2>2, <2>3, D \in Seq(Msgs), JunkThen
    <2> QED
      BY ONLY <1>1, <1>3, <1>5, <1>6, <2>2, <2>4, <2>5 DEF BetweenCalls, Waits
  <1>13. Answers'
    BY ONLY <1>0, <1>1, <1>3 DEF Answers, WriteOkMeansWritten
  <1> QED
    BY <1>8, <1>9, <1>10, <1>11, <1>12, <1>13 DEF SessionInv, ServerConns

LEMMA ClientDiesKeeps == ASSUME SessionInv, ClientDies PROVE SessionInv'
  <1>0. /\ ClientConns /\ ServerPlaces /\ ServerStreams /\ Phase /\ Answers
        /\ keep \in {0, 1} /\ made \in Nat /\ hung \subseteq 1 .. made /\ freed \subseteq 1 .. made
        /\ cl.conn \in Nat /\ cl.conn <= made
        /\ MaxRequests \in Nat /\ Conns = 1 .. MaxRequests /\ made <= MaxRequests
    BY Known
  <1>1. /\ UNCHANGED <<keep, made, up, down, freed, sv, ran, written>> /\ cl.pc \in {"idle", "sending"}
        /\ fault' = fault \union {"client_died"} /\ hung' = hung \union ({cl.conn} \ {0}) /\ sv.pc # "dead"
    BY DEF ClientDies
  <1>2. /\ cl' \in ClientRecords /\ cl'.pc = "dead" /\ cl'.f = cl.f /\ cl'.id = cl.id /\ cl'.conn = cl.conn
        /\ cl'.out = cl.out /\ cl'.size = cl.size /\ cl'.cont = cl.cont /\ cl'.res = cl.res
    <2>1. cl' = [cl EXCEPT !.pc = "dead"] /\ cl \in ClientRecords
      BY Known DEF ClientDies
    <2> QED
      BY ONLY <2>1 DEF ClientRecords
  <1>3. /\ cl'.pc = "dead" /\ cl'.f = cl.f /\ cl'.id = cl.id /\ cl'.conn = cl.conn
        /\ cl'.out = cl.out /\ cl'.size = cl.size /\ cl'.cont = cl.cont /\ cl'.res = cl.res
    BY <1>2
  <1>4. SessionType'
    <2>0. {cl.conn} \ {0} \subseteq 1 .. made
      BY ONLY <1>0
    <2>1. made' \in 0 .. MaxRequests /\ made <= made' /\ hung' \subseteq 1 .. made'
      <3>1. hung' \subseteq 1 .. made
        <4>1. hung \subseteq 1 .. made /\ hung' = hung \union ({cl.conn} \ {0})
          BY ONLY <1>0, <1>1
        <4> QED
          BY ONLY <2>0, <4>1
      <3>2. made' = made
        BY ONLY <1>1
      <3> QED
        BY ONLY <1>0, <3>1, <3>2
    <2>2. fault' \subseteq Faults /\ down' \in [Conns -> Seq(Msgs)] /\ up' \in [Conns -> Seq(Msgs)]
      <3>1. fault \subseteq Faults /\ "client_died" \in Faults
        BY Known DEF SessionType, Faults
      <3> QED
        BY <1>1, <3>1, Known
    <2> QED
      BY <1>1, <1>2, <2>1, <2>2, Known, ClientTyped
  <1>5. "client_died" \in fault' /\ ("data_abandoned" \in fault => "data_abandoned" \in fault')
    BY ONLY <1>1
  <1>6. ClientConns'
    <2>1. \A c \in 1 .. made : c \in hung => c \in hung'
      BY ONLY <1>1
    <2> QED
      BY ONLY <1>0, <1>1, <1>3, <1>5, <2>1 DEF ClientConns
  <1>7. ServerPlaces'
    <2>1. sv.comm \in hung => sv.comm \in hung'
      BY ONLY <1>1
    <2> QED
      BY ONLY <1>0, <1>1, <1>3, <1>5, <2>1 DEF ServerPlaces
  <1>8. ServerStreams'
    BY ONLY <1>0, <1>1, <1>3 DEF ServerStreams
  <1>9. Phase'
    <2>1. SUFFICES ASSUME sv'.pc # "dead", cl'.conn # 0, cl'.conn \notin freed' PROVE Phase'
      BY DEF Phase
    <2>2. Pending' = Pending /\ NotRun'
      BY ONLY <1>1, <1>3 DEF Pending, NotRun
    <2>3. Lost => FALSE
      BY ONLY <1>0, <1>1 DEF Lost, ClientConns
    <2>4. BetweenCalls => BetweenCalls'
      BY ONLY <1>0, <1>1, <1>3, <1>5, <2>2, JunkStays DEF BetweenCalls, ClientConns, Waits
    <2>5. Unread => Unread'
      BY ONLY <1>1, <1>3, <1>5, <2>2, JunkStays DEF Unread, Waits
    <2>6. \A pc \in AtWork : Serving(pc) => Serving(pc)'
      BY ONLY <1>1, <1>3 DEF Serving
    <2>7. HeadNext => HeadNext'
      BY ONLY <1>1, <1>3, <2>2, <2>6 DEF HeadNext, AtWork
    <2>8. PathNext => PathNext'
      BY ONLY <1>1, <1>3, <2>2, <2>6 DEF PathNext, AtWork
    <2>9. Reading => Reading'
      BY ONLY <1>1, <1>3, <2>2, <2>6 DEF Reading, AtWork
    <2>10. Writing => Writing'
      BY ONLY <1>1, <1>3, <2>2, <2>6 DEF Writing, AtWork
    <2>11. Answered => Answered'
      BY ONLY <1>1, <1>3, <1>5, <2>2, JunkStays DEF Answered, Waits
    <2>12. sv.pc # "dead" /\ cl.conn # 0 /\ cl.conn \notin freed
      BY ONLY <1>1, <1>3, <2>1
    <2> QED
      BY ONLY <1>0, <2>3, <2>4, <2>5, <2>7, <2>8, <2>9, <2>10, <2>11, <2>12 DEF Phase
  <1>10. Answers'
    <2>1. \A k \in 0 .. MaxRequests : k > cl.id => ran[k] = 0
      BY ONLY <1>0 DEF Answers
    <2>2. cl.f.op = "READ" => cl.cont <= cl.size
      BY ONLY <1>0 DEF Answers
    <2> QED
      BY ONLY <1>1, <1>3, <1>5, <2>1, <2>2 DEF Answers, WriteOkMeansWritten
  <1> QED
    BY <1>4, <1>6, <1>7, <1>8, <1>9, <1>10 DEF SessionInv, ServerConns

LEMMA DropTwo ==
  ASSUME NEW S, NEW d \in Seq(S), Len(d) >= 2
  PROVE  LET rest == SubSeq(d, 3, Len(d))
         IN  rest \in Seq(S) /\ Len(rest) = Len(d) - 2 /\ \A j \in 1 .. Len(rest) : rest[j] = d[j + 2]
  <1>1. Len(d) \in Nat /\ 3 \in 1 .. (Len(d) + 1) /\ Len(d) \in (3 - 1) .. Len(d)
    OBVIOUS
  <1>2. PICK rest : rest = SubSeq(d, 3, Len(d))
    OBVIOUS
  <1>3. rest \in Seq(S) /\ Len(rest) = Len(d) - 3 + 1 /\ \A j \in 1 .. (Len(d) - 3 + 1) : rest[j] = d[3 + j - 1]
    <2>1. 3 \in Int /\ Len(d) \in Int /\ \A i \in 3 .. Len(d) : d[i] \in S
      BY <1>1
    <2>2. /\ rest \in Seq(S) /\ Len(rest) = IF 3 <= Len(d) THEN Len(d) - 3 + 1 ELSE 0
          /\ \A j \in 1 .. Len(d) - 3 + 1 : rest[j] = d[3 + j - 1]
      BY ONLY <1>2, <2>1, SubSeqProperties
    <2>3. PICK n \in Nat : n = Len(d) /\ n >= 2
      BY ONLY <1>1, Len(d) >= 2
    <2>4. (IF 3 <= n THEN n - 3 + 1 ELSE 0) = n - 3 + 1
      BY ONLY <2>3
    <2> QED
      BY ONLY <2>2, <2>3, <2>4
  <1>4. Len(rest) = Len(d) - 2 /\ \A j \in 1 .. Len(rest) : rest[j] = d[j + 2]
    <2>1. Len(d) - 3 + 1 = Len(d) - 2
      BY ONLY <1>1
    <2>2. \A j \in 1 .. (Len(d) - 2) : 3 + j - 1 = j + 2
      BY ONLY <1>1
    <2> QED
      BY ONLY <1>3, <2>1, <2>2
  <1> QED
    BY ONLY <1>2, <1>3, <1>4

\* The first piece of the answer to a read, and the ones after it.
WithoutTwo(d, rest) ==
  /\ rest \in Seq(Msgs) /\ Len(rest) = Len(d) - 2
  /\ \A j \in 1 .. Len(rest) : rest[j] = d[j + 2]
FirstAndRest(d, m, acc, from, size, id, rest) ==
  /\ d[1].k = "rw_req" /\ d[1].v = acc[1] - from /\ d[1].v > 0 /\ d[2].k = "data" /\ d[2].v = d[1].v
  /\ acc[1] \in 0 .. MaxSize /\ acc[1] <= size /\ (m > 1 => acc[1] < size) /\ from \in 0 .. MaxSize
  /\ \E b \in Accs(m - 1) : Chunks(rest, m - 1, b, acc[1], size, id) /\ b[m - 1] = acc[m]
LEMMA FirstChunk ==
  ASSUME NEW d \in Seq(Msgs), NEW m \in Nat \ {0}, NEW acc \in Accs(m), NEW from, NEW size \in 0 .. MaxSize, NEW id \in Nat,
         Chunks(d, m, acc, from, size, id), Len(d) >= 2 * m, NEW rest, WithoutTwo(d, rest)
  PROVE  FirstAndRest(d, m, acc, from, size, id, rest)
  <1>1. /\ acc[0] = from /\ (\A i \in 1 .. m : acc[i - 1] < acc[i] /\ acc[i - 1] < size) /\ acc[m] <= size
        /\ \A i \in 1 .. m : /\ d[2 * i - 1] = Item("rw_req", acc[i] - acc[i - 1], id)
                             /\ d[2 * i] = Item("data", acc[i] - acc[i - 1], id)
    BY DEF Chunks
  <1>2. \A i \in 0 .. m : acc[i] \in 0 .. MaxSize
    BY DEF Accs
  <1>3. 0 \in 0 .. m /\ 1 \in 0 .. m /\ 1 \in 1 .. m /\ MaxSize \in Nat
    BY SessionAssumption
  <1>4. acc[0] \in 0 .. MaxSize /\ acc[1] \in 0 .. MaxSize /\ acc[1] - acc[0] \in Int /\ acc[0] < acc[1]
    BY ONLY <1>1, <1>2, <1>3
  <1>5. d[1] = Item("rw_req", acc[1] - acc[0], id) /\ d[2] = Item("data", acc[1] - acc[0], id)
    <2>1. 2 * 1 - 1 = 1 /\ 2 * 1 = 2 /\ 1 - 1 = 0
      OBVIOUS
    <2>2. d[2 * 1 - 1] = Item("rw_req", acc[1] - acc[1 - 1], id) /\ d[2 * 1] = Item("data", acc[1] - acc[1 - 1], id)
      BY ONLY <1>1, <1>3
    <2> QED
      BY ONLY <2>1, <2>2
  <1>6. d[1].k = "rw_req" /\ d[1].v = acc[1] - acc[0] /\ d[2].k = "data" /\ d[2].v = acc[1] - acc[0]
    BY ONLY <1>5 DEF Item
  <1>7. m > 1 => acc[1] < size
    <2>1. ASSUME m > 1 PROVE acc[2 - 1] < size
      BY ONLY <1>1, <2>1, m \in Nat \ {0}
    <2>2. 2 - 1 = 1
      OBVIOUS
    <2> QED
      BY ONLY <2>1, <2>2
  <1>8. acc[1] <= size
    <2>1. m = 1 \/ m > 1
      OBVIOUS
    <2>2. m = 1 => acc[1] <= size
      BY ONLY <1>1
    <2>3. acc[1] \in Int /\ size \in Int
      BY ONLY <1>3, <1>4, size \in 0 .. MaxSize
    <2> QED
      BY ONLY <1>7, <2>1, <2>2, <2>3
  <1>9. rest \in Seq(Msgs) /\ Len(rest) = Len(d) - 2 /\ \A j \in 1 .. Len(rest) : rest[j] = d[j + 2]
    BY DEF WithoutTwo
  <1>10. PICK b : b = [i \in 0 .. (m - 1) |-> acc[i + 1]]
    OBVIOUS
  <1>11. b \in Accs(m - 1) /\ \A i \in 0 .. (m - 1) : b[i] = acc[i + 1]
    <2>1. \A i \in 0 .. (m - 1) : i + 1 \in 0 .. m
      OBVIOUS
    <2>2. \A i \in 0 .. (m - 1) : acc[i + 1] \in 0 .. MaxSize
      BY ONLY <1>2, <2>1
    <2> QED
      BY ONLY <1>10, <2>2 DEF Accs
  <1>12. Chunks(rest, m - 1, b, acc[1], size, id)
    <2>1. b[0] = acc[1] /\ b[m - 1] = acc[m]
      <3>1. 0 \in 0 .. (m - 1) /\ m - 1 \in 0 .. (m - 1) /\ 0 + 1 = 1 /\ (m - 1) + 1 = m
        OBVIOUS
      <3> QED
        BY ONLY <1>11, <3>1
    <2>2. ASSUME NEW i \in 1 .. (m - 1)
          PROVE  /\ b[i - 1] < b[i] /\ b[i - 1] < size
                 /\ rest[2 * i - 1] = Item("rw_req", b[i] - b[i - 1], id) /\ rest[2 * i] = Item("data", b[i] - b[i - 1], id)
      <3>1. /\ i + 1 \in 1 .. m /\ i - 1 \in 0 .. (m - 1) /\ i \in 0 .. (m - 1) /\ (i - 1) + 1 = i /\ (i + 1) - 1 = i
            /\ 2 * (i + 1) - 1 = (2 * i - 1) + 2 /\ 2 * (i + 1) = 2 * i + 2
        OBVIOUS
      <3>2. 2 * i - 1 \in 1 .. Len(rest) /\ 2 * i \in 1 .. Len(rest)
        <4>1. Len(d) \in Nat /\ Len(d) >= 2 * m
          OBVIOUS
        <4> QED
          BY ONLY <1>9, <4>1, m \in Nat \ {0}, i \in 1 .. (m - 1)
      <3>3. b[i - 1] = acc[i] /\ b[i] = acc[i + 1]
        BY ONLY <1>11, <3>1
      <3>4. rest[2 * i - 1] = d[(2 * i - 1) + 2] /\ rest[2 * i] = d[2 * i + 2]
        BY ONLY <1>9, <3>2
      <3>5. /\ acc[(i + 1) - 1] < acc[i + 1] /\ acc[(i + 1) - 1] < size
            /\ d[2 * (i + 1) - 1] = Item("rw_req", acc[i + 1] - acc[(i + 1) - 1], id)
            /\ d[2 * (i + 1)] = Item("data", acc[i + 1] - acc[(i + 1) - 1], id)
        BY ONLY <1>1, <3>1
      <3> QED
        BY ONLY <3>1, <3>3, <3>4, <3>5
    <2> QED
      BY ONLY <1>1, <2>1, <2>2 DEF Chunks
  <1>13. b[m - 1] = acc[m]
    <2>1. m - 1 \in 0 .. (m - 1) /\ (m - 1) + 1 = m
      OBVIOUS
    <2> QED
      BY ONLY <1>11, <2>1
  <1> QED
    BY ONLY <1>1, <1>4, <1>6, <1>7, <1>8, <1>11, <1>12, <1>13 DEF FirstAndRest

\* A piece of a read that is not the last one.
LEMMA ReadOnKeeps ==
  ASSUME SessionInv, cl.pc = "sending", cl.out = <<>>, cl.f.op = "READ", NEW d \in Seq(Msgs), d = down[cl.conn],
         NEW cont \in 0 .. MaxSize, cl' = [cl EXCEPT !.cont = cont], d # <<>>, cont <= cl.size,
         d[1].v = cont - cl.cont,
         UNCHANGED <<keep, made, up, freed, sv, ran, written, hung, fault>>, NEW rest \in Seq(Msgs),
         rest = SubSeq(d, 3, Len(d)), down' = [down EXCEPT ![cl.conn] = rest],
         ReadAnswer(rest, cont, cl.size, cl.id, ran[cl.id])
  PROVE  SessionInv'
  <1>0. /\ ClientConns /\ ServerPlaces /\ ServerStreams /\ Phase /\ Answers
        /\ keep \in {0, 1} /\ made \in Nat /\ hung \subseteq 1 .. made /\ freed \subseteq 1 .. made
        /\ cl.id \in Nat /\ sv.comm \in Nat /\ sv.comm <= made /\ cl.conn \in Nat
        /\ MaxRequests \in Nat /\ MaxSize \in Nat /\ Conns = 1 .. MaxRequests /\ made <= MaxRequests
        /\ cl.size \in 0 .. MaxSize /\ cl.cont \in 0 .. MaxSize
    BY Known
  <1>1. UNCHANGED <<keep, made, up, freed, sv, ran, written, hung, fault>>
    OBVIOUS
  <1>2. /\ cl' \in ClientRecords /\ cl'.pc = cl.pc /\ cl'.f = cl.f /\ cl'.id = cl.id /\ cl'.conn = cl.conn
        /\ cl'.out = cl.out /\ cl'.size = cl.size /\ cl'.cont = cont /\ cl'.res = cl.res
    <2>1. cl' = [cl EXCEPT !.cont = cont] /\ cl \in ClientRecords
      BY Known
    <2> QED
      BY ONLY <2>1, cont \in 0 .. MaxSize DEF ClientRecords
  <1>3. /\ cl'.pc = cl.pc /\ cl'.f = cl.f /\ cl'.id = cl.id /\ cl'.conn = cl.conn
        /\ cl'.out = cl.out /\ cl'.size = cl.size /\ cl'.cont = cont /\ cl'.res = cl.res
    BY <1>2
  <1>4. cl.conn = made /\ made # 0 /\ made \in Conns /\ "client_died" \notin fault
    <2>1. cl.conn = made /\ made # 0 /\ "client_died" \notin fault
      BY ONLY <1>0, cl.pc = "sending" DEF ClientConns
    <2> QED
      BY ONLY <1>0, <2>1
  <1>5. down' \in [Conns -> Seq(Msgs)] /\ down'[made] = rest /\ \A c \in Conns : c # made => down'[c] = down[c]
    <2>1. down \in [Conns -> Seq(Msgs)] /\ down' = [down EXCEPT ![made] = rest]
      BY <1>4, Known
    <2> QED
      BY ONLY <1>4, <2>1, rest \in Seq(Msgs)
  <1>6. SessionType'
    <2>1. made' \in 0 .. MaxRequests /\ made <= made' /\ hung' \subseteq 1 .. made'
      BY ONLY <1>0, <1>1
    <2>2. fault' \subseteq Faults /\ up' \in [Conns -> Seq(Msgs)]
      BY <1>1, Known DEF SessionType
    <2> QED
      BY <1>1, <1>2, <1>5, <2>1, <2>2, Known, ClientTyped
  <1>7. ClientConns'
    BY ONLY <1>0, <1>1, <1>3 DEF ClientConns
  <1>8. ServerPlaces'
    BY ONLY <1>0, <1>1, <1>3 DEF ServerPlaces
  <1>9. ServerStreams'
    <2>1. \A c \in Conns : c > made => down'[c] = down[c]
      BY ONLY <1>0, <1>5
    <2> QED
      BY ONLY <1>0, <1>1, <1>3, <2>1 DEF ServerStreams
  <1>10. Phase'
    <2>1. SUFFICES ASSUME sv'.pc # "dead", cl'.conn # 0, cl'.conn \notin freed' PROVE Phase'
      BY DEF Phase
    <2>2. sv.pc # "dead" /\ cl.conn \notin freed
      BY ONLY <1>1, <1>3, <2>1
    <2>3. Pending' = Pending
      BY ONLY <1>1, <1>3 DEF Pending
    <2>4. ~NotRun /\ ~Lost /\ ~BetweenCalls
      BY <1>4 DEF NotRun, Lost, BetweenCalls
    <2>5. ~Unread /\ ~HeadNext /\ ~PathNext /\ ~Writing
      BY ONLY <2>4 DEF Unread, HeadNext, PathNext, Writing
    <2>6. CASE Answered
      <3>1. Answered'
        BY ONLY <1>1, <1>3, <2>3, <2>6 DEF Answered
      <3> QED
        BY ONLY <3>1 DEF Phase
    <2>7. CASE Reading
      <3>1. ran[cl.id] = 0 /\ OpenAnswer(d, cl.cont, cl.size, cl.id, sv.cont)
        BY <2>7 DEF Reading
      <3>2. PICK m \in 0 .. Len(d) : \E acc \in Accs(m) :
              Chunks(d, m, acc, cl.cont, cl.size, cl.id) /\ Len(d) = 2 * m /\ acc[m] = sv.cont
        BY ONLY <3>1 DEF OpenAnswer
      <3>3. PICK acc \in Accs(m) : Chunks(d, m, acc, cl.cont, cl.size, cl.id) /\ Len(d) = 2 * m /\ acc[m] = sv.cont
        BY ONLY <3>2
      <3>4. m \in Nat \ {0} /\ Len(d) >= 2 * m
        <4>1. Len(d) \in Nat \ {0}
          BY ONLY d \in Seq(Msgs), d # <<>>
        <4> QED
          BY ONLY <3>3, <4>1, m \in 0 .. Len(d)
      <3>5. /\ d[1].v = acc[1] - cl.cont /\ Len(rest) = Len(d) - 2 /\ acc[1] \in 0 .. MaxSize
            /\ \E b \in Accs(m - 1) : Chunks(rest, m - 1, b, acc[1], cl.size, cl.id) /\ b[m - 1] = acc[m]
        <4>0. PICK from : from = cl.cont
          OBVIOUS
        <4>1. PICK z \in 0 .. MaxSize, i \in Nat : z = cl.size /\ i = cl.id
          BY ONLY <1>0
        <4>2. Chunks(d, m, acc, from, z, i)
          BY ONLY <3>3, <4>0, <4>1
        <4>4. WithoutTwo(d, rest)
          <5>1. Len(d) >= 2
            BY ONLY <3>4, d \in Seq(Msgs)
          <5> QED
            BY ONLY <5>1, d \in Seq(Msgs), rest = SubSeq(d, 3, Len(d)), DropTwo DEF WithoutTwo
        <4>3. FirstAndRest(d, m, acc, from, z, i, rest)
          BY ONLY <3>4, <4>2, d \in Seq(Msgs), z \in 0 .. MaxSize, i \in Nat, acc \in Accs(m), <4>4, FirstChunk
        <4>5. Len(rest) = Len(d) - 2
          BY ONLY <4>4 DEF WithoutTwo
        <4> QED
          BY ONLY <4>0, <4>1, <4>3, <4>5 DEF FirstAndRest
      <3>6. acc[1] = cont
        BY <1>0, <3>5
      <3>7. m - 1 \in 0 .. Len(rest) /\ Len(rest) = 2 * (m - 1)
        BY ONLY <3>3, <3>4, <3>5
      <3>8. OpenAnswer(rest, cont, cl.size, cl.id, sv.cont)
        BY ONLY <3>3, <3>5, <3>6, <3>7 DEF OpenAnswer
      <3>9. Serving("READ")'
        BY ONLY <1>1, <1>3, <2>7 DEF Reading, Serving
      <3>10. Reading'
        BY ONLY <1>1, <1>3, <1>4, <1>5, <2>3, <2>7, <3>1, <3>8, <3>9 DEF Reading
      <3> QED
        BY ONLY <3>10 DEF Phase
    <2> QED
      BY ONLY <1>0, <1>4, <2>2, <2>4, <2>5, <2>6, <2>7 DEF Phase
  <1>11. Answers'
    <2>1. /\ \A k \in 0 .. MaxRequests : k > cl.id => ran[k] = 0
          /\ ran[0] = 0
      BY ONLY <1>0, <1>4 DEF Answers
    <2>2. ReadAnswer(down'[made], cont, cl.size, cl.id, ran[cl.id]) /\ cont <= cl.size /\ cl.f.op = "READ" /\ cl.pc = "sending"
      BY <1>5
    <2> QED
      BY ONLY <1>1, <1>3, <1>4, <2>1, <2>2 DEF Answers, WriteOkMeansWritten
  <1> QED
    BY <1>6, <1>7, <1>8, <1>9, <1>10, <1>11 DEF SessionInv, ServerConns

\* One turn of the loop of nfi_xpn_server_read.
LEMMA ReceiveReadKeeps == ASSUME SessionInv, ReceiveRead PROVE SessionInv'
  <1>0. /\ Answers /\ cl.conn \in Conns /\ down \in [Conns -> Seq(Msgs)] /\ cl.id \in Nat
        /\ cl.size \in 0 .. MaxSize /\ cl.cont \in 0 .. MaxSize /\ MaxSize \in Nat
    <2>1. ClientConns /\ cl.pc = "sending"
      BY Known DEF ReceiveRead
    <2>2. cl.conn = made /\ made # 0
      BY ONLY <2>1 DEF ClientConns
    <2> QED
      BY <2>2, Known
  <1>1. /\ cl.pc = "sending" /\ cl.out = <<>> /\ cl.f.op = "READ"
        /\ UNCHANGED <<keep, made, up, freed, sv, ran, written>> /\ fault' = fault
    BY DEF ReceiveRead
  <1>2. PICK d \in Seq(Msgs) : d = down[cl.conn]
    BY ONLY <1>0
  <1>3. d # <<>>
    BY <1>2 DEF ReceiveRead
  <1>4. PICK from \in 0 .. MaxSize, size \in 0 .. MaxSize, id \in Nat : from = cl.cont /\ size = cl.size /\ id = cl.id
    BY ONLY <1>0
  <1>5. PICK v, taken, rest : /\ v = Head(d).v /\ taken = (IF v > 0 THEN 2 ELSE 1) /\ rest = SubSeq(d, taken + 1, Len(d))
    OBVIOUS
  <1>6. /\ down' = [down EXCEPT ![cl.conn] = rest]
        /\ IF v < 0 THEN Return("error", from)
           ELSE IF size - (from + v) > 0 /\ v # 0
           THEN cl' = [cl EXCEPT !.cont = from + v] /\ UNCHANGED hung
           ELSE Return("ok", from + v)
    BY <1>2, <1>4, <1>5 DEF ReceiveRead
  <1>7. Head(d) = d[1] /\ Len(d) \in Nat \ {0}
    BY ONLY <1>3, d \in Seq(Msgs)
  <1>8. ReadAnswer(d, from, size, id, ran[cl.id])
    BY ONLY <1>0, <1>1, <1>2, <1>4 DEF Answers
  <1>9. PICK m \in 0 .. Len(d) : \E acc \in Accs(m) :
          /\ Chunks(d, m, acc, from, size, id)
          /\ \/ Len(d) = 2 * m /\ (m > 0 /\ acc[m] = size => ran[cl.id] = 1)
             \/ /\ Len(d) = 2 * m + 1 /\ ran[cl.id] = 1 /\ (m > 0 => acc[m] < size)
                /\ d[2 * m + 1] \in {Item("rw_req", 0, id), Item("rw_req", -1, id)}
    BY ONLY <1>8 DEF ReadAnswer
  <1>10. PICK acc \in Accs(m) :
          /\ Chunks(d, m, acc, from, size, id)
          /\ \/ Len(d) = 2 * m /\ (m > 0 /\ acc[m] = size => ran[cl.id] = 1)
             \/ /\ Len(d) = 2 * m + 1 /\ ran[cl.id] = 1 /\ (m > 0 => acc[m] < size)
                /\ d[2 * m + 1] \in {Item("rw_req", 0, id), Item("rw_req", -1, id)}
    BY ONLY <1>9
  <1>11. from <= size
    BY ONLY <1>0, <1>1, <1>4 DEF Answers
  <1>12. ASSUME rest = <<>>
         PROVE  /\ down' \in [Conns -> Seq(Msgs)] /\ down'[cl.conn] = <<>>
                /\ \A c \in Conns : c # cl.conn => down'[c] = down[c]
    BY ONLY <1>0, <1>6, <1>12
  <1>13. CASE m = 0
    <2>1. Len(d) = 1 /\ ran[cl.id] = 1 /\ d[1] \in {Item("rw_req", 0, id), Item("rw_req", -1, id)}
      <3>1. 2 * 0 = 0 /\ 0 + 1 = 1
        OBVIOUS
      <3> QED
        BY ONLY <1>7, <1>10, <1>13, <3>1
    <2>2. v \in {0, -1}
      BY ONLY <1>5, <1>7, <2>1 DEF Item
    <2>3. taken = 1
      BY ONLY <1>5, <2>2
    <2>4. rest = <<>>
      <3>1. 1 + 1 \in Int /\ 1 \in Int /\ 1 < 1 + 1
        OBVIOUS
      <3>2. SubSeq(d, 1 + 1, 1) = <<>>
        BY ONLY <3>1, SubSeqEmpty
      <3> QED
        BY ONLY <1>5, <2>1, <2>3, <3>2
    <2>5. CASE v = -1
      <3>1. Return("error", from)
        BY ONLY <1>6, <2>5
      <3> QED
        BY ONLY SessionInv, <1>1, <1>4, <1>11, <1>12, <2>1, <2>4, <3>1, ReturnKeeps
    <2>6. CASE v = 0
      <3>1. Return("ok", from)
        BY ONLY <1>6, <2>6, from \in 0 .. MaxSize, <1>0
      <3> QED
        BY ONLY SessionInv, <1>1, <1>4, <1>11, <1>12, <2>1, <2>4, <3>1, ReturnKeeps
    <2> QED
      BY ONLY <2>2, <2>5, <2>6
  <1>14. CASE m # 0
    <2>1. m \in Nat \ {0} /\ Len(d) >= 2 * m /\ Len(d) >= 2
      BY ONLY <1>7, <1>10, <1>14, m \in 0 .. Len(d)
    <2>2. PICK q \in Seq(Msgs) : q = SubSeq(d, 3, Len(d)) /\ WithoutTwo(d, q)
      <3>1. PICK q : q = SubSeq(d, 3, Len(d))
        OBVIOUS
      <3>2. q \in Seq(Msgs) /\ Len(q) = Len(d) - 2 /\ \A j \in 1 .. Len(q) : q[j] = d[j + 2]
        BY ONLY <2>1, <3>1, d \in Seq(Msgs), DropTwo
      <3>3. WithoutTwo(d, q)
        BY ONLY <3>2 DEF WithoutTwo
      <3> QED
        BY ONLY <3>1, <3>2, <3>3
    <2>3. FirstAndRest(d, m, acc, from, size, id, q)
      BY ONLY <1>10, <2>1, <2>2, d \in Seq(Msgs), size \in 0 .. MaxSize, id \in Nat, acc \in Accs(m), FirstChunk
    <2>4. /\ v = acc[1] - from /\ v > 0 /\ acc[1] \in 0 .. MaxSize /\ acc[1] <= size /\ (m > 1 => acc[1] < size)
          /\ \E b \in Accs(m - 1) : Chunks(q, m - 1, b, acc[1], size, id) /\ b[m - 1] = acc[m]
      BY ONLY <1>5, <1>7, <2>3 DEF FirstAndRest
    <2>5. rest = q
      <3>1. taken = 2 /\ 2 + 1 = 3
        BY ONLY <1>5, <2>4
      <3> QED
        BY ONLY <1>5, <2>2, <3>1
    <2>6. from + v = acc[1] /\ ~(v < 0) /\ v # 0
      <3>1. PICK a \in Int : a = acc[1]
        BY ONLY <2>4
      <3>2. from \in Int /\ v = a - from /\ v > 0
        BY ONLY <2>4, <3>1, from \in 0 .. MaxSize
      <3>3. from + v = a /\ ~(v < 0) /\ v # 0
        BY ONLY <3>2, a \in Int
      <3> QED
        BY ONLY <3>1, <3>3
    <2>7. CASE acc[1] = size
      <3>1. m = 1
        BY ONLY <2>1, <2>4, <2>7, size \in 0 .. MaxSize
      <3>2. acc[m] = size
        BY ONLY <2>7, <3>1
      <3>3. Len(d) = 2 /\ ran[cl.id] = 1
        BY ONLY <1>10, <3>1, <3>2, size \in 0 .. MaxSize
      <3>4. rest = <<>>
        <4>1. Len(q) = 0
          BY ONLY <2>2, <3>3 DEF WithoutTwo
        <4> QED
          BY ONLY <2>5, <4>1, q \in Seq(Msgs)
      <3>5. Return("ok", size)
        BY ONLY <1>6, <2>6, <2>7, size \in 0 .. MaxSize, <1>0
      <3> QED
        BY ONLY SessionInv, <1>0, <1>1, <1>4, <1>12, <3>3, <3>4, <3>5, ReturnKeeps
    <2>8. CASE acc[1] # size
      <3>1. acc[1] < size /\ size - acc[1] > 0
        BY ONLY <1>0, <2>4, <2>8, size \in 0 .. MaxSize
      <3>2. cl' = [cl EXCEPT !.cont = acc[1]] /\ UNCHANGED hung
        BY ONLY <1>6, <2>6, <3>1
      <3>3. ReadAnswer(q, acc[1], size, id, ran[cl.id])
        <4>1. PICK b \in Accs(m - 1) : Chunks(q, m - 1, b, acc[1], size, id) /\ b[m - 1] = acc[m]
          BY ONLY <2>4
        <4>2. Len(q) = Len(d) - 2 /\ \A j \in 1 .. Len(q) : q[j] = d[j + 2]
          BY ONLY <2>2 DEF WithoutTwo
        <4>3. m - 1 \in 0 .. Len(q)
          BY ONLY <2>1, <4>2, <1>7
        <4>4. CASE Len(d) = 2 * m /\ (m > 0 /\ acc[m] = size => ran[cl.id] = 1)
          <5>1. Len(q) = 2 * (m - 1) /\ (m - 1 > 0 /\ b[m - 1] = size => ran[cl.id] = 1)
            BY ONLY <2>1, <4>1, <4>2, <4>4
          <5> QED
            BY ONLY <4>1, <4>3, <5>1 DEF ReadAnswer
        <4>5. CASE /\ Len(d) = 2 * m + 1 /\ ran[cl.id] = 1 /\ (m > 0 => acc[m] < size)
                   /\ d[2 * m + 1] \in {Item("rw_req", 0, id), Item("rw_req", -1, id)}
          <5>1. Len(q) = 2 * (m - 1) + 1 /\ (m - 1 > 0 => b[m - 1] < size)
            BY ONLY <2>1, <4>1, <4>2, <4>5
          <5>2. 2 * (m - 1) + 1 \in 1 .. Len(q) /\ (2 * (m - 1) + 1) + 2 = 2 * m + 1
            BY ONLY <2>1, <5>1
          <5>3. q[2 * (m - 1) + 1] = d[2 * m + 1]
            BY ONLY <4>2, <5>2
          <5>4. q[2 * (m - 1) + 1] \in {Item("rw_req", 0, id), Item("rw_req", -1, id)}
            BY ONLY <4>5, <5>3
          <5> QED
            BY ONLY <4>1, <4>3, <4>5, <5>1, <5>4 DEF ReadAnswer
        <4> QED
          BY ONLY <1>10, <4>4, <4>5
      <3>4. d[1].v = acc[1] - cl.cont
        BY ONLY <1>4, <1>5, <1>7, <2>4
      <3>5. down' = [down EXCEPT ![cl.conn] = q] /\ ReadAnswer(q, acc[1], cl.size, cl.id, ran[cl.id])
            /\ acc[1] \in 0 .. MaxSize /\ acc[1] <= cl.size
        BY ONLY <1>4, <1>6, <2>4, <2>5, <3>3
      <3> QED
        BY ONLY SessionInv, <1>1, <1>2, <1>3, <2>2, <3>2, <3>4, <3>5, d \in Seq(Msgs), q \in Seq(Msgs), ReadOnKeeps
    <2> QED
      BY ONLY <2>7, <2>8
  <1> QED
    BY ONLY <1>13, <1>14

-----------------------------------------------------------------------------
(* The server.                                                               *)

LEMMA ClientConnsStay ==
  ASSUME ClientConns, UNCHANGED <<keep, made, hung, cl>>, freed \subseteq freed',
         "client_died" \in fault => "client_died" \in fault', "client_died" \in fault' => "client_died" \in fault
  PROVE  ClientConns'
  <1>1. UNCHANGED <<keep, made, hung, cl>> /\ (cl.conn \in freed => cl.conn \in freed')
    OBVIOUS
  <1> QED
    BY <1>1 DEF ClientConns

LEMMA AnswersStay ==
  ASSUME Answers, UNCHANGED <<cl, down, ran, written, fault>> PROVE Answers'
  BY DEF Answers, PlainAnswer, WriteOkMeansWritten

\* A step of the server on the client's connection that leaves it open.
LEMMA HandlerStep ==
  ASSUME SessionInv, sv.comm = cl.conn, sv.comm # 0, sv.comm \notin freed, sv.pc # "dead",
         UNCHANGED <<keep, made, hung, freed, cl, fault>>,
         sv' \in ServerRecords, sv'.cont <= sv'.size, sv'.comm = sv.comm, sv'.id <= cl.id,
         sv'.pc \in AtWork \union {"op", "astray", "done"},
         sv'.pc \in {"op", "head", "path"} => sv'.cont = 0, sv'.pc = "op" => sv'.garbled = FALSE,
         up' \in [Conns -> Seq(Msgs)], \A c \in Conns : c # sv.comm => up'[c] = up[c],
         down' \in [Conns -> Seq(Msgs)], \A c \in Conns : c # sv.comm => down'[c] = down[c],
         ran' \in [0 .. MaxRequests -> 0 .. 2], written' \in [Calls -> 0 .. MaxSize],
         Phase', Answers'
  PROVE  SessionInv'
  <1>0. /\ ClientConns /\ ServerPlaces /\ ServerStreams /\ keep \in {0, 1} /\ made \in Nat
        /\ sv.comm \in Nat /\ sv.comm <= made /\ MaxRequests \in Nat /\ Conns = 1 .. MaxRequests
    BY Known
  <1>1. UNCHANGED <<keep, made, hung, freed, cl, fault>>
    OBVIOUS
  <1>2. SessionType'
    <2>1. freed' \subseteq 1 .. made /\ fault' \subseteq Faults
      BY Known DEF SessionType
    <2> QED
      BY <2>1, Known, ServerTyped
  <1>3. ClientConns'
    BY ONLY <1>0, <1>1, ClientConnsStay
  <1>4. ServerPlaces'
    <2>1. /\ sv'.pc \in {"head", "path", "READ", "WRITE", "op", "astray", "done"} /\ sv'.comm = sv.comm /\ sv'.id <= cl.id
          /\ sv'.pc \in {"op", "head", "path"} => sv'.cont = 0
          /\ sv'.pc = "op" => sv'.garbled = FALSE
          /\ sv.comm = cl.conn /\ sv.comm # 0 /\ sv.comm \notin freed
      BY DEF AtWork
    <2> QED
      BY ONLY <1>0, <1>1, <2>1 DEF ServerPlaces
  <1>5. ServerStreams'
    <2>1. /\ sv'.comm = sv.comm /\ sv.comm = cl.conn /\ sv.pc # "dead"
          /\ \A c \in Conns : c # sv.comm => up'[c] = up[c] /\ down'[c] = down[c]
          /\ \A c \in Conns : c > made => c # sv.comm
      BY <1>0
    <2> QED
      BY ONLY <1>0, <1>1, <2>1 DEF ServerStreams
  <1> QED
    BY <1>2, <1>3, <1>4, <1>5 DEF SessionInv, ServerConns

\* Where the handler is, the call of the client is, unless the client has died.
LEMMA HandlerAt ==
  ASSUME SessionInv, sv.pc \in AtWork
  PROVE  /\ sv.comm = cl.conn /\ sv.comm # 0 /\ sv.comm \in Conns /\ sv.comm \notin freed /\ sv.pc # "dead"
         /\ sv.id <= cl.id
         /\ \/ Lost
            \/ sv.pc = "head" /\ HeadNext
            \/ sv.pc = "path" /\ PathNext
            \/ sv.pc = "READ" /\ Reading
            \/ sv.pc = "WRITE" /\ Writing
  <1>0. ServerPlaces /\ Phase /\ sv.comm \in Nat /\ sv.comm <= made /\ made <= MaxRequests /\ Conns = 1 .. MaxRequests
        /\ MaxRequests \in Nat /\ made \in Nat
    BY Known
  <1>1. sv.pc \in {"head", "path", "READ", "WRITE"}
    BY DEF AtWork
  <1>2. sv.comm = cl.conn /\ sv.comm # 0 /\ sv.comm \notin freed /\ sv.id <= cl.id
    BY ONLY <1>0, <1>1 DEF ServerPlaces, AtWork
  <1>3. sv.comm \in Conns
    BY ONLY <1>0, <1>2
  <1>4. Lost \/ BetweenCalls \/ Unread \/ HeadNext \/ PathNext \/ Reading \/ Writing \/ Answered
    BY ONLY <1>0, <1>1, <1>2 DEF Phase
  <1>5. ~BetweenCalls /\ ~Answered
    BY ONLY <1>1, <1>2 DEF BetweenCalls, Answered, Waits
  <1>6. ~Unread
    BY ONLY <1>0, <1>1, <1>2 DEF Unread, Waits
  <1>7. /\ HeadNext => sv.pc = "head"
        /\ PathNext => sv.pc = "path"
        /\ Reading => sv.pc = "READ"
        /\ Writing => sv.pc = "WRITE"
    BY ONLY DEF HeadNext, PathNext, Reading, Writing, Serving
  <1>8. sv.pc # "dead"
    BY ONLY <1>1
  <1> QED
    BY ONLY <1>2, <1>3, <1>4, <1>5, <1>6, <1>7, <1>8

\* The end of the stream on the client's connection: the client has died.
LEMMA EofIsLost ==
  ASSUME SessionInv, sv.pc \notin {"dead", "accept"}, Eof, sv.comm \notin freed, sv.comm = cl.conn
  PROVE  Lost
  <1>0. ClientConns /\ ServerPlaces /\ Phase
    BY Known
  <1>1. cl.conn \in hung /\ up[cl.conn] = <<>>
    BY DEF Eof
  <1>2. cl.pc \in {"dead", "ended"} /\ cl.conn # 0
    BY <1>0, <1>1 DEF ClientConns, ServerPlaces
  <1>3. CASE cl.pc = "dead"
    <2>1. "client_died" \in fault
      BY ONLY <1>0, <1>3, sv.comm \notin freed, sv.comm = cl.conn DEF ClientConns
    <2> QED
      BY ONLY <1>1, <2>1 DEF Lost
  <1>4. CASE cl.pc = "ended"
    <2>1. "client_died" \notin fault
      BY ONLY <1>0, <1>4 DEF ClientConns
    <2>2. BetweenCalls
      BY ONLY <1>0, <1>2, <1>4, <2>1, sv.pc \notin {"dead", "accept"}, sv.comm \notin freed, sv.comm = cl.conn
         DEF Phase, Lost, Unread, HeadNext, PathNext, Reading, Writing, Answered, Serving
    <2>3. Pending = <<>>
      <3>1. cl.out = <<>>
        BY ONLY <2>2 DEF BetweenCalls
      <3> QED
        BY ONLY <1>1, <3>1 DEF Pending
    <2>4. PICK x : x = Item("op", "DISCONNECT", 0)
      OBVIOUS
    <2>5. AfterJunk(<<>>, <<x>>, fault)
      BY ONLY <1>4, <2>2, <2>3, <2>4 DEF BetweenCalls
    <2>6. PICK junk \in Seq(Msgs) : <<>> = junk \o <<x>>
      BY ONLY <2>5 DEF AfterJunk
    <2>7. x \in Msgs
      <3>1. "op" \in Kinds /\ "DISCONNECT" \in Vals
        BY DEF Kinds, Vals, Codes
      <3> QED
        BY ONLY <2>4, <3>1, ItemIsMsg
    <2>8. Len(junk \o <<x>>) = Len(junk) + 1 /\ Len(junk) \in Nat /\ Len(<<>>) = 0
      BY ONLY <2>7, junk \in Seq(Msgs)
    <2>9. Len(junk \o <<x>>) = Len(<<>>)
      BY ONLY <2>6
    <2> QED
      BY ONLY <2>8, <2>9
  <1> QED
    BY ONLY <1>2, <1>3, <1>4

\* The accept loop.
LEMMA AcceptKeeps == ASSUME SessionInv, Accept PROVE SessionInv'
  <1>0. /\ ClientConns /\ ServerPlaces /\ ServerStreams /\ Phase /\ Answers /\ keep \in {0, 1} /\ made \in Nat
        /\ freed \subseteq 1 .. made /\ made <= MaxRequests /\ cl.conn \in Nat
        /\ sv.comm \in Nat /\ sv.comm <= made /\ MaxRequests \in Nat /\ Conns = 1 .. MaxRequests
    BY Known
  <1>1. /\ UNCHANGED <<keep, made, up, down, hung, freed, cl, ran, written, fault>>
        /\ sv.pc = "accept" /\ sv.comm < made
    BY DEF Accept
  <1>2. PICK n \in 1 .. MaxRequests : n = sv.comm + 1 /\ n <= made
    BY ONLY <1>0, <1>1
  <1>3. /\ sv' \in ServerRecords /\ sv'.pc = "op" /\ sv'.comm = n /\ sv'.type_op = sv.type_op /\ sv'.id = sv.id
        /\ sv'.need = sv.need /\ sv'.size = sv.size /\ sv'.cont = sv.cont /\ sv'.garbled = sv.garbled
    <2>1. sv' = [sv EXCEPT !.pc = "op", !.comm = n] /\ sv \in ServerRecords
      BY <1>2, Known DEF Accept
    <2>2. n \in 0 .. MaxRequests
      OBVIOUS
    <2> QED
      BY ONLY <2>1, <2>2 DEF ServerRecords
  <1>4. /\ sv'.pc = "op" /\ sv'.comm = n /\ sv'.type_op = sv.type_op /\ sv'.id = sv.id
        /\ sv'.need = sv.need /\ sv'.size = sv.size /\ sv'.cont = sv.cont /\ sv'.garbled = sv.garbled
    BY <1>3
  <1>5. SessionType'
    <2>1. sv'.cont <= sv'.size /\ freed' \subseteq 1 .. made /\ fault' \subseteq Faults
      BY <1>1, <1>4, Known DEF SessionType
    <2>2. /\ up' \in [Conns -> Seq(Msgs)] /\ down' \in [Conns -> Seq(Msgs)]
          /\ ran' \in [0 .. MaxRequests -> 0 .. 2] /\ written' \in [Calls -> 0 .. MaxSize]
      BY <1>1, Known DEF SessionType
    <2> QED
      BY <1>1, <1>3, <2>1, <2>2, Known, ServerTyped
  <1>6. ClientConns'
    BY ONLY <1>0, <1>1, ClientConnsStay
  <1>7. freed \subseteq 1 .. sv.comm /\ n \notin freed
    <2>1. freed \subseteq 1 .. sv.comm
      BY ONLY <1>0, <1>1 DEF ServerStreams
    <2> QED
      BY ONLY <1>0, <1>2, <2>1
  <1>8. cl.conn # 0 => cl.conn = made /\ made \notin freed
    <2>1. cl.conn # 0 => cl.conn = made
      BY ONLY <1>0 DEF ClientConns
    <2> QED
      BY ONLY <1>0, <1>1, <1>7, <2>1
  <1>9. n # cl.conn => keep = 0 /\ n \in hung
    <2>1. keep = 1 => made <= 1 /\ cl.conn = made
      BY ONLY <1>0 DEF ClientConns
    <2>2. keep = 0 => \A c \in 1 .. made : c # cl.conn => c \in hung
      BY ONLY <1>0 DEF ClientConns
    <2> QED
      BY ONLY <1>0, <1>2, <2>1, <2>2
  <1>10. ServerPlaces'
    <2>1. cl.conn \notin freed
      BY ONLY <1>0, <1>8
    <2> QED
      BY ONLY <1>0, <1>1, <1>2, <1>4, <1>7, <1>9, <2>1 DEF ServerPlaces, AtWork
  <1>11. ServerStreams'
    <2>1. freed \subseteq 1 .. n
      BY ONLY <1>0, <1>2, <1>7
    <2>2. \A c \in Conns : c >= n => c >= sv.comm
      BY ONLY <1>0, <1>2
    <2> QED
      BY ONLY <1>0, <1>1, <1>4, <2>1, <2>2 DEF ServerStreams
  <1>12. Phase'
    <2>1. SUFFICES ASSUME cl'.conn # 0, cl'.conn \notin freed' PROVE Phase'
      BY DEF Phase
    <2>2. Lost \/ BetweenCalls \/ Unread \/ HeadNext \/ PathNext \/ Reading \/ Writing \/ Answered
      BY ONLY <1>0, <1>1, <2>1 DEF Phase
    <2>3. ~HeadNext /\ ~PathNext /\ ~Reading /\ ~Writing /\ ~Answered
      BY ONLY <1>1 DEF HeadNext, PathNext, Reading, Writing, Answered, Serving, Waits
    <2>4. Lost => Lost'
      BY ONLY <1>1 DEF Lost
    <2>5. Pending' = Pending /\ (NotRun => NotRun')
      BY ONLY <1>1 DEF Pending, NotRun
    <2>6. BetweenCalls => BetweenCalls'
      BY ONLY <1>1, <1>4, <2>5 DEF BetweenCalls, Waits
    <2>7. Unread => Unread'
      BY ONLY <1>1, <1>4, <2>5 DEF Unread, Waits
    <2> QED
      BY ONLY <2>2, <2>3, <2>4, <2>6, <2>7 DEF Phase
  <1>13. Answers'
    BY ONLY <1>0, <1>1, AnswersStay
  <1> QED
    BY <1>5, <1>6, <1>10, <1>11, <1>12, <1>13 DEF SessionInv, ServerConns

\* The server takes the first of what is pending.
LEMMA TakeNext ==
  ASSUME SessionInv, sv.comm = cl.conn, sv.comm \in Conns, up[sv.comm] # <<>>
  PROVE  /\ Pending \in Seq(Msgs) /\ Pending # <<>> /\ Next1 = Head(Pending)
         /\ up' = Taken /\ cl' = cl => /\ up' \in [Conns -> Seq(Msgs)] /\ Pending' = Tail(Pending)
                                       /\ \A c \in Conns : c # sv.comm => up'[c] = up[c]
  <1>1. PICK a \in Seq(Msgs), b \in Seq(Msgs) : a = up[cl.conn] /\ b = cl.out /\ a # <<>>
    <2>1. cl \in ClientRecords /\ up \in [Conns -> Seq(Msgs)] /\ cl.conn \in Conns
      BY Known
    <2>2. cl.out \in Seq(Msgs)
      BY ONLY <2>1 DEF ClientRecords
    <2>3. up[cl.conn] \in Seq(Msgs)
      BY ONLY <2>1
    <2>4. up[cl.conn] # <<>>
      OBVIOUS
    <2> QED
      BY ONLY <2>2, <2>3, <2>4
  <1>2. Pending = a \o b
    BY ONLY <1>1 DEF Pending
  <1>3. /\ Tail(a \o b) = Tail(a) \o b /\ Head(a \o b) = Head(a) /\ a \o b # <<>>
        /\ Tail(a) \in Seq(Msgs) /\ a \o b \in Seq(Msgs)
    <2>1. a \o b \in Seq(Msgs)
      BY ONLY a \in Seq(Msgs), b \in Seq(Msgs)
    <2>2. a # <<>>
      BY ONLY <1>1
    <2>3. /\ Tail(a \o b) = Tail(a) \o b /\ Head(a \o b) = Head(a) /\ a \o b # <<>>
          /\ Tail(a) \in Seq(Msgs)
      BY ONLY <2>2, a \in Seq(Msgs), b \in Seq(Msgs), TakesFirst
    <2> QED
      BY ONLY <2>1, <2>3
  <1>4. Next1 = Head(a)
    BY <1>1 DEF Next1
  <1>5. ASSUME up' = Taken, cl' = cl
        PROVE  /\ up' \in [Conns -> Seq(Msgs)] /\ Pending' = Tail(Pending)
               /\ \A c \in Conns : c # sv.comm => up'[c] = up[c]
    <2>1. PICK t \in Seq(Msgs) : t = Tail(a)
      BY ONLY <1>3
    <2>2. up' = [up EXCEPT ![cl.conn] = t] /\ up \in [Conns -> Seq(Msgs)] /\ cl.conn \in Conns
      BY <1>1, <1>5, <2>1, Known DEF Taken
    <2>3. up' \in [Conns -> Seq(Msgs)] /\ up'[cl.conn] = t /\ \A c \in Conns : c # cl.conn => up'[c] = up[c]
      BY ONLY <2>2, t \in Seq(Msgs)
    <2>4. Pending' = t \o b
      BY ONLY <1>1, <1>5, <2>3 DEF Pending
    <2> QED
      BY <1>2, <1>3, <2>1, <2>3, <2>4
  <1> QED
    BY ONLY <1>2, <1>3, <1>4, <1>5

\* It is what is left of an abandoned write, or the beginning of what follows.
LEMMA JunkFirst ==
  ASSUME NEW p \in Seq(Msgs), p # <<>>, NEW m \in Seq(Msgs), NEW faults, AfterJunk(p, m, faults)
  PROVE  p = m \/ (Head(p).k = "data" /\ "data_abandoned" \in faults /\ AfterJunk(Tail(p), m, faults))
  <1>1. PICK junk \in Seq(Msgs) : /\ p = junk \o m /\ \A i \in 1 .. Len(junk) : junk[i].k = "data"
                                  /\ junk # <<>> => "data_abandoned" \in faults
    BY DEF AfterJunk
  <1>2. CASE junk = <<>>
    BY ONLY <1>1, <1>2, m \in Seq(Msgs)
  <1>3. CASE junk # <<>>
    <2>1. /\ Tail(junk \o m) = Tail(junk) \o m /\ Head(junk \o m) = Head(junk)
          /\ Tail(junk) \in Seq(Msgs) /\ Head(junk) = junk[1]
      BY ONLY <1>3, junk \in Seq(Msgs), m \in Seq(Msgs), TakesFirst
    <2>2. Len(junk) \in Nat \ {0} /\ 1 \in 1 .. Len(junk)
      BY ONLY <1>3, junk \in Seq(Msgs)
    <2>3. Head(p).k = "data"
      BY ONLY <1>1, <2>1, <2>2
    <2>4. \A i \in 1 .. Len(Tail(junk)) : Tail(junk)[i].k = "data"
      <3>1. Len(Tail(junk)) = Len(junk) - 1 /\ \A i \in 1 .. (Len(junk) - 1) : Tail(junk)[i] = junk[i + 1]
        BY ONLY <1>3, junk \in Seq(Msgs)
      <3>2. \A i \in 1 .. (Len(junk) - 1) : i + 1 \in 1 .. Len(junk)
        BY ONLY <2>2
      <3> QED
        BY ONLY <1>1, <3>1, <3>2
    <2>5. AfterJunk(Tail(p), m, faults)
      <3>1. Tail(p) = Tail(junk) \o m /\ (Tail(junk) # <<>> => "data_abandoned" \in faults)
        BY ONLY <1>1, <1>3, <2>1
      <3> QED
        BY ONLY <2>1, <2>4, <3>1 DEF AfterJunk
    <2> QED
      BY ONLY <1>1, <1>3, <2>3, <2>5
  <1> QED
    BY ONLY <1>2, <1>3

\* Where the dispatcher finds something to read.
LEMMA DispatcherAt ==
  ASSUME SessionInv, sv.pc = "op", sv.comm \notin freed, up[sv.comm] # <<>>
  PROVE  /\ sv.comm = cl.conn /\ sv.comm # 0 /\ sv.comm \in Conns /\ (BetweenCalls \/ Unread \/ Answered)
         /\ sv.cont = 0 /\ sv.garbled = FALSE /\ sv.id <= cl.id
  <1>0. ServerPlaces /\ ServerStreams /\ Phase /\ sv.comm \in Nat /\ sv.comm <= made /\ made <= MaxRequests
        /\ Conns = 1 .. MaxRequests /\ MaxRequests \in Nat /\ made \in Nat
    BY Known
  <1>1. sv.comm # 0 /\ sv.cont = 0 /\ sv.garbled = FALSE /\ sv.id <= cl.id
    BY ONLY <1>0, sv.pc = "op" DEF ServerPlaces
  <1>2. sv.comm \in Conns
    BY ONLY <1>0, <1>1
  <1>3. sv.comm = cl.conn
    BY <1>0, <1>2 DEF ServerStreams
  <1>4. BetweenCalls \/ Unread \/ Answered
    <2>1. Lost \/ BetweenCalls \/ Unread \/ HeadNext \/ PathNext \/ Reading \/ Writing \/ Answered
      BY ONLY <1>0, <1>1, <1>3, sv.pc = "op", sv.comm \notin freed DEF Phase
    <2>2. ~Lost
      BY ONLY <1>3, up[sv.comm] # <<>> DEF Lost
    <2>3. ~HeadNext /\ ~PathNext /\ ~Reading /\ ~Writing
      BY ONLY sv.pc = "op" DEF HeadNext, PathNext, Reading, Writing, Serving
    <2> QED
      BY ONLY <2>1, <2>2, <2>3
  <1> QED
    BY ONLY <1>1, <1>2, <1>3, <1>4

\* xpn_server_comm_read_operation finds a code.
LEMMA ReadOperationKeeps == ASSUME SessionInv, ReadOperation PROVE SessionInv'
  <1>0. /\ ClientConns /\ ServerPlaces /\ ServerStreams /\ Phase /\ Answers /\ keep \in {0, 1} /\ made \in Nat
        /\ freed \subseteq 1 .. made /\ made <= MaxRequests /\ cl.conn \in Nat /\ cl.id \in 0 .. MaxRequests
        /\ sv.comm \in Nat /\ sv.comm <= made /\ MaxRequests \in Nat /\ Conns = 1 .. MaxRequests
        /\ cl.f \in ClientFunctions /\ cl.size \in 0 .. MaxSize
    <2>1. cl \in ClientRecords
      BY Known
    <2>2. cl.f \in ClientFunctions /\ cl.size \in 0 .. MaxSize /\ cl.id \in 0 .. MaxRequests
      BY ONLY <2>1 DEF ClientRecords
    <2> QED
      BY <2>2, Known
  <1>1. /\ UNCHANGED <<keep, made, down, hung, cl, ran, written, fault>>
        /\ sv.pc = "op" /\ sv.comm \notin freed /\ up[sv.comm] # <<>> /\ Next1.k = "op" /\ up' = Taken
    BY DEF ReadOperation
  <1>2. /\ sv.comm = cl.conn /\ sv.comm # 0 /\ sv.comm \in Conns /\ (BetweenCalls \/ Unread \/ Answered)
        /\ sv.cont = 0 /\ sv.garbled = FALSE /\ sv.id <= cl.id
    BY <1>1, DispatcherAt
  <1>3. /\ Pending \in Seq(Msgs) /\ Pending # <<>> /\ Next1 = Head(Pending)
        /\ up' \in [Conns -> Seq(Msgs)] /\ Pending' = Tail(Pending)
        /\ \A c \in Conns : c # sv.comm => up'[c] = up[c]
    BY <1>1, <1>2, TakeNext
  <1>4. \A m \in Seq(Msgs) : AfterJunk(Pending, m, fault) => Pending = m
    BY ONLY <1>1, <1>3, JunkFirst
  <1>5. ~Answered
    <2>1. <<>> \in Seq(Msgs)
      OBVIOUS
    <2> QED
      BY ONLY <1>3, <1>4, <2>1 DEF Answered
  <1>6. CASE BetweenCalls
    <2>1. PICK x \in Msgs : x = Item("op", "DISCONNECT", 0) /\ x.v = "DISCONNECT"
      <3>1. "op" \in Kinds /\ "DISCONNECT" \in Vals
        BY DEF Kinds, Vals, Codes
      <3> QED
        BY ONLY <3>1, ItemIsMsg
    <2>2. <<x>> \in Seq(Msgs) /\ <<>> \in Seq(Msgs) /\ Head(<<x>>) = x
      BY ONLY x \in Msgs
    <2>3. cl.pc = "ended" /\ Pending = <<x>> /\ keep = 1
      BY ONLY <1>3, <1>4, <1>6, <2>1, <2>2 DEF BetweenCalls
    <2>4. Next1.v = "DISCONNECT"
      BY ONLY <1>3, <2>1, <2>2, <2>3
    <2>5. freed' = freed \union {sv.comm} /\ sv' = [sv EXCEPT !.pc = "done"] /\ sv \in ServerRecords
      BY <2>4, Known DEF ReadOperation, AfterDisconnect
    <2>6. sv' \in ServerRecords /\ sv'.pc = "done" /\ sv'.comm = sv.comm /\ sv'.id = sv.id /\ sv'.cont = sv.cont /\ sv'.size = sv.size
      BY ONLY <2>5 DEF ServerRecords
    <2>7. sv'.pc = "done" /\ sv'.comm = sv.comm /\ sv'.id = sv.id /\ sv'.cont = sv.cont /\ sv'.size = sv.size
      BY <2>6
    <2>8. SessionType'
      <3>1. sv'.cont <= sv'.size /\ freed' \subseteq 1 .. made /\ fault' \subseteq Faults
        <4>1. sv.cont <= sv.size /\ fault \subseteq Faults
          BY Known DEF SessionType
        <4>2. sv.comm \in 1 .. made
          BY ONLY <1>0, <1>2
        <4> QED
          BY ONLY <1>0, <1>1, <2>5, <2>7, <4>1, <4>2
      <3>2. /\ down' \in [Conns -> Seq(Msgs)]
            /\ ran' \in [0 .. MaxRequests -> 0 .. 2] /\ written' \in [Calls -> 0 .. MaxSize]
        BY <1>1, Known DEF SessionType
      <3> QED
        BY <1>1, <1>3, <2>6, <3>1, <3>2, Known, ServerTyped
    <2>9. ClientConns'
      BY ONLY <1>0, <1>1, <2>5, ClientConnsStay
    <2>10. sv.comm \in freed'
      BY ONLY <2>5
    <2>11. ServerPlaces'
      BY ONLY <1>0, <1>1, <1>2, <2>3, <2>7, <2>10 DEF ServerPlaces, AtWork
    <2>12. ServerStreams'
      <3>1. freed' \subseteq 1 .. sv.comm
        <4>1. freed \subseteq 1 .. sv.comm /\ sv.comm \in 1 .. sv.comm
          BY ONLY <1>0, <1>1, <1>2 DEF ServerStreams
        <4> QED
          BY ONLY <2>5, <4>1
      <3>2. \A c \in Conns : c > made => c # sv.comm
        BY ONLY <1>0
      <3>3. \A c \in Conns : c # sv.comm => up'[c] = up[c]
        BY ONLY <1>3
      <3>4. \A c \in freed : c \in freed'
        BY ONLY <2>5
      <3> QED
        BY ONLY <1>0, <1>1, <1>2, <2>7, <3>1, <3>2, <3>3, <3>4 DEF ServerStreams
    <2>13. Phase'
      BY ONLY <1>1, <1>2, <2>10 DEF Phase
    <2>14. Answers'
      BY ONLY <1>0, <1>1, AnswersStay
    <2> QED
      BY <2>8, <2>9, <2>11, <2>12, <2>13, <2>14 DEF SessionInv, ServerConns
  <1>7. CASE Unread
    <2>1. PICK lens \in Paths(cl.f) : AfterJunk(Pending, Request(cl.f, lens, cl.size, cl.id), fault)
      BY ONLY <1>7 DEF Unread
    <2>2. PICK R : R = Request(cl.f, lens, cl.size, cl.id)
      OBVIOUS
    <2>3. /\ R \in Seq(Msgs) /\ Head(R).v = cl.f.op /\ Head(R).id = cl.id
      <3>1. PICK f \in ClientFunctions, z \in 0 .. MaxSize, i \in Nat : f = cl.f /\ z = cl.size /\ i = cl.id
        BY ONLY <1>0
      <3>2. lens \in Paths(f) /\ R = Request(f, lens, z, i)
        BY ONLY <2>2, <3>1, lens \in Paths(cl.f)
      <3>3. R \in Seq(Msgs) /\ Head(R).v = f.op /\ Head(R).id = i
        <4>1. IsRequest(R, f, lens, z, i)
          BY ONLY <3>2, f \in ClientFunctions, z \in 0 .. MaxSize, i \in Nat, RequestShape
        <4> QED
          BY ONLY <4>1 DEF IsRequest
      <3> QED
        BY ONLY <3>1, <3>3
    <2>4. Pending = R
      BY ONLY <1>4, <2>1, <2>2, <2>3
    <2>5. Next1.v = cl.f.op /\ Next1.id = cl.id /\ cl.f.op # "DISCONNECT" /\ cl.f.op \in DOMAIN Handler
      BY ONLY <1>0, <1>3, <2>3, <2>4, TablesAgree
    <2>6. PICK o, i : o = cl.f.op /\ i = cl.id
      OBVIOUS
    <2>7. sv' = [sv EXCEPT !.pc = "head", !.type_op = o, !.id = i] /\ sv \in ServerRecords /\ freed' = freed
      BY <2>5, <2>6, Known DEF ReadOperation
    <2>8. /\ sv' \in ServerRecords /\ sv'.pc = "head" /\ sv'.comm = sv.comm /\ sv'.type_op = o /\ sv'.id = i
          /\ sv'.cont = sv.cont /\ sv'.size = sv.size /\ sv'.garbled = sv.garbled
      BY ONLY <1>0, <2>5, <2>6, <2>7 DEF ServerRecords
    <2>9. /\ sv'.pc = "head" /\ sv'.comm = sv.comm /\ sv'.type_op = o /\ sv'.id = i
          /\ sv'.cont = 0 /\ sv'.size = sv.size /\ sv'.garbled = FALSE
      BY <1>2, <2>8
    <2>10. HeadNext'
      <3>1. Serving("head")'
        BY ONLY <1>1, <1>2, <1>7, <2>6, <2>9 DEF Serving, Unread
      <3>2. NotRun'
        BY ONLY <1>1, <1>7 DEF Unread, NotRun
      <3>3. Pending' = Tail(Request(cl'.f, lens, cl'.size, cl'.id)) /\ lens \in Paths(cl'.f)
        BY ONLY <1>1, <1>3, <2>2, <2>4, lens \in Paths(cl.f)
      <3> QED
        BY ONLY <2>9, <3>1, <3>2, <3>3 DEF HeadNext
    <2>11. Phase'
      BY ONLY <2>10 DEF Phase
    <2>12. Answers'
      BY ONLY <1>0, <1>1, AnswersStay
    <2>13. sv'.cont <= sv'.size /\ sv'.id <= cl.id /\ sv'.pc \in AtWork \union {"op", "astray", "done"} /\ sv.pc # "dead"
      <3>1. sv.cont <= sv.size
        BY Known DEF SessionType
      <3> QED
        BY ONLY <1>0, <1>1, <1>2, <2>6, <2>9, <3>1 DEF AtWork
    <2>14. /\ down' \in [Conns -> Seq(Msgs)] /\ (\A c \in Conns : c # sv.comm => down'[c] = down[c])
           /\ ran' \in [0 .. MaxRequests -> 0 .. 2] /\ written' \in [Calls -> 0 .. MaxSize]
      BY <1>1, Known DEF SessionType
    <2> QED
      BY <1>1, <1>2, <1>3, <2>7, <2>8, <2>9, <2>11, <2>12, <2>13, <2>14, HandlerStep
  <1> QED
    BY ONLY <1>2, <1>5, <1>6, <1>7

\* It finds what is left of an abandoned write.
LEMMA ReadOperationFindsDataKeeps == ASSUME SessionInv, ReadOperationFindsData PROVE SessionInv'
  <1>0. Answers /\ cl.id \in Nat /\ cl.f \in ClientFunctions /\ cl.size \in 0 .. MaxSize
    <2>1. cl \in ClientRecords
      BY Known
    <2>2. cl.f \in ClientFunctions /\ cl.size \in 0 .. MaxSize
      BY ONLY <2>1 DEF ClientRecords
    <2> QED
      BY <2>2, Known
  <1>1. /\ UNCHANGED <<keep, made, down, hung, freed, cl, ran, written, fault>>
        /\ sv.pc = "op" /\ sv.comm \notin freed /\ up[sv.comm] # <<>> /\ Next1.k = "data" /\ up' = Taken
    BY DEF ReadOperationFindsData
  <1>2. /\ sv.comm = cl.conn /\ sv.comm # 0 /\ sv.comm \in Conns /\ (BetweenCalls \/ Unread \/ Answered)
        /\ sv.cont = 0 /\ sv.garbled = FALSE /\ sv.id <= cl.id
    BY <1>1, DispatcherAt
  <1>3. /\ Pending \in Seq(Msgs) /\ Pending # <<>> /\ Next1 = Head(Pending)
        /\ up' \in [Conns -> Seq(Msgs)] /\ Pending' = Tail(Pending)
        /\ \A c \in Conns : c # sv.comm => up'[c] = up[c]
    BY <1>1, <1>2, TakeNext
  <1>4. ASSUME NEW m \in Seq(Msgs), m = <<>> \/ Head(m).k = "op", AfterJunk(Pending, m, fault)
        PROVE  AfterJunk(Pending', m, fault')
    <2>1. Pending # m
      BY ONLY <1>1, <1>3, <1>4
    <2>2. AfterJunk(Tail(Pending), m, fault)
      BY ONLY <1>3, <1>4, <2>1, JunkFirst
    <2> QED
      BY ONLY <1>1, <1>3, <2>2
  <1>5. PICK p \in {"op", "astray"} : sv' = [sv EXCEPT !.pc = p]
    BY DEF ReadOperationFindsData
  <1>6. /\ sv' \in ServerRecords /\ sv'.pc = p /\ sv'.comm = sv.comm /\ sv'.type_op = sv.type_op /\ sv'.id = sv.id
        /\ sv'.cont = sv.cont /\ sv'.size = sv.size /\ sv'.garbled = sv.garbled
    <2>1. sv \in ServerRecords
      BY Known
    <2> QED
      BY ONLY <1>5, <2>1, p \in {"op", "astray"} DEF ServerRecords
  <1>7. /\ sv'.pc \in {"op", "astray"} /\ sv'.comm = sv.comm /\ sv'.type_op = sv.type_op /\ sv'.id = sv.id
        /\ sv'.cont = 0 /\ sv'.size = sv.size /\ sv'.garbled = FALSE
    BY <1>2, <1>6
  <1>8. Phase'
    <2>1. <<>> \in Seq(Msgs)
      OBVIOUS
    <2>2. CASE BetweenCalls
      <3>1. PICK x \in Msgs : x = Item("op", "DISCONNECT", 0) /\ x.k = "op"
        <4>1. "op" \in Kinds /\ "DISCONNECT" \in Vals
          BY DEF Kinds, Vals, Codes
        <4> QED
          BY ONLY <4>1, ItemIsMsg
      <3>2. <<x>> \in Seq(Msgs) /\ Head(<<x>>) = x
        BY ONLY x \in Msgs
      <3>3. PICK m \in Seq(Msgs) : /\ m = (IF cl.pc = "ended" THEN <<Item("op", "DISCONNECT", 0)>> ELSE <<>>)
                                   /\ m = <<>> \/ Head(m).k = "op"
        BY ONLY <2>1, <3>1, <3>2
      <3>4. AfterJunk(Pending, m, fault)
        BY ONLY <2>2, <3>3 DEF BetweenCalls
      <3>5. AfterJunk(Pending', m, fault')
        BY ONLY <1>4, <3>3, <3>4
      <3>6. BetweenCalls'
        BY ONLY <1>1, <1>7, <2>2, <3>3, <3>5 DEF BetweenCalls, Waits
      <3> QED
        BY ONLY <3>6 DEF Phase
    <2>3. CASE Answered
      <3>1. AfterJunk(Pending', <<>>, fault')
        BY ONLY <1>4, <2>1, <2>3 DEF Answered
      <3>2. Answered'
        BY ONLY <1>1, <1>7, <2>3, <3>1 DEF Answered, Waits
      <3> QED
        BY ONLY <3>2 DEF Phase
    <2>4. CASE Unread
      <3>1. PICK lens \in Paths(cl.f) : AfterJunk(Pending, Request(cl.f, lens, cl.size, cl.id), fault)
        BY ONLY <2>4 DEF Unread
      <3>2. PICK R : R = Request(cl.f, lens, cl.size, cl.id)
        OBVIOUS
      <3>3. IsRequest(R, cl.f, lens, cl.size, cl.id)
        BY ONLY <1>0, <3>2, lens \in Paths(cl.f), RequestShape
      <3>4. R \in Seq(Msgs) /\ Head(R).k = "op"
        BY ONLY <3>3 DEF IsRequest
      <3>5. AfterJunk(Pending', R, fault')
        BY ONLY <1>4, <3>1, <3>2, <3>4
      <3>6. NotRun'
        BY ONLY <1>1, <2>4 DEF Unread, NotRun
      <3>7. lens \in Paths(cl'.f) /\ AfterJunk(Pending', Request(cl'.f, lens, cl'.size, cl'.id), fault')
        BY ONLY <1>1, <3>2, <3>5, lens \in Paths(cl.f)
      <3>8. Unread'
        BY ONLY <1>1, <1>7, <2>4, <3>6, <3>7 DEF Unread, Waits
      <3> QED
        BY ONLY <3>8 DEF Phase
    <2> QED
      BY ONLY <1>2, <2>2, <2>3, <2>4
  <1>9. Answers'
    BY ONLY <1>0, <1>1, AnswersStay
  <1>10. sv'.cont <= sv'.size /\ sv'.id <= cl.id /\ sv'.pc \in AtWork \union {"op", "astray", "done"} /\ sv.pc # "dead"
    <2>1. sv.cont <= sv.size
      BY Known DEF SessionType
    <2> QED
      BY ONLY <1>1, <1>2, <1>7, <2>1
  <1>11. /\ down' \in [Conns -> Seq(Msgs)] /\ (\A c \in Conns : c # sv.comm => down'[c] = down[c])
         /\ ran' \in [0 .. MaxRequests -> 0 .. 2] /\ written' \in [Calls -> 0 .. MaxSize]
    BY <1>1, Known DEF SessionType
  <1> QED
    BY <1>1, <1>2, <1>3, <1>6, <1>7, <1>8, <1>9, <1>10, <1>11, HandlerStep

\* The server's process ends.
LEMMA ServerDiesKeeps == ASSUME SessionInv, ServerDies PROVE SessionInv'
  <1>0. /\ ClientConns /\ ServerPlaces /\ ServerStreams /\ Phase /\ Answers /\ made \in Nat /\ freed \subseteq 1 .. made
        /\ cl.conn \in Nat /\ cl.conn <= made
    BY Known
  <1>1. /\ UNCHANGED <<keep, made, up, down, hung, cl, ran, written, fault>> /\ freed' = freed \union 1 .. made
        /\ cl.pc \in {"idle", "sending"} /\ made > 0
    BY DEF ServerDies
  <1>2. /\ sv' \in ServerRecords /\ sv'.pc = "dead" /\ sv'.comm = sv.comm /\ sv'.id = sv.id
        /\ sv'.cont = sv.cont /\ sv'.size = sv.size
    <2>1. sv \in ServerRecords /\ sv' = [sv EXCEPT !.pc = "dead"]
      BY Known DEF ServerDies
    <2> QED
      BY ONLY <2>1 DEF ServerRecords
  <1>3. sv'.pc = "dead" /\ sv'.comm = sv.comm /\ sv'.id = sv.id
    BY <1>2
  <1>4. SessionType'
    <2>1. sv'.cont <= sv'.size /\ freed' \subseteq 1 .. made /\ fault' \subseteq Faults
      BY <1>0, <1>1, <1>2, Known DEF SessionType
    <2>2. /\ up' \in [Conns -> Seq(Msgs)] /\ down' \in [Conns -> Seq(Msgs)]
          /\ ran' \in [0 .. MaxRequests -> 0 .. 2] /\ written' \in [Calls -> 0 .. MaxSize]
      BY <1>1, Known DEF SessionType
    <2> QED
      BY <1>1, <1>2, <2>1, <2>2, Known, ServerTyped
  <1>5. ClientConns'
    BY ONLY <1>0, <1>1, ClientConnsStay
  <1>6. ServerPlaces'
    BY ONLY <1>0, <1>1, <1>3 DEF ServerPlaces, AtWork
  <1>7. ServerStreams'
    BY ONLY <1>0, <1>1, <1>3 DEF ServerStreams
  <1>8. Phase'
    BY ONLY <1>3 DEF Phase
  <1>9. Answers'
    BY ONLY <1>0, <1>1, AnswersStay
  <1> QED
    BY <1>4, <1>5, <1>6, <1>7, <1>8, <1>9 DEF SessionInv, ServerConns

\* The dispatcher goes on with a comm that was freed: the client has died.
LEMMA ReadOperationAfterFreeKeeps == ASSUME SessionInv, ReadOperationAfterFree PROVE SessionInv'
  <1>0. /\ ClientConns /\ ServerPlaces /\ ServerStreams /\ Phase /\ Answers /\ made \in Nat /\ freed \subseteq 1 .. made
        /\ keep \in {0, 1}
    BY Known
  <1>1. /\ UNCHANGED <<keep, made, up, down, hung, freed, cl, ran, written>> /\ sv.pc = "op" /\ sv.comm \in freed
        /\ fault' = fault \union {"comm_used_after_free"}
    BY DEF ReadOperationAfterFree
  <1>2. /\ sv' \in ServerRecords /\ sv'.pc = "done" /\ sv'.comm = sv.comm /\ sv'.id = sv.id
        /\ sv'.cont = sv.cont /\ sv'.size = sv.size
    <2>1. sv \in ServerRecords /\ sv' = [sv EXCEPT !.pc = "done"]
      BY Known DEF ReadOperationAfterFree
    <2> QED
      BY ONLY <2>1 DEF ServerRecords
  <1>3. sv'.pc = "done" /\ sv'.comm = sv.comm /\ sv'.id = sv.id
    BY <1>2
  <1>4. "client_died" \in fault /\ sv.comm = cl.conn /\ keep = 1
    BY ONLY <1>0, <1>1 DEF ServerPlaces
  <1>5. /\ "client_died" \in fault' /\ cl.pc = "dead"
        /\ fault' \subseteq Faults
    <2>1. fault \subseteq Faults /\ "comm_used_after_free" \in Faults
      BY Known DEF SessionType, Faults
    <2>2. cl.pc = "dead"
      BY ONLY <1>0, <1>4 DEF ClientConns
    <2> QED
      BY ONLY <1>1, <1>4, <2>1, <2>2
  <1>6. SessionType'
    <2>1. sv'.cont <= sv'.size /\ freed' \subseteq 1 .. made
      BY <1>0, <1>1, <1>2, Known DEF SessionType
    <2>2. /\ up' \in [Conns -> Seq(Msgs)] /\ down' \in [Conns -> Seq(Msgs)]
          /\ ran' \in [0 .. MaxRequests -> 0 .. 2] /\ written' \in [Calls -> 0 .. MaxSize]
      BY <1>1, Known DEF SessionType
    <2> QED
      BY <1>1, <1>2, <1>5, <2>1, <2>2, Known, ServerTyped
  <1>7. ClientConns'
    <2>1. freed \subseteq freed'
      BY ONLY <1>1
    <2> QED
      BY ONLY <1>0, <1>1, <1>4, <1>5, <2>1, ClientConnsStay
  <1>8. ServerPlaces'
    BY ONLY <1>0, <1>1, <1>3, <1>4, <1>5 DEF ServerPlaces, AtWork
  <1>9. ServerStreams'
    BY ONLY <1>0, <1>1, <1>3 DEF ServerStreams
  <1>10. Phase'
    BY ONLY <1>1, <1>4 DEF Phase
  <1>11. Answers'
    BY ONLY <1>0, <1>1, <1>5 DEF Answers, WriteOkMeansWritten
  <1> QED
    BY <1>6, <1>7, <1>8, <1>9, <1>10, <1>11 DEF SessionInv, ServerConns

\* The dispatcher finds the end of the stream.
LEMMA ReadOperationFindsEofKeeps == ASSUME SessionInv, ReadOperationFindsEof PROVE SessionInv'
  <1>0. /\ ClientConns /\ ServerPlaces /\ ServerStreams /\ Phase /\ Answers /\ made \in Nat /\ freed \subseteq 1 .. made
        /\ keep \in {0, 1} /\ sv.comm \in Nat /\ sv.comm <= made /\ cl.conn \in Nat
        /\ MaxRequests \in Nat /\ Conns = 1 .. MaxRequests /\ made <= MaxRequests
    BY Known
  <1>1. /\ UNCHANGED <<keep, made, up, down, hung, cl, ran, written, fault>> /\ sv.pc = "op" /\ sv.comm \notin freed
        /\ Eof
    BY DEF ReadOperationFindsEof
  <1>2. sv.comm # 0 /\ sv.cont = 0 /\ sv.garbled = FALSE /\ sv.id <= cl.id /\ sv.comm \in 1 .. made
    <2>1. sv.comm # 0 /\ sv.cont = 0 /\ sv.garbled = FALSE /\ sv.id <= cl.id
      BY ONLY <1>0, <1>1 DEF ServerPlaces
    <2> QED
      BY ONLY <1>0, <2>1
  <1>3. Answers'
    BY ONLY <1>0, <1>1, AnswersStay
  <1>4. /\ up' \in [Conns -> Seq(Msgs)] /\ down' \in [Conns -> Seq(Msgs)] /\ fault' \subseteq Faults
        /\ ran' \in [0 .. MaxRequests -> 0 .. 2] /\ written' \in [Calls -> 0 .. MaxSize] /\ sv.cont <= sv.size
        /\ sv \in ServerRecords
    BY <1>1, Known DEF SessionType
  <1>5. sv.comm = cl.conn => Lost
    BY <1>1, EofIsLost
  <1>6. CASE keep = 0 /\ freed' = freed \union {sv.comm} /\ sv' = [sv EXCEPT !.pc = "accept"]
    <2>0. keep = 0 /\ freed' = freed \union {sv.comm}
      BY <1>6
    <2>1. /\ sv' \in ServerRecords /\ sv'.pc = "accept" /\ sv'.comm = sv.comm /\ sv'.id = sv.id /\ sv'.garbled = sv.garbled
          /\ sv'.cont = sv.cont /\ sv'.size = sv.size
      BY ONLY <1>4, <1>6 DEF ServerRecords
    <2>2. /\ sv'.pc = "accept" /\ sv'.comm = sv.comm /\ sv'.id = sv.id /\ sv'.cont = 0 /\ sv'.garbled = FALSE
      BY <1>2, <2>1
    <2>3. SessionType'
      <3>1. sv'.cont <= sv'.size /\ freed' \subseteq 1 .. made
        BY <1>0, <1>2, <1>4, <2>0, <2>1
      <3> QED
        BY <1>1, <1>4, <2>1, <3>1, Known, ServerTyped
    <2>4. ClientConns'
      BY ONLY <1>0, <1>1, <2>0, ClientConnsStay
    <2>5. sv.comm \in freed' /\ (cl.conn \in freed' => cl.conn = sv.comm)
      <3>1. cl.conn \notin freed
        BY ONLY <1>0, <1>1, <2>0 DEF ServerPlaces
      <3> QED
        BY ONLY <2>0, <3>1
    <2>6. ServerPlaces'
      BY ONLY <1>0, <1>1, <1>2, <2>0, <2>2, <2>5 DEF ServerPlaces, AtWork
    <2>7. ServerStreams'
      <3>1. freed' \subseteq 1 .. sv.comm
        <4>1. freed \subseteq 1 .. sv.comm /\ sv.comm \in 1 .. sv.comm
          BY ONLY <1>0, <1>1, <1>2 DEF ServerStreams
        <4> QED
          BY ONLY <2>0, <4>1
      <3>2. \A c \in freed : c \in freed'
        BY ONLY <2>0
      <3> QED
        BY ONLY <1>0, <1>1, <2>2, <3>1, <3>2 DEF ServerStreams
    <2>8. Phase'
      <3>1. SUFFICES ASSUME cl'.conn # 0, cl'.conn \notin freed' PROVE Phase'
        BY DEF Phase
      <3>2. cl.conn # 0 /\ cl.conn \notin freed /\ cl.conn # sv.comm
        BY ONLY <1>1, <2>0, <3>1
      <3>3. Lost \/ BetweenCalls \/ Unread \/ HeadNext \/ PathNext \/ Reading \/ Writing \/ Answered
        BY ONLY <1>0, <1>1, <3>2 DEF Phase
      <3>4. ~HeadNext /\ ~PathNext /\ ~Reading /\ ~Writing /\ ~Answered /\ ~BetweenCalls
        BY ONLY <3>2, <2>0 DEF HeadNext, PathNext, Reading, Writing, Answered, Serving, BetweenCalls
      <3>5. Lost => Lost'
        BY ONLY <1>1 DEF Lost
      <3>6. sv.comm < cl.conn
        <4>1. cl.conn = made
          BY ONLY <1>0, <2>0, <3>2 DEF ClientConns
        <4> QED
          BY ONLY <1>0, <3>2, <4>1
      <3>7. Pending' = Pending /\ (NotRun => NotRun')
        BY ONLY <1>1 DEF Pending, NotRun
      <3>8. Unread => Unread'
        BY ONLY <1>1, <2>2, <3>6, <3>7 DEF Unread
      <3> QED
        BY ONLY <3>3, <3>4, <3>5, <3>8 DEF Phase
    <2> QED
      BY <1>3, <2>3, <2>4, <2>6, <2>7, <2>8 DEF SessionInv, ServerConns
  <1>7. ASSUME keep = 1, NEW p \in {"done", "head"}, sv' = [sv EXCEPT !.pc = p], freed' = freed PROVE SessionInv'
    <2>1. /\ sv' \in ServerRecords /\ sv'.pc = p /\ sv'.comm = sv.comm /\ sv'.id = sv.id /\ sv'.garbled = sv.garbled
          /\ sv'.cont = sv.cont /\ sv'.size = sv.size
      BY ONLY <1>4, <1>7, p \in {"done", "head"} DEF ServerRecords
    <2>2. sv.comm = cl.conn
      BY ONLY <1>0, <1>1, <1>7 DEF ServerPlaces
    <2>3. Lost'
      BY ONLY <1>1, <1>5, <2>2 DEF Lost
    <2>4. Phase'
      BY ONLY <2>3 DEF Phase
    <2>5. /\ sv'.cont <= sv'.size /\ sv'.id <= cl.id /\ sv'.pc \in AtWork \union {"op", "astray", "done"} /\ sv.pc # "dead"
          /\ sv'.pc \in {"op", "head", "path"} => sv'.cont = 0
          /\ sv'.pc = "op" => sv'.garbled = FALSE
      BY <1>1, <1>2, <1>4, <2>1 DEF AtWork
    <2>6. /\ \A c \in Conns : c # sv.comm => up'[c] = up[c] /\ down'[c] = down[c]
      BY <1>1
    <2> QED
      BY <1>1, <1>2, <1>3, <1>4, <1>7, <2>1, <2>2, <2>4, <2>5, <2>6, HandlerStep
  <1> QED
    BY <1>0, <1>6, <1>7 DEF ReadOperationFindsEof, EofSeen

\* A step of a handler that answers nothing yet.
LEMMA QuietStep ==
  ASSUME SessionInv, sv.pc \in AtWork, UNCHANGED <<keep, made, down, hung, freed, cl, ran, written, fault>>,
         sv' \in ServerRecords, sv'.cont <= sv'.size, sv'.comm = sv.comm, sv'.id = sv.id, sv'.pc \in AtWork,
         sv'.pc \in {"head", "path"} => sv'.cont = 0,
         up' \in [Conns -> Seq(Msgs)], \A c \in Conns : c # sv.comm => up'[c] = up[c], Phase'
  PROVE  SessionInv'
  <1>1. UNCHANGED <<keep, made, down, hung, freed, cl, ran, written, fault>>
    OBVIOUS
  <1>2. /\ sv.comm = cl.conn /\ sv.comm # 0 /\ sv.comm \notin freed /\ sv.pc # "dead" /\ sv.id <= cl.id
    BY HandlerAt
  <1>3. Answers'
    BY ONLY <1>1, SessionInv, Known, AnswersStay
  <1>4. /\ down' \in [Conns -> Seq(Msgs)] /\ ran' \in [0 .. MaxRequests -> 0 .. 2] /\ written' \in [Calls -> 0 .. MaxSize]
        /\ \A c \in Conns : c # sv.comm => down'[c] = down[c]
    BY <1>1, Known DEF SessionType
  <1>5. /\ sv'.pc \in AtWork \union {"op", "astray", "done"} /\ sv'.id <= cl.id
        /\ sv'.pc \in {"op", "head", "path"} => sv'.cont = 0
        /\ sv'.pc = "op" => sv'.garbled = FALSE
    BY <1>2 DEF AtWork
  <1> QED
    BY <1>1, <1>2, <1>3, <1>4, <1>5, HandlerStep

\* What is there of a dead client's stream has been read.
LEMMA LostStays ==
  ASSUME Lost, UNCHANGED <<cl, hung>>, fault \subseteq fault', up'[cl.conn] = <<>> PROVE Lost'
  BY DEF Lost

\* The head of a request.
LEMMA ReadHeadKeeps == ASSUME SessionInv, ReadHead PROVE SessionInv'
  <1>1. UNCHANGED <<keep, made, down, hung, freed, cl, ran, written, fault>> /\ sv.pc = "head"
    BY DEF ReadHead
  <1>2. sv.pc \in AtWork
    BY ONLY <1>1 DEF AtWork
  <1>3. /\ sv.comm = cl.conn /\ sv.comm # 0 /\ sv.comm \in Conns /\ sv.comm \notin freed
        /\ Lost \/ HeadNext
    BY <1>1, <1>2, HandlerAt
  <1>4. sv \in ServerRecords /\ sv.cont = 0
    <2>1. sv \in ServerRecords /\ ServerPlaces
      BY Known
    <2>2. sv.cont = 0
      BY ONLY <1>1, <2>1 DEF ServerPlaces
    <2> QED
      BY ONLY <2>1, <2>2
  <1>5. cl.f \in ClientFunctions /\ cl.size \in 0 .. MaxSize /\ cl.id \in Nat
    <2>1. cl \in ClientRecords /\ cl.id \in Nat
      BY Known
    <2>2. cl.f \in ClientFunctions /\ cl.size \in 0 .. MaxSize
      BY ONLY <2>1 DEF ClientRecords
    <2> QED
      BY ONLY <2>1, <2>2
  <1>6. CASE /\ up[sv.comm] # <<>> /\ Next1.k = "head" /\ up' = Taken
             /\ sv' = [sv EXCEPT !.pc = "path", !.size = Next1.v.size, !.need = Wanted(sv.type_op, Next1.v.lens)]
    <2>1. /\ Pending \in Seq(Msgs) /\ Pending # <<>> /\ Next1 = Head(Pending)
          /\ up' \in [Conns -> Seq(Msgs)] /\ Pending' = Tail(Pending)
          /\ \A c \in Conns : c # sv.comm => up'[c] = up[c]
      <3>1. up[sv.comm] # <<>> /\ up' = Taken /\ cl' = cl
        BY ONLY <1>1, <1>6
      <3> QED
        BY ONLY SessionInv, <1>3, <3>1, TakeNext
    <2>2. HeadNext
      <3>1. up[cl.conn] # <<>>
        BY ONLY <1>3, <1>6
      <3>2. ~Lost
        BY ONLY <3>1 DEF Lost
      <3> QED
        BY ONLY <1>3, <3>2
    <2>3. PICK f \in ClientFunctions, z \in 0 .. MaxSize, i \in Nat : f = cl.f /\ z = cl.size /\ i = cl.id
      BY ONLY <1>5
    <2>4. PICK lens \in Paths(f) : Pending = Tail(Request(f, lens, z, i))
      BY ONLY <2>2, <2>3 DEF HeadNext
    <2>5. PICK R : R = Request(f, lens, z, i)
      OBVIOUS
    <2>6. IsRequest(R, f, lens, z, i)
      BY ONLY <2>5, f \in ClientFunctions, z \in 0 .. MaxSize, i \in Nat, lens \in Paths(f), RequestShape
    <2>7. /\ Next1.v.size = z /\ Next1.v.lens = lens
          /\ Pending' = SentTails(lens, i) \o DataOf(f, z, i)
      BY ONLY <2>1, <2>4, <2>5, <2>6 DEF IsRequest
    <2>8. sv.type_op = f.op
      BY ONLY <2>2, <2>3 DEF HeadNext, Serving
    <2>9. PICK need : need = Wanted(f.op, lens)
      OBVIOUS
    <2>10. need \in Seq(Nat) /\ SentTails(lens, i) = TailItems(need, i)
      BY ONLY <2>9, f \in ClientFunctions, lens \in Paths(f), i \in Nat, TailsAgree DEF TailItems
    <2>11. sv' = [sv EXCEPT !.pc = "path", !.size = z, !.need = need]
      BY ONLY <1>6, <2>7, <2>8, <2>9
    <2>12. /\ sv' \in ServerRecords /\ sv'.pc = "path" /\ sv'.comm = sv.comm /\ sv'.type_op = sv.type_op
           /\ sv'.id = sv.id /\ sv'.need = need /\ sv'.size = z /\ sv'.cont = sv.cont /\ sv'.garbled = sv.garbled
      BY ONLY <1>4, <2>10, <2>11, z \in 0 .. MaxSize DEF ServerRecords
    <2>13. /\ sv'.pc = "path" /\ sv'.comm = sv.comm /\ sv'.type_op = sv.type_op
           /\ sv'.id = sv.id /\ sv'.need = need /\ sv'.size = z /\ sv'.cont = 0 /\ sv'.garbled = sv.garbled
      BY ONLY <1>4, <2>12
    <2>14. PathNext'
      <3>1. Serving("path")'
        BY ONLY <1>1, <2>2, <2>13 DEF HeadNext, Serving
      <3>2. NotRun'
        BY ONLY <1>1, <2>2 DEF HeadNext, NotRun
      <3>3. Pending' = TailItems(sv'.need, cl'.id) \o DataOf(cl'.f, cl'.size, cl'.id)
        BY ONLY <1>1, <2>3, <2>7, <2>10, <2>13
      <3> QED
        BY ONLY <1>1, <2>3, <2>13, <3>1, <3>2, <3>3 DEF PathNext
    <2>15. Phase'
      BY ONLY <2>14 DEF Phase
    <2>16. sv'.cont <= sv'.size /\ sv'.pc \in AtWork
      BY ONLY <2>13, z \in 0 .. MaxSize DEF AtWork
    <2> QED
      BY <1>1, <1>2, <2>1, <2>12, <2>13, <2>15, <2>16, QuietStep
  <1>7. CASE Eof /\ up' = up /\ \E size \in 0 .. MaxSize : sv' = [sv EXCEPT !.pc = "path", !.size = size, !.garbled = TRUE]
    <2>1. PICK z \in 0 .. MaxSize : sv' = [sv EXCEPT !.pc = "path", !.size = z, !.garbled = TRUE]
      BY <1>7
    <2>2. /\ sv' \in ServerRecords /\ sv'.pc = "path" /\ sv'.comm = sv.comm /\ sv'.id = sv.id
          /\ sv'.size = z /\ sv'.cont = sv.cont
      BY ONLY <1>4, <2>1 DEF ServerRecords
    <2>3. Lost
      <3>1. sv.pc \notin {"dead", "accept"}
        BY ONLY <1>1
      <3> QED
        BY ONLY SessionInv, <1>3, <1>7, <3>1, EofIsLost
    <2>4. Lost'
      BY ONLY <1>1, <1>7, <2>3 DEF Lost
    <2>5. Phase'
      BY ONLY <2>4 DEF Phase
    <2>6. sv'.cont <= sv'.size /\ sv'.cont = 0 /\ sv'.pc \in AtWork
      BY ONLY <1>4, <2>2, z \in 0 .. MaxSize DEF AtWork
    <2>7. up' \in [Conns -> Seq(Msgs)] /\ \A c \in Conns : c # sv.comm => up'[c] = up[c]
      BY <1>7, Known
    <2> QED
      BY <1>1, <1>2, <2>2, <2>5, <2>6, <2>7, QuietStep
  <1> QED
    BY <1>6, <1>7 DEF ReadHead

\* The rest of a long path.
LEMMA ReadTailKeeps == ASSUME SessionInv, ReadTail PROVE SessionInv'
  <1>1. UNCHANGED <<keep, made, down, hung, freed, cl, ran, written, fault>> /\ sv.pc = "path" /\ sv.need # <<>>
    BY DEF ReadTail
  <1>2. sv.pc \in AtWork
    BY ONLY <1>1 DEF AtWork
  <1>3. /\ sv.comm = cl.conn /\ sv.comm # 0 /\ sv.comm \in Conns /\ sv.comm \notin freed
        /\ Lost \/ PathNext
    BY <1>1, <1>2, HandlerAt
  <1>4. sv \in ServerRecords /\ sv.cont = 0 /\ sv.cont <= sv.size /\ sv.need \in Seq(Nat)
    <2>1. sv \in ServerRecords /\ ServerPlaces /\ sv.cont <= sv.size
      BY Known DEF SessionType
    <2>2. sv.cont = 0
      BY ONLY <1>1, <2>1 DEF ServerPlaces
    <2>3. sv.need \in Seq(Nat)
      BY ONLY <2>1 DEF ServerRecords
    <2> QED
      BY ONLY <2>1, <2>2, <2>3
  <1>5. cl.f \in ClientFunctions /\ cl.size \in 0 .. MaxSize /\ cl.id \in Nat
    <2>1. cl \in ClientRecords /\ cl.id \in Nat
      BY Known
    <2>2. cl.f \in ClientFunctions /\ cl.size \in 0 .. MaxSize
      BY ONLY <2>1 DEF ClientRecords
    <2> QED
      BY ONLY <2>1, <2>2
  <1>6. PICK n \in Seq(Nat) : n = Tail(sv.need)
    <2>1. PICK q \in Seq(Nat) : q = sv.need /\ q # <<>>
      BY ONLY <1>1, <1>4
    <2>2. Tail(q) \in Seq(Nat)
      BY ONLY <2>1, q \in Seq(Nat)
    <2> QED
      BY ONLY <2>1, <2>2
  <1>7. ASSUME NEW g \in BOOLEAN, sv' = [sv EXCEPT !.need = n, !.garbled = g]
        PROVE  /\ sv' \in ServerRecords /\ sv'.pc = "path" /\ sv'.comm = sv.comm /\ sv'.type_op = sv.type_op
               /\ sv'.id = sv.id /\ sv'.need = n /\ sv'.size = sv.size /\ sv'.cont = 0 /\ sv'.garbled = g
    BY ONLY <1>1, <1>4, <1>7, n \in Seq(Nat) DEF ServerRecords
  <1>8. CASE /\ up[sv.comm] # <<>> /\ Next1.k = "tail" /\ Next1.v = Head(sv.need) /\ up' = Taken
             /\ sv' = [sv EXCEPT !.need = Tail(@)]
    <2>1. /\ Pending \in Seq(Msgs) /\ Pending # <<>> /\ Next1 = Head(Pending)
          /\ up' \in [Conns -> Seq(Msgs)] /\ Pending' = Tail(Pending)
          /\ \A c \in Conns : c # sv.comm => up'[c] = up[c]
      <3>1. up[sv.comm] # <<>> /\ up' = Taken /\ cl' = cl
        BY ONLY <1>1, <1>8
      <3> QED
        BY ONLY SessionInv, <1>3, <3>1, TakeNext
    <2>2. PathNext
      <3>1. up[cl.conn] # <<>>
        BY ONLY <1>3, <1>8
      <3>2. ~Lost
        BY ONLY <3>1 DEF Lost
      <3> QED
        BY ONLY <1>3, <3>2
    <2>3. /\ sv' \in ServerRecords /\ sv'.pc = "path" /\ sv'.comm = sv.comm /\ sv'.type_op = sv.type_op
          /\ sv'.id = sv.id /\ sv'.need = n /\ sv'.size = sv.size /\ sv'.cont = 0 /\ sv'.garbled = FALSE
      <3>1. sv.garbled = FALSE
        BY ONLY <2>2 DEF PathNext, Serving
      <3>2. sv' = [sv EXCEPT !.need = n, !.garbled = FALSE]
        BY ONLY <1>4, <1>6, <1>8, <3>1 DEF ServerRecords
      <3> QED
        BY ONLY <1>7, <3>2
    <2>4. PICK need \in Seq(Nat), i \in Nat : need = sv.need /\ i = cl.id
      BY ONLY <1>4, <1>5
    <2>5. PICK t, u : t = TailItems(need, i) /\ u = TailItems(n, i)
      OBVIOUS
    <2>6. t \in Seq(Msgs) /\ u \in Seq(Msgs) /\ t # <<>> /\ Tail(t) = u
      <3>1. need # <<>> /\ n = Tail(need)
        BY ONLY <1>1, <1>6, <2>4
      <3>2. PICK e : e = TailItems(Tail(need), i)
        OBVIOUS
      <3>3. t \in Seq(Msgs) /\ e \in Seq(Msgs) /\ t # <<>> /\ Tail(t) = e
        <4>1. need # <<>>
          BY ONLY <3>1
        <4>2. t = TailItems(need, i)
          BY ONLY <2>5
        <4>3. FirstTail(t, e, need, i)
          BY ONLY <4>1, <4>2, <3>2, need \in Seq(Nat), i \in Nat, NextTail
        <4> QED
          BY ONLY <4>3 DEF FirstTail
      <3> QED
        BY ONLY <2>5, <3>1, <3>2, <3>3
    <2>7. PICK D \in Seq(Msgs) : D = DataOf(cl.f, cl.size, cl.id)
      <3>1. SentData(cl.size, cl.id) \in Seq(Msgs)
        BY ONLY <1>5, DataItems
      <3>2. <<>> \in Seq(Msgs)
        OBVIOUS
      <3> QED
        BY ONLY <3>1, <3>2 DEF DataOf
    <2>8. Pending = t \o D
      BY ONLY <2>2, <2>4, <2>5, <2>7 DEF PathNext
    <2>9. Tail(t \o D) = u \o D
      <3>1. Tail(t \o D) = Tail(t) \o D
        BY ONLY <2>6, D \in Seq(Msgs), TakesFirst
      <3> QED
        BY ONLY <2>6, <3>1
    <2>10. PathNext'
      <3>0. /\ sv'.pc = "path" /\ sv'.comm = sv.comm /\ sv'.type_op = sv.type_op
            /\ sv'.id = sv.id /\ sv'.need = n /\ sv'.size = sv.size /\ sv'.cont = 0 /\ sv'.garbled = FALSE
        BY ONLY <2>3
      <3>1. Serving("path")'
        BY ONLY <1>1, <2>2, <3>0 DEF PathNext, Serving
      <3>2. NotRun'
        BY ONLY <1>1, <2>2 DEF PathNext, NotRun
      <3>3. Pending' = TailItems(sv'.need, cl'.id) \o DataOf(cl'.f, cl'.size, cl'.id)
        BY ONLY <1>1, <2>1, <2>4, <2>5, <2>7, <2>8, <2>9, <3>0
      <3>4. sv'.size = cl'.size
        BY ONLY <1>1, <2>2, <3>0 DEF PathNext
      <3> QED
        BY ONLY <3>0, <3>1, <3>2, <3>3, <3>4 DEF PathNext
    <2>11. Phase'
      BY ONLY <2>10 DEF Phase
    <2>12. sv'.cont <= sv'.size /\ sv'.pc \in AtWork
      BY ONLY <1>4, <2>3 DEF AtWork
    <2> QED
      BY <1>1, <1>2, <2>1, <2>3, <2>11, <2>12, QuietStep
  <1>9. CASE Eof /\ up' = up /\ sv' = [sv EXCEPT !.need = Tail(@), !.garbled = TRUE]
    <2>1. sv' = [sv EXCEPT !.need = n, !.garbled = TRUE]
      BY ONLY <1>6, <1>9
    <2>2. /\ sv' \in ServerRecords /\ sv'.pc = "path" /\ sv'.comm = sv.comm
          /\ sv'.id = sv.id /\ sv'.size = sv.size /\ sv'.cont = 0
      BY ONLY <1>7, <2>1
    <2>3. Lost
      <3>1. sv.pc \notin {"dead", "accept"}
        BY ONLY <1>1
      <3> QED
        BY ONLY SessionInv, <1>3, <1>9, <3>1, EofIsLost
    <2>4. Lost'
      BY ONLY <1>1, <1>9, <2>3 DEF Lost
    <2>5. Phase'
      BY ONLY <2>4 DEF Phase
    <2>6. sv'.cont <= sv'.size /\ sv'.pc \in AtWork
      BY ONLY <1>4, <2>2 DEF AtWork
    <2>7. up' \in [Conns -> Seq(Msgs)] /\ \A c \in Conns : c # sv.comm => up'[c] = up[c]
      BY <1>9, Known
    <2> QED
      BY <1>1, <1>2, <2>2, <2>5, <2>6, <2>7, QuietStep
  <1> QED
    BY <1>8, <1>9 DEF ReadTail

\* xpn_server_op_read and _write have the file open.
LEMMA OpenFileKeeps == ASSUME SessionInv, OpenFile PROVE SessionInv'
  <1>1. /\ UNCHANGED <<keep, made, up, down, hung, freed, cl, ran, written, fault>> /\ sv.pc = "path" /\ sv.need = <<>>
        /\ sv.type_op \in {"READ", "WRITE"} /\ sv' = [sv EXCEPT !.pc = sv.type_op]
    BY DEF OpenFile
  <1>2. sv.pc \in AtWork
    BY ONLY <1>1 DEF AtWork
  <1>3. /\ sv.comm = cl.conn /\ sv.comm # 0 /\ sv.comm \in Conns /\ sv.comm \notin freed
        /\ Lost \/ PathNext
    BY <1>1, <1>2, HandlerAt
  <1>4. sv \in ServerRecords /\ sv.cont = 0 /\ sv.cont <= sv.size
    <2>1. sv \in ServerRecords /\ ServerPlaces /\ sv.cont <= sv.size
      BY Known DEF SessionType
    <2>2. sv.cont = 0
      BY ONLY <1>1, <2>1 DEF ServerPlaces
    <2> QED
      BY ONLY <2>1, <2>2
  <1>5. PICK o \in {"READ", "WRITE"} : o = sv.type_op
    BY ONLY <1>1
  <1>6. /\ sv' \in ServerRecords /\ sv'.pc = o /\ sv'.comm = sv.comm /\ sv'.type_op = sv.type_op
        /\ sv'.id = sv.id /\ sv'.size = sv.size /\ sv'.cont = 0 /\ sv'.garbled = sv.garbled
    <2>1. sv' = [sv EXCEPT !.pc = o]
      BY ONLY <1>1, <1>5
    <2> QED
      BY ONLY <1>4, <2>1, o \in {"READ", "WRITE"} DEF ServerRecords
  <1>7. /\ sv'.pc = o /\ sv'.comm = sv.comm /\ sv'.type_op = sv.type_op
        /\ sv'.id = sv.id /\ sv'.size = sv.size /\ sv'.cont = 0 /\ sv'.garbled = sv.garbled
    BY ONLY <1>6
  <1>8. Phase'
    <2>1. CASE Lost
      <3>1. Lost'
        BY ONLY <1>1, <2>1 DEF Lost
      <3> QED
        BY ONLY <3>1 DEF Phase
    <2>2. CASE PathNext
      <3>1. Serving(o)' /\ cl.f.op = o /\ sv'.size = cl'.size
        BY ONLY <1>1, <1>5, <1>7, <2>2 DEF PathNext, Serving
      <3>2. cl.size \in 0 .. MaxSize /\ cl.id \in Nat /\ cl.size \in Nat
        BY Known
      <3>3. SentData(cl.size, cl.id) \in Seq(Msgs) /\ Len(SentData(cl.size, cl.id)) = Pieces(cl.size)
        BY ONLY <3>2, DataItems
      <3>4. Pending' = DataOf(cl.f, cl.size, cl.id)
        <4>0. <<>> \in Seq(Msgs)
          OBVIOUS
        <4>1. PICK D \in Seq(Msgs) : D = DataOf(cl.f, cl.size, cl.id)
          BY ONLY <3>3, <4>0 DEF DataOf
        <4>2. TailItems(<<>>, cl.id) = <<>>
          BY ONLY DEF TailItems
        <4>3. Pending' = Pending /\ Pending = <<>> \o D
          BY ONLY <1>1, <2>2, <4>1, <4>2 DEF PathNext, Pending
        <4> QED
          BY ONLY <4>1, <4>3, D \in Seq(Msgs)
      <3>5. CASE o = "READ"
        <4>1. Pending' = <<>>
          BY ONLY <3>1, <3>4, <3>5 DEF DataOf
        <4>2. ASSUME cl.pc = "sending" PROVE ran[cl.id] = 0 /\ OpenAnswer(down[cl.conn], cl.cont, cl.size, cl.id, 0)
          <5>1. ran[cl.id] = 0 /\ cl.cont = 0 /\ down[cl.conn] = <<>>
            BY ONLY <2>2, <4>2 DEF PathNext, NotRun
          <5>2. PICK z \in 0 .. MaxSize, a \in 0 .. MaxSize : z = cl.size /\ a = 0 /\ a <= z
            BY ONLY <3>2, SessionAssumption
          <5>3. OpenAnswer(<<>>, a, z, cl.id, a)
            BY ONLY <5>2, z \in 0 .. MaxSize, a \in 0 .. MaxSize, NoChunks
          <5> QED
            BY ONLY <5>1, <5>2, <5>3
        <4>3. Reading'
          BY ONLY <1>1, <1>7, <3>1, <3>5, <4>1, <4>2 DEF Reading
        <4> QED
          BY ONLY <4>3 DEF Phase
      <3>6. CASE o = "WRITE"
        <4>1. PICK p \in Nat, s \in Seq(Msgs) : p = Pieces(cl.size) /\ s = SentData(cl.size, cl.id) /\ Len(s) = p
          BY ONLY <3>2, <3>3, PiecesCover
        <4>2. SubSeq(s, 0 + 1, p) = s
          BY ONLY <4>1, s \in Seq(Msgs)
        <4>3. Pending' = s
          BY ONLY <3>1, <3>4, <3>6, <4>1 DEF DataOf
        <4>4. sv.size = cl.size /\ cl.size > 0
          BY ONLY <1>5, <2>2, <3>1, <3>6 DEF PathNext, Serving
        <4>5. sv'.cont = 0 * MaxBuffer /\ sv'.cont < sv'.size
          <5>1. 0 * MaxBuffer = 0
            BY SessionAssumption
          <5> QED
            BY ONLY <1>7, <4>4, <5>1
        <4>6. NotRun'
          BY ONLY <1>1, <2>2 DEF PathNext, NotRun
        <4>7. Pending' = SubSeq(SentData(cl'.size, cl'.id), 0 + 1, Pieces(cl'.size))
          BY ONLY <1>1, <4>1, <4>2, <4>3
        <4>8. Writing'
          <5>1. 0 \in Nat
            OBVIOUS
          <5> QED
            BY ONLY <3>1, <3>6, <4>5, <4>6, <4>7, <5>1 DEF Writing
        <4> QED
          BY ONLY <4>8 DEF Phase
      <3> QED
        BY ONLY <3>5, <3>6, o \in {"READ", "WRITE"}
    <2> QED
      BY ONLY <1>3, <2>1, <2>2
  <1>9. sv'.cont <= sv'.size /\ sv'.pc \in AtWork /\ (sv'.pc \in {"head", "path"} => sv'.cont = 0)
    BY ONLY <1>4, <1>7, o \in {"READ", "WRITE"} DEF AtWork
  <1>10. up' \in [Conns -> Seq(Msgs)] /\ \A c \in Conns : c # sv.comm => up'[c] = up[c]
    BY <1>1, Known
  <1> QED
    BY <1>1, <1>2, <1>6, <1>8, <1>9, <1>10, QuietStep

-----------------------------------------------------------------------------
(* The end of xpn_server_run.                                                *)

\* What it changes, and when it closes the connection.
RunDone(wrote, g) ==
  /\ sv' \in ServerRecords /\ sv'.pc = (IF keep = 1 THEN "op" ELSE "accept") /\ sv'.comm = sv.comm
  /\ sv'.id = 0 /\ sv'.cont = 0 /\ sv'.size = 0 /\ sv'.garbled = FALSE
  /\ ran' \in [0 .. MaxRequests -> 0 .. 2] /\ written' \in [Calls -> 0 .. MaxSize]
  /\ \/ keep = 1 /\ freed' = freed
     \/ (keep = 0 \/ sv.comm \in hung) /\ freed' = freed \union {sv.comm}
  /\ \A i \in 0 .. MaxRequests : i # (IF g THEN 0 ELSE sv.id) => ran'[i] = ran[i]
  /\ g = FALSE /\ ran[sv.id] = 0 => ran'[sv.id] = 1
  /\ \A i \in Calls : i # (IF g THEN 0 ELSE sv.id) => written'[i] = written[i]
  /\ g = FALSE /\ sv.id # 0 => written'[sv.id] = wrote

LEMMA RunEndsDoes ==
  ASSUME SessionInv, NEW wrote \in 0 .. MaxSize, NEW g \in BOOLEAN, RunEnds(wrote, g)
  PROVE  RunDone(wrote, g)
  <1>0. /\ sv \in ServerRecords /\ keep \in {0, 1} /\ MaxRequests \in Nat /\ MaxSize \in Nat
        /\ ran \in [0 .. MaxRequests -> 0 .. 2] /\ written \in [Calls -> 0 .. MaxSize]
    BY Known DEF SessionType
  <1>1. PICK epipe \in (IF sv.comm \in hung THEN BOOLEAN ELSE {FALSE}) :
          LET id == IF g THEN 0 ELSE sv.id IN
          /\ ran' = [ran EXCEPT ![id] = Min({@ + 1, 2})]
          /\ written' = IF id = 0 THEN written ELSE [written EXCEPT ![id] = wrote]
          /\ freed' = IF Close4me(epipe) THEN freed \union {sv.comm} ELSE freed
          /\ sv' = [NoServer EXCEPT !.pc = IF keep = 1 THEN "op" ELSE "accept",
                                    !.comm = sv.comm, !.type_op = sv.type_op]
    BY DEF RunEnds
  <1>2. PICK j : j = IF g THEN 0 ELSE sv.id
    OBVIOUS
  <1>3. /\ ran' = [ran EXCEPT ![j] = Min({@ + 1, 2})]
        /\ written' = IF j = 0 THEN written ELSE [written EXCEPT ![j] = wrote]
        /\ freed' = IF Close4me(epipe) THEN freed \union {sv.comm} ELSE freed
        /\ sv' = [NoServer EXCEPT !.pc = IF keep = 1 THEN "op" ELSE "accept",
                                  !.comm = sv.comm, !.type_op = sv.type_op]
    BY ONLY <1>1, <1>2
  <1>4. sv.id \in 0 .. MaxRequests /\ sv.comm \in 0 .. MaxRequests /\ sv.type_op \in DOMAIN Handler
    BY ONLY <1>0 DEF ServerRecords
  <1>5. j \in 0 .. MaxRequests
    BY ONLY <1>0, <1>2, <1>4
  <1>6. /\ sv' \in ServerRecords /\ sv'.pc = (IF keep = 1 THEN "op" ELSE "accept") /\ sv'.comm = sv.comm
        /\ sv'.id = 0 /\ sv'.cont = 0 /\ sv'.size = 0 /\ sv'.garbled = FALSE
    <2>1. PICK p \in {"op", "accept"} : p = IF keep = 1 THEN "op" ELSE "accept"
      OBVIOUS
    <2>2. PICK c \in 0 .. MaxRequests, o \in DOMAIN Handler : c = sv.comm /\ o = sv.type_op
      BY ONLY <1>4
    <2>3. sv' = [NoServer EXCEPT !.pc = p, !.comm = c, !.type_op = o]
      BY ONLY <1>3, <2>1, <2>2
    <2>4. 0 \in 0 .. MaxRequests /\ 0 \in 0 .. MaxSize /\ <<>> \in Seq(Nat)
      BY ONLY <1>0
    <2>5. sv' \in ServerRecords /\ sv'.pc = p /\ sv'.comm = c /\ sv'.id = 0 /\ sv'.cont = 0 /\ sv'.size = 0 /\ sv'.garbled = FALSE
      BY ONLY <2>3, <2>4, p \in {"op", "accept"}, c \in 0 .. MaxRequests, o \in DOMAIN Handler DEF NoServer, ServerRecords
    <2> QED
      BY ONLY <2>1, <2>2, <2>5
  <1>7. PICK n \in 0 .. 2 : n = Min({ran[j] + 1, 2}) /\ (ran[j] = 0 => n = 1)
    <2>1. PICK r \in 0 .. 2 : r = ran[j]
      BY ONLY <1>0, <1>5
    <2>2. r + 1 \in Int /\ 2 \in Int
      OBVIOUS
    <2>3. Min({r + 1, 2}) = IF r + 1 <= 2 THEN r + 1 ELSE 2
      BY ONLY <2>2, MinOfTwo
    <2> QED
      BY ONLY <2>1, <2>3
  <1>8. ran' = [ran EXCEPT ![j] = n]
    BY ONLY <1>3, <1>7
  <1>9. /\ ran' \in [0 .. MaxRequests -> 0 .. 2] /\ ran'[j] = n
        /\ \A i \in 0 .. MaxRequests : i # j => ran'[i] = ran[i]
    BY ONLY <1>0, <1>5, <1>8, n \in 0 .. 2
  <1>10. /\ written' \in [Calls -> 0 .. MaxSize] /\ (j # 0 => written'[j] = wrote)
         /\ \A i \in Calls : i # j => written'[i] = written[i]
    <2>1. j # 0 => j \in Calls
      BY ONLY <1>0, <1>5 DEF Calls
    <2> QED
      BY ONLY <1>0, <1>3, <2>1, wrote \in 0 .. MaxSize
  <1>11. \/ keep = 1 /\ freed' = freed
         \/ (keep = 0 \/ sv.comm \in hung) /\ freed' = freed \union {sv.comm}
    <2>1. epipe \in BOOLEAN /\ (epipe = TRUE => sv.comm \in hung)
      BY ONLY epipe \in (IF sv.comm \in hung THEN BOOLEAN ELSE {FALSE})
    <2> QED
      BY ONLY <1>0, <1>3, <2>1 DEF Close4me
  <1>12. g = FALSE => j = sv.id
    BY ONLY <1>2
  <1> QED
    BY ONLY <1>2, <1>6, <1>7, <1>9, <1>10, <1>11, <1>12 DEF RunDone

\* What a handler leaves: a client that has died, or its answer.
ReadToEnd == Lost /\ up'[cl.conn] = <<>>
CallServed(wrote) ==
  /\ sv.id = cl.id /\ cl.pc \in {"sending", "dead"} /\ AfterJunk(Pending', <<>>, fault')
  /\ cl.pc = "sending" =>
       /\ ran[cl.id] = 0
       /\ IF cl.f.op = "READ" THEN ReadAnswer(down'[cl.conn], cl.cont, cl.size, cl.id, 1)
          ELSE \E v \in Int : /\ down'[cl.conn] = <<Item(cl.f.reply, v, cl.id)>>
                              /\ cl.f.op = "WRITE" /\ v >= 0 /\ "seek_failed" \notin fault' => wrote = cl.size

\* Only a client that died has hung up on a handler at work.
LEMMA HungUp ==
  ASSUME SessionInv, sv.pc \in AtWork
  PROVE  /\ cl.conn \in hung => "client_died" \in fault
         /\ cl.pc = "dead" => "client_died" \in fault
         /\ cl.pc = "sending" => cl.id # 0 /\ "client_died" \notin fault
  <1>0. ClientConns
    BY Known
  <1>1. /\ sv.comm = cl.conn /\ sv.comm \notin freed
        /\ Lost \/ HeadNext \/ PathNext \/ Reading \/ Writing
    BY HandlerAt
  <1>2. Lost \/ cl.pc \in {"sending", "dead"}
    BY ONLY <1>1 DEF HeadNext, PathNext, Reading, Writing, Serving
  <1>3. cl.pc = "dead" => "client_died" \in fault
    BY ONLY <1>0, <1>1 DEF ClientConns
  <1>4. cl.conn \in hung => cl.pc \in {"dead", "ended"}
    BY ONLY <1>0 DEF ClientConns
  <1>5. cl.pc = "sending" => cl.id # 0 /\ "client_died" \notin fault
    BY ONLY <1>0 DEF ClientConns
  <1> QED
    BY ONLY <1>2, <1>3, <1>4, <1>5 DEF Lost

LEMMA RunEndsKeeps ==
  ASSUME SessionInv, sv.pc \in AtWork, NEW wrote \in 0 .. MaxSize, NEW g \in BOOLEAN, RunEnds(wrote, g),
         UNCHANGED <<keep, made, hung, cl>>,
         up' \in [Conns -> Seq(Msgs)], \A c \in Conns : c # sv.comm => up'[c] = up[c],
         down' \in [Conns -> Seq(Msgs)], \A c \in Conns : c # sv.comm => down'[c] = down[c],
         fault \subseteq fault', fault' \subseteq fault \union {"data_abandoned", "seek_failed"},
         ReadToEnd \/ (g = FALSE /\ CallServed(wrote))
  PROVE  SessionInv'
  <1>0. /\ ClientConns /\ ServerPlaces /\ ServerStreams /\ Answers /\ keep \in {0, 1} /\ made \in Nat
        /\ freed \subseteq 1 .. made /\ made <= MaxRequests /\ cl.conn \in Nat /\ cl.id \in 0 .. MaxRequests
        /\ sv.comm \in Nat /\ sv.comm <= made /\ MaxRequests \in Nat /\ Conns = 1 .. MaxRequests
        /\ sv.id \in Nat
    <2>1. cl \in ClientRecords
      BY Known
    <2>2. cl.id \in 0 .. MaxRequests
      BY ONLY <2>1 DEF ClientRecords
    <2> QED
      BY <2>2, Known
  <1>1. UNCHANGED <<keep, made, hung, cl>>
    OBVIOUS
  <1>2. /\ sv.comm = cl.conn /\ sv.comm # 0 /\ sv.comm \in Conns /\ sv.comm \notin freed /\ sv.pc # "dead" /\ sv.id <= cl.id
    BY HandlerAt
  <1>3. /\ cl.conn \in hung => "client_died" \in fault
        /\ cl.pc = "dead" => "client_died" \in fault
        /\ cl.pc = "sending" => cl.id # 0 /\ "client_died" \notin fault
    BY ONLY SessionInv, sv.pc \in AtWork, HungUp
  <1>4a. /\ sv' \in ServerRecords /\ sv'.pc = (IF keep = 1 THEN "op" ELSE "accept") /\ sv'.comm = sv.comm
         /\ sv'.id = 0 /\ sv'.cont = 0 /\ sv'.size = 0 /\ sv'.garbled = FALSE
         /\ ran' \in [0 .. MaxRequests -> 0 .. 2] /\ written' \in [Calls -> 0 .. MaxSize]
         /\ \/ keep = 1 /\ freed' = freed
            \/ (keep = 0 \/ sv.comm \in hung) /\ freed' = freed \union {sv.comm}
         /\ \A i \in 0 .. MaxRequests : i # (IF g THEN 0 ELSE sv.id) => ran'[i] = ran[i]
         /\ g = FALSE /\ ran[sv.id] = 0 => ran'[sv.id] = 1
         /\ g = FALSE /\ sv.id # 0 => written'[sv.id] = wrote
    <2>1. RunDone(wrote, g)
      BY ONLY SessionInv, wrote \in 0 .. MaxSize, g \in BOOLEAN, RunEnds(wrote, g), RunEndsDoes
    <2> QED
      BY ONLY <2>1 DEF RunDone
  <1>4. /\ sv'.pc = (IF keep = 1 THEN "op" ELSE "accept") /\ sv'.comm = sv.comm
        /\ sv'.id = 0 /\ sv'.cont = 0 /\ sv'.size = 0 /\ sv'.garbled = FALSE
        /\ \/ keep = 1 /\ freed' = freed
           \/ (keep = 0 \/ sv.comm \in hung) /\ freed' = freed \union {sv.comm}
        /\ \A i \in 0 .. MaxRequests : i # (IF g THEN 0 ELSE sv.id) => ran'[i] = ran[i]
        /\ g = FALSE /\ ran[sv.id] = 0 => ran'[sv.id] = 1
        /\ g = FALSE /\ sv.id # 0 => written'[sv.id] = wrote
    BY ONLY <1>4a
  <1>5. /\ "client_died" \in fault' <=> "client_died" \in fault
        /\ "comm_used_after_free" \in fault' <=> "comm_used_after_free" \in fault
        /\ "no_answer" \in fault' <=> "no_answer" \in fault
        /\ fault \subseteq fault'
    OBVIOUS
  <1>6. freed \subseteq freed' /\ freed' \subseteq freed \union {sv.comm}
    BY ONLY <1>4
  <1>7. SessionType'
    <2>1. freed' \subseteq 1 .. made
      <3>1. sv.comm \in 1 .. made
        BY ONLY <1>0, <1>2
      <3> QED
        BY ONLY <1>0, <1>6, <3>1
    <2>2. fault' \subseteq Faults
      BY Known DEF SessionType, Faults
    <2>3. sv'.cont <= sv'.size
      BY ONLY <1>4
    <2> QED
      BY <1>4a, <2>1, <2>2, <2>3, Known, ServerTyped
  <1>8. ClientConns'
    BY ONLY <1>0, <1>1, <1>5, <1>6, ClientConnsStay
  <1>9. ServerPlaces'
    <2>1. 0 <= cl.id
      BY ONLY <1>0
    <2>2. keep = 0 => sv.comm \in freed'
      BY ONLY <1>4
    <2>3. keep = 1 /\ sv.comm \in freed' => "client_died" \in fault
      BY ONLY <1>2, <1>3, <1>4
    <2>4. "comm_used_after_free" \in fault => "client_died" \in fault
      BY ONLY <1>0 DEF ServerPlaces
    <2>5. keep = 1 \/ keep = 0
      BY ONLY <1>0
    <2>6. sv.comm <= made
      BY ONLY <1>0
    <2> QED
      BY ONLY <1>1, <1>2, <1>4, <1>5, <2>1, <2>2, <2>3, <2>4, <2>5, <2>6 DEF ServerPlaces, AtWork
  <1>10. ServerStreams'
    <2>1. freed' \subseteq 1 .. sv.comm
      <3>1. freed \subseteq 1 .. sv.comm /\ sv.comm \in 1 .. sv.comm
        BY ONLY <1>0, <1>2 DEF ServerStreams
      <3> QED
        BY ONLY <1>6, <3>1
    <2>2. \A c \in Conns : c # sv.comm => up'[c] = up[c] /\ down'[c] = down[c]
      OBVIOUS
    <2>3. \A c \in Conns : c > made => c # sv.comm
      BY ONLY <1>0
    <2>4. \A c \in freed : c \in freed'
      BY ONLY <1>6
    <2> QED
      BY ONLY <1>0, <1>1, <1>2, <1>4, <2>1, <2>2, <2>3, <2>4 DEF ServerStreams
  <1>11. Phase'
    <2>1. SUFFICES ASSUME cl'.conn \notin freed' PROVE Phase'
      BY DEF Phase
    <2>2. keep = 1
      BY ONLY <1>0, <1>1, <1>2, <1>4, <2>1
    <2>3. CASE ReadToEnd
      <3>1. Lost'
        BY ONLY <1>1, <1>5, <2>3 DEF ReadToEnd, Lost
      <3> QED
        BY ONLY <3>1 DEF Phase
    <2>4. CASE CallServed(wrote)
      <3>1. Answered'
        BY ONLY <1>1, <1>2, <1>4, <2>2, <2>4 DEF CallServed, Answered, Waits
      <3> QED
        BY ONLY <3>1 DEF Phase
    <2> QED
      BY <2>3, <2>4
  <1>12. Answers'
    <2>1. \A i \in 0 .. MaxRequests : i > cl.id => ran'[i] = 0
      <3>1. \A i \in 0 .. MaxRequests : i > cl.id => ran[i] = 0
        BY ONLY <1>0 DEF Answers
      <3>2. \A i \in 0 .. MaxRequests : i > cl.id => i # (IF g THEN 0 ELSE sv.id)
        BY ONLY <1>0, <1>2
      <3> QED
        BY ONLY <1>4, <3>1, <3>2
    <2>2. cl.f.op = "READ" => cl.cont <= cl.size
      BY ONLY <1>0 DEF Answers
    <2>3. "client_died" \notin fault => ran[0] = 0
      BY ONLY <1>0 DEF Answers
    <2>4. CASE "client_died" \in fault
      <3>1. cl.pc = "dead"
        BY ONLY <1>0, <2>4 DEF ClientConns
      <3> QED
        BY ONLY <1>1, <1>5, <2>1, <2>2, <2>4, <3>1 DEF Answers, WriteOkMeansWritten
    <2>5. CASE "client_died" \notin fault
      <3>1. CallServed(wrote) /\ g = FALSE
        <4>1. ReadToEnd \/ (g = FALSE /\ CallServed(wrote))
          OBVIOUS
        <4> QED
          BY ONLY <2>5, <4>1 DEF ReadToEnd, Lost
      <3>2. cl.pc = "sending" /\ sv.id = cl.id
        BY ONLY <1>3, <2>5, <3>1 DEF CallServed
      <3>3. cl.id # 0 /\ ran[cl.id] = 0
        BY ONLY <1>3, <3>1, <3>2 DEF CallServed
      <3>4. ran'[cl.id] = 1 /\ written'[cl.id] = wrote
        BY ONLY <1>4, <3>1, <3>2, <3>3
      <3>5. ran'[0] = 0
        <4>1. 0 \in 0 .. MaxRequests /\ 0 # (IF g THEN 0 ELSE sv.id)
          BY ONLY <1>0, <3>1, <3>2, <3>3
        <4> QED
          BY ONLY <1>4, <2>3, <2>5, <4>1
      <3>6. CASE cl.f.op = "READ"
        <4>1. ReadAnswer(down'[cl.conn], cl.cont, cl.size, cl.id, 1)
          BY ONLY <3>1, <3>2, <3>6 DEF CallServed
        <4> QED
          BY ONLY <1>1, <2>1, <2>2, <3>2, <3>4, <3>5, <3>6, <4>1 DEF Answers, WriteOkMeansWritten
      <3>7. CASE cl.f.op # "READ"
        <4>1. PICK v \in Int : /\ down'[cl.conn] = <<Item(cl.f.reply, v, cl.id)>>
                               /\ cl.f.op = "WRITE" /\ v >= 0 /\ "seek_failed" \notin fault' => wrote = cl.size
          BY ONLY <3>1, <3>2, <3>7 DEF CallServed
        <4>2. PICK x : x = Item(cl.f.reply, v, cl.id)
          OBVIOUS
        <4>3. down'[cl.conn] = <<x>> /\ <<x>>[1] = x /\ x.v = v
          BY ONLY <4>1, <4>2 DEF Item
        <4>4. down'[cl.conn][1].v = v
          BY ONLY <4>3
        <4>5. PlainAnswer(down[cl.conn])'
          BY ONLY <1>1, <3>4, <4>1, <4>4, v \in Int DEF PlainAnswer
        <4> QED
          BY ONLY <1>1, <2>1, <2>2, <3>2, <3>5, <3>7, <4>5 DEF Answers, WriteOkMeansWritten
      <3> QED
        BY ONLY <3>6, <3>7
    <2> QED
      BY ONLY <2>4, <2>5
  <1> QED
    BY <1>7, <1>8, <1>9, <1>10, <1>11, <1>12 DEF SessionInv, ServerConns

-----------------------------------------------------------------------------
(* Answers.                                                                  *)

LEMMA AnswerDoes ==
  ASSUME SessionInv, sv.pc \in AtWork, NEW items \in Seq(Msgs), Answer(items)
  PROVE  /\ down' \in [Conns -> Seq(Msgs)] /\ \A c \in Conns : c # sv.comm => down'[c] = down[c]
         /\ down[cl.conn] \in Seq(Msgs)
         /\ cl.pc = "sending" => down'[cl.conn] = down[cl.conn] \o items
  <1>0. down \in [Conns -> Seq(Msgs)] /\ ClientConns
    BY Known
  <1>1. sv.comm = cl.conn /\ sv.comm \in Conns
    BY HandlerAt
  <1>2. PICK q : q = down[sv.comm] \o items
    OBVIOUS
  <1>3. q \in Seq(Msgs) /\ down[sv.comm] \in Seq(Msgs)
    <2>1. PICK a \in Seq(Msgs) : a = down[sv.comm]
      BY ONLY <1>0, <1>1
    <2> QED
      BY ONLY <1>2, <2>1, a \in Seq(Msgs), items \in Seq(Msgs)
  <1>4. down' = IF sv.comm \in hung THEN down ELSE [down EXCEPT ![sv.comm] = q]
    BY <1>2 DEF Answer
  <1>5. cl.pc = "sending" => sv.comm \notin hung
    BY ONLY <1>0, <1>1 DEF ClientConns
  <1>6. /\ down' \in [Conns -> Seq(Msgs)] /\ \A c \in Conns : c # sv.comm => down'[c] = down[c]
        /\ sv.comm \notin hung => down'[sv.comm] = q
    BY ONLY <1>0, <1>1, <1>3, <1>4
  <1> QED
    BY ONLY <1>1, <1>2, <1>3, <1>5, <1>6

\* The numbers that an answer carries, and the pieces.
LEMMA AnswerItem ==
  ASSUME NEW k \in {"rw_req", "data"}, NEW v \in Int, NEW id \in Nat
  PROVE  Item(k, v, id) \in Msgs
  <1>1. k \in Kinds
    BY DEF Kinds, Structs
  <1> QED
    BY ONLY <1>1, v \in Int, id \in Nat, NumberIsMsg

LEMMA OneMore ==
  ASSUME NEW S, NEW d \in Seq(S), NEW x \in S
  PROVE  /\ d \o <<x>> \in Seq(S) /\ Len(d \o <<x>>) = Len(d) + 1 /\ (d \o <<x>>)[Len(d) + 1] = x
         /\ \A i \in 1 .. Len(d) : (d \o <<x>>)[i] = d[i]
  OBVIOUS

LEMMA TwoMore ==
  ASSUME NEW S, NEW d \in Seq(S), NEW x \in S, NEW y \in S
  PROVE  /\ d \o <<x, y>> \in Seq(S) /\ Len(d \o <<x, y>>) = Len(d) + 2
         /\ (d \o <<x, y>>)[Len(d) + 1] = x /\ (d \o <<x, y>>)[Len(d) + 2] = y
         /\ \A i \in 1 .. Len(d) : (d \o <<x, y>>)[i] = d[i]
  OBVIOUS

LEMMA TwoItems ==
  ASSUME NEW S, NEW x \in S, NEW y \in S
  PROVE  <<x>> \o <<y>> = <<x, y>>
  <1>1. PICK p, q : p = <<x>> \o <<y>> /\ q = <<x, y>>
    OBVIOUS
  <1>2. /\ p \in Seq(S) /\ Len(p) = 2 /\ p[1] = x /\ p[2] = y
    BY ONLY <1>1, x \in S, y \in S
  <1>3. /\ q \in Seq(S) /\ Len(q) = 2 /\ q[1] = x /\ q[2] = y
    BY ONLY <1>1, x \in S, y \in S
  <1>4. p = q
    BY ONLY <1>2, <1>3
  <1> QED
    BY ONLY <1>1, <1>4

\* The pieces of an answer do not depend on what follows them.
LEMMA ChunksStay ==
  ASSUME NEW d, NEW e, NEW m \in Nat, NEW acc, NEW from, NEW size, NEW id,
         \A i \in 1 .. (2 * m) : e[i] = d[i], Chunks(d, m, acc, from, size, id)
  PROVE  Chunks(e, m, acc, from, size, id)
  <1>1. \A i \in 1 .. m : 2 * i - 1 \in 1 .. (2 * m) /\ 2 * i \in 1 .. (2 * m)
    OBVIOUS
  <1>2. \A i \in 1 .. m : e[2 * i - 1] = d[2 * i - 1] /\ e[2 * i] = d[2 * i]
    BY <1>1
  <1> QED
    BY <1>2 DEF Chunks

\* The total is positive when there is a piece.
LEMMA ChunksAdd ==
  ASSUME NEW d, NEW m \in Nat, NEW acc \in Accs(m), NEW from, NEW size, NEW id, Chunks(d, m, acc, from, size, id), m > 0
  PROVE  acc[m] > 0
  <1>1. m \in 1 .. m /\ m - 1 \in 0 .. m /\ m \in 0 .. m
    OBVIOUS
  <1>2. acc[m - 1] < acc[m]
    BY ONLY <1>1, Chunks(d, m, acc, from, size, id) DEF Chunks
  <1>3. acc[m - 1] \in 0 .. MaxSize /\ acc[m] \in 0 .. MaxSize /\ MaxSize \in Nat
    BY <1>1, SessionAssumption DEF Accs
  <1> QED
    BY ONLY <1>2, <1>3

\* An answer that ends: with no bytes or an error, or because all bytes are there.
LEMMA EndsWithStatus ==
  ASSUME NEW d \in Seq(Msgs), NEW from, NEW size \in 0 .. MaxSize, NEW id \in Nat, NEW upto,
         OpenAnswer(d, from, size, id, upto), upto > 0 => upto < size,
         NEW v \in {0, -1}, NEW x, x = Item("rw_req", v, id)
  PROVE  ReadAnswer(d \o <<x>>, from, size, id, 1)
  <1>1. PICK m \in 0 .. Len(d) : \E acc \in Accs(m) : Chunks(d, m, acc, from, size, id) /\ Len(d) = 2 * m /\ acc[m] = upto
    BY DEF OpenAnswer
  <1>2. PICK acc \in Accs(m) : Chunks(d, m, acc, from, size, id) /\ Len(d) = 2 * m /\ acc[m] = upto
    BY ONLY <1>1
  <1>3. x \in Msgs
    <2>1. v \in Int
      OBVIOUS
    <2> QED
      BY ONLY <2>1, x = Item("rw_req", v, id), id \in Nat, AnswerItem
  <1>4. PICK e : e = d \o <<x>>
    OBVIOUS
  <1>5. /\ e \in Seq(Msgs) /\ Len(e) = Len(d) + 1 /\ e[Len(d) + 1] = x /\ \A i \in 1 .. Len(d) : e[i] = d[i]
    BY ONLY <1>3, <1>4, d \in Seq(Msgs), OneMore
  <1>6. m \in Nat /\ Len(d) \in Nat
    BY ONLY d \in Seq(Msgs), m \in 0 .. Len(d)
  <1>7. Chunks(e, m, acc, from, size, id)
    <2>1. \A i \in 1 .. (2 * m) : e[i] = d[i]
      BY ONLY <1>2, <1>5
    <2> QED
      BY ONLY <1>2, <1>6, <2>1, ChunksStay
  <1>8. m > 0 => acc[m] < size
    <2>1. m > 0 => acc[m] > 0
      BY ONLY <1>2, <1>6, acc \in Accs(m), ChunksAdd
    <2> QED
      BY ONLY <1>2, <2>1, upto > 0 => upto < size
  <1>9. Len(e) = 2 * m + 1 /\ e[2 * m + 1] \in {Item("rw_req", 0, id), Item("rw_req", -1, id)} /\ m \in 0 .. Len(e)
    BY ONLY <1>2, <1>5, <1>6, v \in {0, -1}, x = Item("rw_req", v, id)
  <1>10. \E k \in 0 .. Len(e) : \E a \in Accs(k) :
            /\ Chunks(e, k, a, from, size, id)
            /\ \/ Len(e) = 2 * k /\ (k > 0 /\ a[k] = size => 1 = 1)
               \/ /\ Len(e) = 2 * k + 1 /\ 1 = 1 /\ (k > 0 => a[k] < size)
                  /\ e[2 * k + 1] \in {Item("rw_req", 0, id), Item("rw_req", -1, id)}
    BY ONLY <1>7, <1>8, <1>9, acc \in Accs(m)
  <1> QED
    BY ONLY <1>4, <1>10 DEF ReadAnswer

LEMMA IsReadAnswer ==
  ASSUME NEW d, NEW from, NEW size, NEW id, NEW upto, NEW times, OpenAnswer(d, from, size, id, upto),
         times = 1 \/ upto # size \/ upto = 0
  PROVE  ReadAnswer(d, from, size, id, times)
  <1>1. PICK m \in 0 .. Len(d) : \E acc \in Accs(m) : Chunks(d, m, acc, from, size, id) /\ Len(d) = 2 * m /\ acc[m] = upto
    BY DEF OpenAnswer
  <1>2. PICK acc \in Accs(m) : Chunks(d, m, acc, from, size, id) /\ Len(d) = 2 * m /\ acc[m] = upto
    BY ONLY <1>1
  <1>3. m > 0 /\ acc[m] = size => times = 1
    <2>1. m > 0 => acc[m] # 0
      <3>1. ASSUME m > 0 PROVE acc[m] # 0
        <4>1. m \in Nat
          OBVIOUS
        <4>2. acc[m] > 0
          BY ONLY <1>2, <3>1, <4>1, acc \in Accs(m), ChunksAdd
        <4> QED
          BY ONLY <4>2
      <3> QED
        BY ONLY <3>1
    <2> QED
      BY ONLY <1>2, <2>1, times = 1 \/ upto # size \/ upto = 0
  <1> QED
    BY ONLY <1>2, <1>3, acc \in Accs(m), m \in 0 .. Len(d) DEF ReadAnswer

\* One more piece.
LEMMA MoreChunk ==
  ASSUME NEW d \in Seq(Msgs), NEW from, NEW size \in 0 .. MaxSize, NEW id \in Nat, NEW upto \in 0 .. MaxSize,
         OpenAnswer(d, from, size, id, upto), NEW n \in Nat \ {0}, upto + n <= size,
         NEW x, NEW y, x = Item("rw_req", n, id), y = Item("data", n, id)
  PROVE  OpenAnswer(d \o <<x, y>>, from, size, id, upto + n)
  <1>1. PICK m \in 0 .. Len(d) : \E acc \in Accs(m) : Chunks(d, m, acc, from, size, id) /\ Len(d) = 2 * m /\ acc[m] = upto
    BY DEF OpenAnswer
  <1>2. PICK acc \in Accs(m) : Chunks(d, m, acc, from, size, id) /\ Len(d) = 2 * m /\ acc[m] = upto
    BY ONLY <1>1
  <1>3. x \in Msgs /\ y \in Msgs
    <2>1. n \in Int
      OBVIOUS
    <2> QED
      BY ONLY <2>1, x = Item("rw_req", n, id), y = Item("data", n, id), id \in Nat, AnswerItem
  <1>4. PICK e : e = d \o <<x, y>>
    OBVIOUS
  <1>5. /\ e \in Seq(Msgs) /\ Len(e) = Len(d) + 2 /\ e[Len(d) + 1] = x /\ e[Len(d) + 2] = y
        /\ \A i \in 1 .. Len(d) : e[i] = d[i]
    BY ONLY <1>3, <1>4, d \in Seq(Msgs), TwoMore
  <1>6. m \in Nat /\ Len(d) \in Nat /\ MaxSize \in Nat /\ size \in Nat /\ upto \in Nat
    BY SessionAssumption
  <1>7. Chunks(e, m, acc, from, size, id)
    <2>1. \A i \in 1 .. (2 * m) : e[i] = d[i]
      BY ONLY <1>2, <1>5
    <2> QED
      BY ONLY <1>2, <1>6, <2>1, ChunksStay
  <1>8. PICK k \in Nat, t \in 0 .. MaxSize : k = m + 1 /\ t = upto + n
    BY ONLY <1>6, upto + n <= size, size \in 0 .. MaxSize, n \in Nat \ {0}
  <1>9. PICK b : b = [i \in 0 .. k |-> IF i <= m THEN acc[i] ELSE t]
    OBVIOUS
  <1>10. b \in Accs(k) /\ b[k] = t /\ \A i \in 0 .. m : b[i] = acc[i]
    <2>1. \A i \in 0 .. m : acc[i] \in 0 .. MaxSize
      BY ONLY acc \in Accs(m) DEF Accs
    <2>2. /\ \A i \in 0 .. k : b[i] \in 0 .. MaxSize
          /\ b[k] = t /\ \A i \in 0 .. m : b[i] = acc[i]
      BY ONLY <1>6, <1>8, <1>9, <2>1, t \in 0 .. MaxSize
    <2> QED
      BY ONLY <1>9, <2>2 DEF Accs
  <1>11. Chunks(e, k, b, from, size, id)
    <2>1. b[0] = from
      <3>1. acc[0] = from /\ 0 \in 0 .. m
        BY ONLY <1>6, <1>7 DEF Chunks
      <3> QED
        BY ONLY <1>10, <3>1
    <2>2. ASSUME NEW i \in 1 .. k
          PROVE  /\ b[i - 1] < b[i] /\ b[i - 1] < size
                 /\ e[2 * i - 1] = Item("rw_req", b[i] - b[i - 1], id) /\ e[2 * i] = Item("data", b[i] - b[i - 1], id)
      <3>1. CASE i <= m
        <4>1. i \in 1 .. m /\ i \in 0 .. m /\ i - 1 \in 0 .. m
          BY ONLY <1>6, <3>1, i \in 1 .. k
        <4>2. b[i - 1] = acc[i - 1] /\ b[i] = acc[i]
          BY ONLY <1>10, <4>1
        <4>3. /\ acc[i - 1] < acc[i] /\ acc[i - 1] < size
              /\ e[2 * i - 1] = Item("rw_req", acc[i] - acc[i - 1], id) /\ e[2 * i] = Item("data", acc[i] - acc[i - 1], id)
          BY ONLY <1>7, <4>1 DEF Chunks
        <4> QED
          BY ONLY <4>2, <4>3
      <3>2. CASE i = k
        <4>1. i - 1 = m /\ m \in 0 .. m /\ 2 * i - 1 = 2 * m + 1 /\ 2 * i = 2 * m + 2
          BY ONLY <1>6, <1>8, <3>2
        <4>2. b[i - 1] = upto /\ b[i] = t
          BY ONLY <1>2, <1>10, <3>2, <4>1
        <4>3. t - upto = n /\ upto < t /\ upto < size
          BY ONLY <1>6, <1>8, upto + n <= size, n \in Nat \ {0}
        <4>4. e[2 * i - 1] = x /\ e[2 * i] = y
          BY ONLY <1>2, <1>5, <4>1
        <4> QED
          BY ONLY <4>2, <4>3, <4>4, x = Item("rw_req", n, id), y = Item("data", n, id)
      <3> QED
        BY ONLY <1>6, <1>8, <3>1, <3>2, i \in 1 .. k
    <2>3. b[k] <= size
      BY ONLY <1>8, <1>10, upto + n <= size
    <2> QED
      BY ONLY <2>1, <2>2, <2>3 DEF Chunks
  <1>12. k \in 0 .. Len(e) /\ Len(e) = 2 * k
    BY ONLY <1>2, <1>5, <1>6, <1>8
  <1>13. OpenAnswer(e, from, size, id, t)
    BY ONLY <1>10, <1>11, <1>12 DEF OpenAnswer
  <1> QED
    BY ONLY <1>4, <1>8, <1>13

-----------------------------------------------------------------------------
(* The handlers that answer.                                                 *)

\* The call that a handler serves once it has read the paths.
LEMMA PathsRead ==
  ASSUME SessionInv, sv.pc = "path", sv.need = <<>>, PathNext
  PROVE  /\ sv.id = cl.id /\ sv.type_op = cl.f.op /\ sv.garbled = FALSE /\ cl.pc \in {"sending", "dead"}
         /\ sv.size = cl.size /\ (cl.f.op = "WRITE" => cl.size > 0)
         /\ Handler[cl.f.op].reply = cl.f.reply /\ cl.f.reply \in Structs
         /\ cl.f.op \in {"READ", "WRITE"} => cl.f.reply = "rw_req"
         /\ Pending = DataOf(cl.f, cl.size, cl.id)
         /\ cl.pc = "sending" => ran[cl.id] = 0 /\ cl.cont = 0 /\ down[cl.conn] = <<>>
  <1>1. /\ sv.id = cl.id /\ sv.type_op = cl.f.op /\ sv.garbled = FALSE /\ cl.pc \in {"sending", "dead"}
        /\ sv.size = cl.size /\ (cl.f.op = "WRITE" => cl.size > 0)
        /\ cl.pc = "sending" => ran[cl.id] = 0 /\ cl.cont = 0 /\ down[cl.conn] = <<>>
    BY ONLY PathNext DEF PathNext, Serving, NotRun
  <1>2. cl.f \in ClientFunctions /\ cl.size \in 0 .. MaxSize /\ cl.id \in Nat
    <2>1. cl \in ClientRecords /\ cl.id \in Nat
      BY Known
    <2>2. cl.f \in ClientFunctions /\ cl.size \in 0 .. MaxSize
      BY ONLY <2>1 DEF ClientRecords
    <2> QED
      BY ONLY <2>1, <2>2
  <1>3. /\ Handler[cl.f.op].reply = cl.f.reply /\ cl.f.op \in DOMAIN Handler
        /\ cl.f.op \in {"READ", "WRITE"} => cl.f.reply = "rw_req"
    BY ONLY <1>2, TablesAgree
  <1>4. cl.f.reply \in Structs
    <2>1. Handler[cl.f.op].reply \in Structs
      BY ONLY <1>3, ReplyIsStruct
    <2> QED
      BY ONLY <1>3, <2>1
  <1>5. Pending = DataOf(cl.f, cl.size, cl.id)
    <2>1. SentData(cl.size, cl.id) \in Seq(Msgs) /\ <<>> \in Seq(Msgs)
      BY ONLY <1>2, DataItems
    <2>2. PICK D \in Seq(Msgs) : D = DataOf(cl.f, cl.size, cl.id)
      BY ONLY <2>1 DEF DataOf
    <2>3. TailItems(<<>>, cl.id) = <<>>
      BY ONLY DEF TailItems
    <2>4. Pending = <<>> \o D
      BY ONLY PathNext, sv.need = <<>>, <2>2, <2>3 DEF PathNext
    <2> QED
      BY ONLY <2>2, <2>4, D \in Seq(Msgs)
  <1> QED
    BY ONLY <1>1, <1>3, <1>4, <1>5

\* A step that reads nothing of the stream.
LEMMA NothingRead ==
  ASSUME SessionInv, UNCHANGED <<up, cl>>
  PROVE  /\ up' \in [Conns -> Seq(Msgs)] /\ \A c \in Conns : c # sv.comm => up'[c] = up[c]
         /\ Pending' = Pending /\ (Lost => ReadToEnd)
  <1>1. UNCHANGED <<up, cl>> /\ up \in [Conns -> Seq(Msgs)]
    BY Known
  <1>2. Pending' = Pending
    BY ONLY <1>1 DEF Pending
  <1>3. Lost => ReadToEnd
    BY ONLY <1>1 DEF Lost, ReadToEnd
  <1> QED
    BY ONLY <1>1, <1>2, <1>3

\* The handlers that make one call of the file system and answer.
LEMMA PlainKeeps == ASSUME SessionInv, Plain PROVE SessionInv'
  <1>1. /\ UNCHANGED <<keep, made, up, hung, cl, fault>> /\ sv.pc = "path" /\ sv.need = <<>>
        /\ sv.type_op \notin {"READ", "WRITE"}
    BY DEF Plain
  <1>2. sv.pc \in AtWork
    BY ONLY <1>1 DEF AtWork
  <1>3. Lost \/ PathNext
    BY <1>1, <1>2, HandlerAt
  <1>4. sv.garbled \in BOOLEAN /\ sv.type_op \in DOMAIN Handler /\ sv.id \in Nat /\ 0 \in 0 .. MaxSize
    <2>1. sv \in ServerRecords /\ MaxSize \in Nat /\ sv.id \in Nat
      BY Known
    <2> QED
      BY ONLY <2>1 DEF ServerRecords
  <1>5. PICK ret \in {0, -1} : Answer(<<Item(Handler[sv.type_op].reply, ret, sv.id)>>)
    BY DEF Plain
  <1>6. PICK x : x = Item(Handler[sv.type_op].reply, ret, sv.id)
    OBVIOUS
  <1>7. x \in Msgs
    <2>1. Handler[sv.type_op].reply \in Kinds
      BY ONLY <1>4, ReplyIsStruct DEF Kinds
    <2>2. ret \in Int
      OBVIOUS
    <2> QED
      BY ONLY <1>4, <1>6, <2>1, <2>2, NumberIsMsg
  <1>8. <<x>> \in Seq(Msgs)
    BY ONLY <1>7
  <1>9. /\ down' \in [Conns -> Seq(Msgs)] /\ \A c \in Conns : c # sv.comm => down'[c] = down[c]
        /\ cl.pc = "sending" => down'[cl.conn] = down[cl.conn] \o <<x>>
    BY ONLY SessionInv, <1>2, <1>5, <1>6, <1>8, AnswerDoes
  <1>10. /\ up' \in [Conns -> Seq(Msgs)] /\ \A c \in Conns : c # sv.comm => up'[c] = up[c]
         /\ Pending' = Pending /\ (Lost => ReadToEnd)
    BY <1>1, NothingRead
  <1>11. PathNext => sv.garbled = FALSE /\ CallServed(0)
    <2>1. SUFFICES ASSUME PathNext PROVE sv.garbled = FALSE /\ CallServed(0)
      OBVIOUS
    <2>2. /\ sv.id = cl.id /\ sv.type_op = cl.f.op /\ sv.garbled = FALSE /\ cl.pc \in {"sending", "dead"}
          /\ Handler[cl.f.op].reply = cl.f.reply
          /\ Pending = DataOf(cl.f, cl.size, cl.id)
          /\ cl.pc = "sending" => ran[cl.id] = 0 /\ down[cl.conn] = <<>>
      BY ONLY SessionInv, <1>1, <2>1, PathsRead
    <2>3. Pending' = <<>>
      BY ONLY <1>1, <1>10, <2>2 DEF DataOf
    <2>4. AfterJunk(Pending', <<>>, fault')
      BY ONLY <2>3, NothingPending
    <2>5. cl.f.op \notin {"READ", "WRITE"}
      BY ONLY <1>1, <2>2
    <2>6. cl.pc = "sending" => down'[cl.conn] = <<x>>
      <3>1. <<>> \o <<x>> = <<x>>
        BY ONLY <1>7
      <3> QED
        BY ONLY <1>9, <2>2, <3>1
    <2>7. ret \in Int /\ x = Item(cl.f.reply, ret, cl.id)
      BY ONLY <1>6, <2>2, ret \in {0, -1}
    <2> QED
      BY ONLY <2>2, <2>4, <2>5, <2>6, <2>7 DEF CallServed
  <1>12. RunEnds(0, sv.garbled)
    BY DEF Plain
  <1>13. fault \subseteq fault' /\ fault' \subseteq fault \union {"data_abandoned", "seek_failed"}
    BY ONLY <1>1
  <1>14. ReadToEnd \/ (sv.garbled = FALSE /\ CallServed(0))
    BY ONLY <1>3, <1>10, <1>11
  <1> QED
    BY <1>1, <1>2, <1>4, <1>9, <1>10, <1>12, <1>13, <1>14, RunEndsKeeps

\* The data of a write that nobody reads.
LEMMA DataIsJunk ==
  ASSUME NEW p \in Seq(Msgs), \A i \in 1 .. Len(p) : p[i].k = "data", NEW faults,
         p # <<>> => "data_abandoned" \in faults
  PROVE  AfterJunk(p, <<>>, faults)
  <1>1. p = p \o <<>>
    BY ONLY p \in Seq(Msgs)
  <1> QED
    BY <1>1 DEF AfterJunk

\* xpn_server_op_read and _write do not get the file open.
LEMMA OpenFileFailsKeeps == ASSUME SessionInv, OpenFileFails PROVE SessionInv'
  <1>1. /\ UNCHANGED <<keep, made, up, hung, cl>> /\ sv.pc = "path" /\ sv.need = <<>>
        /\ sv.type_op \in {"READ", "WRITE"}
        /\ fault' = IF sv.type_op = "WRITE" THEN Abandons(sv.size) ELSE fault
    BY DEF OpenFileFails
  <1>2. sv.pc \in AtWork
    BY ONLY <1>1 DEF AtWork
  <1>3. Lost \/ PathNext
    BY <1>1, <1>2, HandlerAt
  <1>4. sv.garbled \in BOOLEAN /\ sv.type_op \in DOMAIN Handler /\ sv.id \in Nat /\ 0 \in 0 .. MaxSize
    <2>1. sv \in ServerRecords /\ MaxSize \in Nat /\ sv.id \in Nat
      BY Known
    <2> QED
      BY ONLY <2>1 DEF ServerRecords
  <1>5. PICK x : x = RwReq(-1)
    OBVIOUS
  <1>6. x \in Msgs /\ x = Item(Handler[sv.type_op].reply, -1, sv.id)
    <2>1. Handler[sv.type_op].reply \in Kinds
      BY ONLY <1>4, ReplyIsStruct DEF Kinds
    <2>2. -1 \in Int
      OBVIOUS
    <2>3. x = Item(Handler[sv.type_op].reply, -1, sv.id)
      BY ONLY <1>5 DEF RwReq
    <2> QED
      BY ONLY <1>4, <2>1, <2>2, <2>3, NumberIsMsg
  <1>8. <<x>> \in Seq(Msgs)
    BY ONLY <1>6
  <1>7. Answer(<<x>>)
    BY <1>5 DEF OpenFileFails
  <1>9. /\ down' \in [Conns -> Seq(Msgs)] /\ \A c \in Conns : c # sv.comm => down'[c] = down[c]
        /\ cl.pc = "sending" => down'[cl.conn] = down[cl.conn] \o <<x>>
    BY ONLY SessionInv, <1>2, <1>7, <1>8, AnswerDoes
  <1>10. /\ up' \in [Conns -> Seq(Msgs)] /\ \A c \in Conns : c # sv.comm => up'[c] = up[c]
         /\ Pending' = Pending /\ (Lost => ReadToEnd)
    BY <1>1, NothingRead
  <1>11. PathNext => sv.garbled = FALSE /\ CallServed(0)
    <2>1. SUFFICES ASSUME PathNext PROVE sv.garbled = FALSE /\ CallServed(0)
      OBVIOUS
    <2>2. /\ sv.id = cl.id /\ sv.type_op = cl.f.op /\ sv.garbled = FALSE /\ cl.pc \in {"sending", "dead"}
          /\ sv.size = cl.size /\ (cl.f.op = "WRITE" => cl.size > 0)
          /\ Handler[cl.f.op].reply = cl.f.reply
          /\ cl.f.op \in {"READ", "WRITE"} => cl.f.reply = "rw_req"
          /\ Pending = DataOf(cl.f, cl.size, cl.id)
          /\ cl.pc = "sending" => ran[cl.id] = 0 /\ cl.cont = 0 /\ down[cl.conn] = <<>>
      BY ONLY SessionInv, <1>1, <2>1, PathsRead
    <2>3. cl.size \in 0 .. MaxSize /\ cl.id \in Nat
      BY Known
    <2>4. AfterJunk(Pending', <<>>, fault')
      <3>1. CASE cl.f.op = "WRITE"
        <4>1. PICK p : p = SentData(cl.size, cl.id)
          OBVIOUS
        <4>2. /\ p \in Seq(Msgs) /\ Len(p) = Pieces(cl.size) /\ \A i \in 1 .. Pieces(cl.size) : p[i].k = "data"
          BY ONLY <2>3, <4>1, DataItems
        <4>3. "data_abandoned" \in fault'
          BY ONLY <1>1, <2>2, <3>1 DEF Abandons
        <4>4. Pending' = p
          BY ONLY <1>10, <2>2, <3>1, <4>1 DEF DataOf
        <4>5. AfterJunk(p, <<>>, fault')
          BY ONLY <4>2, <4>3, DataIsJunk
        <4> QED
          BY ONLY <4>4, <4>5
      <3>2. CASE cl.f.op # "WRITE"
        <4>1. Pending' = <<>>
          BY ONLY <1>10, <2>2, <3>2 DEF DataOf
        <4> QED
          BY ONLY <4>1, NothingPending
      <3> QED
        BY ONLY <3>1, <3>2
    <2>5. cl.f.op \in {"READ", "WRITE"} /\ x = Item("rw_req", -1, cl.id) /\ cl.f.reply = "rw_req"
      BY ONLY <1>1, <1>6, <2>2
    <2>6. cl.pc = "sending" => down'[cl.conn] = <<>> \o <<x>>
      BY ONLY <1>9, <2>2
    <2>7. ReadAnswer(<<>> \o <<x>>, 0, cl.size, cl.id, 1)
      <3>1. PICK z \in 0 .. MaxSize, a \in 0 .. MaxSize, i \in Nat : z = cl.size /\ a = 0 /\ a <= z /\ i = cl.id
        BY ONLY <1>4, <2>3
      <3>2. OpenAnswer(<<>>, a, z, i, a)
        BY ONLY <3>1, z \in 0 .. MaxSize, a \in 0 .. MaxSize, NoChunks
      <3>3. PICK v \in {0, -1} : v = -1
        OBVIOUS
      <3>4. x = Item("rw_req", v, i) /\ (a > 0 => a < z) /\ <<>> \in Seq(Msgs)
        BY ONLY <2>5, <3>1, <3>3
      <3>5. ReadAnswer(<<>> \o <<x>>, a, z, i, 1)
        BY ONLY <3>2, <3>4, z \in 0 .. MaxSize, i \in Nat, v \in {0, -1}, EndsWithStatus
      <3> QED
        BY ONLY <3>1, <3>5
    <2>8. <<>> \o <<x>> = <<x>> /\ -1 \in Int /\ ~(-1 >= 0)
      BY ONLY <1>6
    <2> QED
      BY ONLY <2>2, <2>4, <2>5, <2>6, <2>7, <2>8 DEF CallServed
  <1>12. RunEnds(0, sv.garbled)
    BY DEF OpenFileFails
  <1>13. fault \subseteq fault' /\ fault' \subseteq fault \union {"data_abandoned", "seek_failed"}
    BY ONLY <1>1 DEF Abandons
  <1>14. ReadToEnd \/ (sv.garbled = FALSE /\ CallServed(0))
    BY ONLY <1>3, <1>10, <1>11
  <1> QED
    BY <1>1, <1>2, <1>4, <1>9, <1>10, <1>12, <1>13, <1>14, RunEndsKeeps

\* xpn_server_op_read at work.
LEMMA ReadingFacts ==
  ASSUME SessionInv, sv.pc = "READ", Reading
  PROVE  /\ sv.id = cl.id /\ sv.type_op = "READ" /\ cl.f.op = "READ" /\ sv.garbled = FALSE /\ cl.pc \in {"sending", "dead"}
         /\ sv.size = cl.size /\ Pending = <<>> /\ (sv.cont > 0 => sv.cont < cl.size) /\ Handler[sv.type_op].reply = "rw_req"
         /\ cl.pc = "sending" => ran[cl.id] = 0 /\ OpenAnswer(down[cl.conn], cl.cont, cl.size, cl.id, sv.cont)
  <1>1. /\ sv.id = cl.id /\ sv.type_op = "READ" /\ cl.f.op = "READ" /\ sv.garbled = FALSE /\ cl.pc \in {"sending", "dead"}
        /\ sv.size = cl.size /\ Pending = <<>> /\ (sv.cont > 0 => sv.cont < cl.size)
        /\ cl.pc = "sending" => ran[cl.id] = 0 /\ OpenAnswer(down[cl.conn], cl.cont, cl.size, cl.id, sv.cont)
    BY ONLY Reading DEF Reading, Serving
  <1>2. cl.f \in ClientFunctions
    <2>1. cl \in ClientRecords
      BY Known
    <2> QED
      BY ONLY <2>1 DEF ClientRecords
  <1>3. Handler[cl.f.op].reply = cl.f.reply /\ cl.f.reply = "rw_req"
    BY ONLY <1>1, <1>2, TablesAgree
  <1> QED
    BY ONLY <1>1, <1>3

LEMMA ReadPieceKeeps == ASSUME SessionInv, ReadPiece PROVE SessionInv'
  <1>1. UNCHANGED <<keep, made, up, hung, cl, fault>> /\ sv.pc = "READ"
    BY DEF ReadPiece
  <1>2. sv.pc \in AtWork
    BY ONLY <1>1 DEF AtWork
  <1>3. /\ Lost \/ Reading
        /\ sv.comm = cl.conn /\ sv.comm # 0 /\ sv.comm \in Conns /\ sv.comm \notin freed /\ sv.pc # "dead" /\ sv.id <= cl.id
    BY <1>1, <1>2, HandlerAt
  <1>4. /\ sv.garbled \in BOOLEAN /\ sv.type_op \in DOMAIN Handler /\ sv.id \in Nat /\ 0 \in 0 .. MaxSize
        /\ sv.cont \in 0 .. MaxSize /\ sv.size \in 0 .. MaxSize /\ MaxSize \in Nat
        /\ cl.size \in 0 .. MaxSize /\ cl.id \in Nat
    <2>1. sv \in ServerRecords /\ MaxSize \in Nat /\ sv.id \in Nat /\ cl.size \in 0 .. MaxSize /\ cl.id \in Nat
      BY Known
    <2> QED
      BY ONLY <2>1 DEF ServerRecords
  <1>5. sv.cont <= sv.size
    BY Known DEF SessionType
  <1>6. /\ up' \in [Conns -> Seq(Msgs)] /\ \A c \in Conns : c # sv.comm => up'[c] = up[c]
        /\ Pending' = Pending /\ (Lost => ReadToEnd)
    BY <1>1, NothingRead
  <1>7. \A v \in Int : RwReq(v) \in Msgs
    <2>1. Handler[sv.type_op].reply \in Kinds
      BY ONLY <1>4, ReplyIsStruct DEF Kinds
    <2>2. TAKE v \in Int
    <2> QED
      BY ONLY <1>4, <2>1, v \in Int, NumberIsMsg DEF RwReq
  <1>8. fault \subseteq fault' /\ fault' \subseteq fault \union {"data_abandoned", "seek_failed"}
    BY ONLY <1>1
  \* With an error, or no bytes.
  <1>9. ASSUME NEW v \in {0, -1}, Answer(<<RwReq(v)>>), RunEnds(0, sv.garbled) PROVE SessionInv'
    <2>1. PICK x \in Msgs : x = RwReq(v)
      BY ONLY <1>7, v \in {0, -1}
    <2>2. <<x>> \in Seq(Msgs)
      BY ONLY x \in Msgs
    <2>3. Answer(<<x>>)
      BY ONLY <1>9, <2>1
    <2>4. /\ down' \in [Conns -> Seq(Msgs)] /\ (\A c \in Conns : c # sv.comm => down'[c] = down[c])
          /\ down[cl.conn] \in Seq(Msgs)
          /\ cl.pc = "sending" => down'[cl.conn] = down[cl.conn] \o <<x>>
      BY ONLY SessionInv, <1>2, <2>2, <2>3, AnswerDoes
    <2>5. ASSUME Reading PROVE sv.garbled = FALSE /\ CallServed(0)
      <3>1. /\ sv.id = cl.id /\ sv.type_op = "READ" /\ cl.f.op = "READ" /\ sv.garbled = FALSE /\ cl.pc \in {"sending", "dead"}
            /\ sv.size = cl.size /\ Pending = <<>> /\ (sv.cont > 0 => sv.cont < cl.size) /\ Handler[sv.type_op].reply = "rw_req"
            /\ cl.pc = "sending" => ran[cl.id] = 0 /\ OpenAnswer(down[cl.conn], cl.cont, cl.size, cl.id, sv.cont)
        BY ONLY SessionInv, <1>1, <2>5, ReadingFacts
      <3>2. AfterJunk(Pending', <<>>, fault')
        BY ONLY <1>6, <3>1, NothingPending
      <3>3. ASSUME cl.pc = "sending" PROVE ReadAnswer(down'[cl.conn], cl.cont, cl.size, cl.id, 1)
        <4>1. PICK d \in Seq(Msgs), z \in 0 .. MaxSize, i \in Nat : d = down[cl.conn] /\ z = cl.size /\ i = cl.id
          BY ONLY <1>4, <2>4
        <4>2. PICK a, u : a = cl.cont /\ u = sv.cont
          OBVIOUS
        <4>3. OpenAnswer(d, a, z, i, u) /\ (u > 0 => u < z) /\ x = Item("rw_req", v, i)
          BY ONLY <2>1, <3>1, <3>3, <4>1, <4>2 DEF RwReq
        <4>4. ReadAnswer(d \o <<x>>, a, z, i, 1)
          BY ONLY <4>3, d \in Seq(Msgs), z \in 0 .. MaxSize, i \in Nat, v \in {0, -1}, EndsWithStatus
        <4> QED
          BY ONLY <2>4, <3>3, <4>1, <4>2, <4>4
      <3> QED
        BY ONLY <3>1, <3>2, <3>3 DEF CallServed
    <2>6. ReadToEnd \/ (sv.garbled = FALSE /\ CallServed(0))
      BY ONLY <1>3, <1>6, <2>5
    <2> QED
      BY <1>1, <1>2, <1>4, <1>6, <1>8, <1>9, <2>4, <2>6, RunEndsKeeps
  <1>10. ASSUME NEW n \in 0 .. ToRead, n # 0, Answer(<<RwReq(n)>> \o <<Item("data", n, sv.id)>>),
                IF sv.size - (sv.cont + n) > 0
                THEN sv' = [sv EXCEPT !.cont = @ + n] /\ UNCHANGED <<ran, written, freed>>
                ELSE RunEnds(0, sv.garbled)
         PROVE  SessionInv'
    <2>1. n \in Nat \ {0} /\ sv.cont + n <= sv.size /\ sv.cont + n \in 0 .. MaxSize
      <3>1. PICK b \in Nat, c \in 0 .. MaxSize, z \in 0 .. MaxSize : b = MaxBuffer /\ c = sv.cont /\ z = sv.size
        BY ONLY <1>4, SessionAssumption
      <3>2. z \in Int /\ z - c \in Int /\ b \in Int
        BY ONLY b \in Nat, c \in 0 .. MaxSize, z \in 0 .. MaxSize, SessionAssumption
      <3>3. Min({b, z, z - c}) = IF b <= z /\ b <= z - c THEN b ELSE IF z <= z - c THEN z ELSE z - c
        BY ONLY <3>2, MinOfThree
      <3>4. n \in 0 .. Min({b, z, z - c})
        BY ONLY <3>1, n \in 0 .. ToRead DEF ToRead
      <3>5. n \in Nat \ {0} /\ c + n <= z
        BY ONLY <1>10, <3>3, <3>4, b \in Nat, c \in 0 .. MaxSize, z \in 0 .. MaxSize, SessionAssumption
      <3> QED
        BY ONLY <1>4, <3>1, <3>5
    <2>2. PICK x \in Msgs, y \in Msgs : x = RwReq(n) /\ y = Item("data", n, sv.id)
      <3>1. n \in Int
        BY ONLY <2>1
      <3>2. Item("data", n, sv.id) \in Msgs
        BY ONLY <1>4, <3>1, AnswerItem
      <3> QED
        BY ONLY <1>7, <3>1, <3>2
    <2>3. <<x, y>> \in Seq(Msgs) /\ <<x>> \o <<y>> = <<x, y>>
      <3>1. <<x, y>> \in Seq(Msgs)
        BY ONLY x \in Msgs, y \in Msgs
      <3> QED
        BY ONLY <3>1, x \in Msgs, y \in Msgs, TwoItems
    <2>4. Answer(<<x, y>>)
      BY ONLY <1>10, <2>2, <2>3
    <2>5. /\ down' \in [Conns -> Seq(Msgs)] /\ (\A c \in Conns : c # sv.comm => down'[c] = down[c])
          /\ down[cl.conn] \in Seq(Msgs)
          /\ cl.pc = "sending" => down'[cl.conn] = down[cl.conn] \o <<x, y>>
      BY ONLY SessionInv, <1>2, <2>3, <2>4, AnswerDoes
    <2>6. PICK t \in 0 .. MaxSize : t = sv.cont + n /\ t <= sv.size /\ t > 0
      BY ONLY <1>4, <2>1
    <2>7. ASSUME Reading
          PROVE  /\ sv.id = cl.id /\ cl.f.op = "READ" /\ sv.garbled = FALSE /\ cl.pc \in {"sending", "dead"}
                 /\ sv.size = cl.size /\ Pending = <<>> /\ sv.type_op = "READ"
                 /\ cl.pc = "sending" => ran[cl.id] = 0 /\ OpenAnswer(down'[cl.conn], cl.cont, cl.size, cl.id, t)
      <3>1. /\ sv.id = cl.id /\ sv.type_op = "READ" /\ cl.f.op = "READ" /\ sv.garbled = FALSE /\ cl.pc \in {"sending", "dead"}
            /\ sv.size = cl.size /\ Pending = <<>> /\ Handler[sv.type_op].reply = "rw_req"
            /\ cl.pc = "sending" => ran[cl.id] = 0 /\ OpenAnswer(down[cl.conn], cl.cont, cl.size, cl.id, sv.cont)
        BY ONLY SessionInv, <1>1, <2>7, ReadingFacts
      <3>2. ASSUME cl.pc = "sending" PROVE OpenAnswer(down'[cl.conn], cl.cont, cl.size, cl.id, t)
        <4>1. PICK d \in Seq(Msgs), z \in 0 .. MaxSize, i \in Nat, u \in 0 .. MaxSize, k \in Nat \ {0} :
                d = down[cl.conn] /\ z = cl.size /\ i = cl.id /\ u = sv.cont /\ k = n
          BY ONLY <1>4, <2>1, <2>5
        <4>2. PICK a : a = cl.cont
          OBVIOUS
        <4>3. OpenAnswer(d, a, z, i, u) /\ u + k <= z /\ x = Item("rw_req", k, i) /\ y = Item("data", k, i)
          BY ONLY <2>1, <2>2, <3>1, <3>2, <4>1, <4>2 DEF RwReq
        <4>4. OpenAnswer(d \o <<x, y>>, a, z, i, u + k)
          BY ONLY <4>3, d \in Seq(Msgs), z \in 0 .. MaxSize, i \in Nat, u \in 0 .. MaxSize, k \in Nat \ {0}, MoreChunk
        <4> QED
          BY ONLY <2>5, <2>6, <3>2, <4>1, <4>2, <4>4
      <3> QED
        BY ONLY <3>1, <3>2
    <2>8. CASE sv.size - (sv.cont + n) > 0
      <3>1. sv' = [sv EXCEPT !.cont = t] /\ UNCHANGED <<ran, written, freed>> /\ sv \in ServerRecords
        <4>1. sv \in ServerRecords
          BY Known
        <4> QED
          BY ONLY <1>10, <2>6, <2>8, <4>1
      <3>2. /\ sv' \in ServerRecords /\ sv'.pc = "READ" /\ sv'.comm = sv.comm /\ sv'.type_op = sv.type_op
            /\ sv'.id = sv.id /\ sv'.size = sv.size /\ sv'.cont = t /\ sv'.garbled = sv.garbled
        BY ONLY <1>1, <3>1, t \in 0 .. MaxSize DEF ServerRecords
      <3>3. /\ sv'.pc = "READ" /\ sv'.comm = sv.comm /\ sv'.type_op = sv.type_op
            /\ sv'.id = sv.id /\ sv'.size = sv.size /\ sv'.cont = t /\ sv'.garbled = sv.garbled
        BY ONLY <3>2
      <3>4. t < sv.size
        BY ONLY <1>4, <2>6, <2>8
      <3>5. UNCHANGED <<keep, made, up, hung, cl, fault, ran, written, freed>>
        BY ONLY <1>1, <3>1
      <3>6. Phase'
        <4>1. CASE Lost
          <5>1. Lost'
            BY ONLY <3>5, <4>1 DEF Lost
          <5> QED
            BY ONLY <5>1 DEF Phase
        <4>2. CASE Reading
          <5>1. Reading'
            BY ONLY <1>3, <1>6, <2>7, <3>3, <3>4, <3>5, <4>2 DEF Reading, Serving
          <5> QED
            BY ONLY <5>1 DEF Phase
        <4> QED
          BY ONLY <1>3, <4>1, <4>2
      <3>7. Answers'
        <4>0. ClientConns /\ Answers
          BY Known
        <4>1. cl.pc \in {"sending", "dead"}
          <5>1. Lost => cl.pc = "dead"
            BY ONLY <4>0 DEF Lost, ClientConns
          <5> QED
            BY ONLY <1>3, <2>7, <5>1
        <4>2. ASSUME cl.pc = "sending" PROVE cl.f.op = "READ" /\ ReadAnswer(down'[cl.conn], cl.cont, cl.size, cl.id, ran[cl.id])
          <5>1. Reading
            BY ONLY <1>3, <4>0, <4>2 DEF Lost, ClientConns
          <5>2. t # cl.size /\ cl.f.op = "READ" /\ OpenAnswer(down'[cl.conn], cl.cont, cl.size, cl.id, t)
            BY ONLY <2>7, <3>4, <4>2, <5>1, <1>4, t \in 0 .. MaxSize
          <5>3. PICK d, a, z, i, r : d = down'[cl.conn] /\ a = cl.cont /\ z = cl.size /\ i = cl.id /\ r = ran[cl.id]
            OBVIOUS
          <5>4. OpenAnswer(d, a, z, i, t) /\ t # z
            BY ONLY <5>2, <5>3
          <5>5. ReadAnswer(d, a, z, i, r)
            BY ONLY <5>4, IsReadAnswer
          <5> QED
            BY ONLY <5>2, <5>3, <5>5
        <4> QED
          BY ONLY <3>5, <4>0, <4>1, <4>2 DEF Answers, WriteOkMeansWritten
      <3>8. /\ sv'.cont <= sv'.size /\ sv'.id <= cl.id /\ sv'.pc \in AtWork \union {"op", "astray", "done"}
            /\ sv'.pc \in {"op", "head", "path"} => sv'.cont = 0
            /\ sv'.pc = "op" => sv'.garbled = FALSE
        BY ONLY <1>3, <2>6, <3>3 DEF AtWork
      <3>9. ran' \in [0 .. MaxRequests -> 0 .. 2] /\ written' \in [Calls -> 0 .. MaxSize]
        BY <3>5, Known DEF SessionType
      <3> QED
        BY <1>3, <1>6, <2>5, <3>2, <3>5, <3>6, <3>7, <3>8, <3>9, HandlerStep
    <2>9. CASE ~(sv.size - (sv.cont + n) > 0)
      <3>1. RunEnds(0, sv.garbled) /\ t = sv.size
        <4>1. t = sv.size
          BY ONLY <1>4, <2>6, <2>9
        <4> QED
          BY ONLY <1>10, <2>9, <4>1
      <3>2. ASSUME Reading PROVE sv.garbled = FALSE /\ CallServed(0)
        <4>1. /\ sv.id = cl.id /\ cl.f.op = "READ" /\ sv.garbled = FALSE /\ cl.pc \in {"sending", "dead"}
              /\ sv.size = cl.size /\ Pending = <<>>
              /\ cl.pc = "sending" => ran[cl.id] = 0 /\ OpenAnswer(down'[cl.conn], cl.cont, cl.size, cl.id, t)
          BY ONLY <2>7, <3>2
        <4>2. AfterJunk(Pending', <<>>, fault')
          BY ONLY <1>6, <4>1, NothingPending
        <4>3. ASSUME cl.pc = "sending" PROVE ReadAnswer(down'[cl.conn], cl.cont, cl.size, cl.id, 1)
          <5>1. PICK d, a, z, i, r : d = down'[cl.conn] /\ a = cl.cont /\ z = cl.size /\ i = cl.id /\ r = 1
            OBVIOUS
          <5>2. OpenAnswer(d, a, z, i, t)
            BY ONLY <4>1, <4>3, <5>1
          <5>3. ReadAnswer(d, a, z, i, r)
            BY ONLY <5>1, <5>2, IsReadAnswer
          <5> QED
            BY ONLY <5>1, <5>3
        <4> QED
          BY ONLY <4>1, <4>2, <4>3 DEF CallServed
      <3>3. ReadToEnd \/ (sv.garbled = FALSE /\ CallServed(0))
        BY ONLY <1>3, <1>6, <3>2
      <3> QED
        BY <1>1, <1>2, <1>4, <1>6, <1>8, <2>5, <3>1, <3>3, RunEndsKeeps
    <2> QED
      BY ONLY <2>8, <2>9
  <1>11. CASE Answer(<<RwReq(-1)>>) /\ RunEnds(0, sv.garbled)
    <2>1. -1 \in {0, -1}
      OBVIOUS
    <2> QED
      BY ONLY <1>9, <1>11, <2>1
  <1>12. ASSUME NEW n \in 0 .. ToRead,
                Answer(<<RwReq(n)>> \o (IF n > 0 THEN <<Item("data", n, sv.id)>> ELSE <<>>)),
                IF sv.size - (sv.cont + n) > 0 /\ n # 0
                THEN sv' = [sv EXCEPT !.cont = @ + n] /\ UNCHANGED <<ran, written, freed>>
                ELSE RunEnds(0, sv.garbled)
         PROVE  SessionInv'
    <2>1. CASE n = 0
      <3>1. PICK x \in Msgs : x = RwReq(n)
        BY ONLY <1>7, <2>1
      <3>2. <<x>> \o <<>> = <<x>>
        BY ONLY x \in Msgs
      <3>3. Answer(<<RwReq(0)>>)
        BY ONLY <1>12, <2>1, <3>1, <3>2
      <3>4. RunEnds(0, sv.garbled)
        BY ONLY <1>12, <2>1
      <3>5. 0 \in {0, -1}
        OBVIOUS
      <3> QED
        BY ONLY <1>9, <3>3, <3>4, <3>5
    <2>2. CASE n # 0
      <3>1. n > 0
        BY ONLY <2>2, n \in 0 .. ToRead
      <3>2. Answer(<<RwReq(n)>> \o <<Item("data", n, sv.id)>>)
        BY ONLY <1>12, <3>1
      <3>3. IF sv.size - (sv.cont + n) > 0
            THEN sv' = [sv EXCEPT !.cont = @ + n] /\ UNCHANGED <<ran, written, freed>>
            ELSE RunEnds(0, sv.garbled)
        BY ONLY <1>12, <2>2
      <3> QED
        BY ONLY <1>10, <2>2, <3>2, <3>3, n \in 0 .. ToRead
    <2> QED
      BY ONLY <2>1, <2>2
  <1> QED
    BY ONLY <1>11, <1>12, ReadPiece DEF ReadPiece

-----------------------------------------------------------------------------
(* xpn_server_op_write.                                                      *)

\* What is left of a sequence after its first k elements.
IsRest(q, s, k) ==
  q \in Seq(Msgs) /\ Len(q) = (IF k < Len(s) THEN Len(s) - k ELSE 0) /\ \A i \in 1 .. Len(q) : q[i] = s[k + i]
LEMMA RestOf ==
  ASSUME NEW s \in Seq(Msgs), NEW k \in Nat, NEW q, q = SubSeq(s, k + 1, Len(s))
  PROVE  IsRest(q, s, k)
  <1>1. Len(s) \in Nat /\ k + 1 \in Int /\ Len(s) \in Int /\ \A i \in (k + 1) .. Len(s) : s[i] \in Msgs
    OBVIOUS
  <1>2. /\ q \in Seq(Msgs) /\ Len(q) = IF k + 1 <= Len(s) THEN Len(s) - (k + 1) + 1 ELSE 0
        /\ \A i \in 1 .. Len(s) - (k + 1) + 1 : q[i] = s[(k + 1) + i - 1]
    BY ONLY <1>1, q = SubSeq(s, k + 1, Len(s)), SubSeqProperties
  <1>3. PICK n \in Nat : n = Len(s)
    BY ONLY <1>1
  <1>4. Len(q) = IF k < n THEN n - k ELSE 0
    BY ONLY <1>2, <1>3, k \in Nat
  <1>5. \A i \in 1 .. Len(q) : i \in 1 .. (n - (k + 1) + 1) /\ (k + 1) + i - 1 = k + i
    BY ONLY <1>4, k \in Nat, n \in Nat
  <1>6. \A i \in 1 .. Len(q) : q[i] = s[k + i]
    BY ONLY <1>2, <1>3, <1>5
  <1> QED
    BY ONLY <1>2, <1>3, <1>4, <1>6 DEF IsRest

LEMMA RestAfterOne ==
  ASSUME NEW s \in Seq(Msgs), NEW k \in Nat, k < Len(s), NEW q, NEW r, IsRest(q, s, k), IsRest(r, s, k + 1)
  PROVE  q # <<>> /\ Head(q) = s[k + 1] /\ Tail(q) = r
  <1>1. PICK n \in Nat : n = Len(s) /\ k < n
    OBVIOUS
  <1>2. q \in Seq(Msgs) /\ Len(q) = n - k /\ \A i \in 1 .. Len(q) : q[i] = s[k + i]
    BY ONLY <1>1, IsRest(q, s, k) DEF IsRest
  <1>3. r \in Seq(Msgs) /\ Len(r) = n - (k + 1) /\ \A i \in 1 .. Len(r) : r[i] = s[(k + 1) + i]
    <2>1. r \in Seq(Msgs) /\ Len(r) = (IF k + 1 < n THEN n - (k + 1) ELSE 0) /\ \A i \in 1 .. Len(r) : r[i] = s[(k + 1) + i]
      BY ONLY <1>1, IsRest(r, s, k + 1) DEF IsRest
    <2>2. (IF k + 1 < n THEN n - (k + 1) ELSE 0) = n - (k + 1)
      BY ONLY <1>1, k \in Nat, n \in Nat
    <2> QED
      BY ONLY <2>1, <2>2
  <1>4. q # <<>> /\ Head(q) = q[1] /\ 1 \in 1 .. Len(q) /\ Len(r) = Len(q) - 1
    BY ONLY <1>1, <1>2, <1>3, k \in Nat, n \in Nat
  <1>5. \A i \in 1 .. Len(r) : r[i] = q[i + 1]
    <2>1. \A i \in 1 .. Len(r) : i + 1 \in 1 .. Len(q) /\ (k + 1) + i = k + (i + 1)
      BY ONLY <1>1, <1>2, <1>3, k \in Nat, n \in Nat
    <2> QED
      BY ONLY <1>2, <1>3, <2>1
  <1>6. Tail(q) = r
    BY ONLY <1>2, <1>3, <1>4, <1>5, TailIs
  <1> QED
    BY ONLY <1>2, <1>4, <1>6

\* The write that is served, of which j pieces have been read.
AtPiece(j) ==
  /\ sv.id = cl.id /\ sv.type_op = "WRITE" /\ cl.f.op = "WRITE" /\ sv.garbled = FALSE /\ cl.pc \in {"sending", "dead"}
  /\ sv.size = cl.size /\ Handler[sv.type_op].reply = "rw_req" /\ cl.f.reply = "rw_req"
  /\ sv.cont = j * MaxBuffer /\ sv.cont < cl.size
  /\ cl.pc = "sending" => ran[cl.id] = 0 /\ cl.cont = 0 /\ down[cl.conn] = <<>>
LEMMA WritingFacts ==
  ASSUME SessionInv, Writing
  PROVE  \E j \in Nat : AtPiece(j) /\ IsRest(Pending, SentData(cl.size, cl.id), j)
  <1>1. /\ sv.id = cl.id /\ sv.type_op = "WRITE" /\ cl.f.op = "WRITE" /\ sv.garbled = FALSE /\ cl.pc \in {"sending", "dead"}
        /\ sv.size = cl.size
        /\ cl.pc = "sending" => ran[cl.id] = 0 /\ cl.cont = 0 /\ down[cl.conn] = <<>>
    BY ONLY Writing DEF Writing, Serving, NotRun
  <1>2. PICK j \in Nat : /\ sv.cont = j * MaxBuffer /\ sv.cont < sv.size
                         /\ Pending = SubSeq(SentData(cl.size, cl.id), j + 1, Pieces(cl.size))
    BY ONLY Writing DEF Writing
  <1>3. cl.f \in ClientFunctions /\ cl.size \in 0 .. MaxSize /\ cl.id \in Nat
    <2>1. cl \in ClientRecords /\ cl.id \in Nat
      BY Known
    <2>2. cl.f \in ClientFunctions /\ cl.size \in 0 .. MaxSize
      BY ONLY <2>1 DEF ClientRecords
    <2> QED
      BY ONLY <2>1, <2>2
  <1>4. Handler[cl.f.op].reply = cl.f.reply /\ cl.f.reply = "rw_req"
    BY ONLY <1>1, <1>3, TablesAgree
  <1>5. PICK s \in Seq(Msgs) : s = SentData(cl.size, cl.id) /\ Len(s) = Pieces(cl.size)
    BY ONLY <1>3, DataItems
  <1>6. IsRest(Pending, s, j)
    <2>1. Pending = SubSeq(s, j + 1, Len(s))
      BY ONLY <1>2, <1>5
    <2> QED
      BY ONLY <2>1, s \in Seq(Msgs), j \in Nat, RestOf
  <1>7. AtPiece(j)
    BY ONLY <1>1, <1>2, <1>4 DEF AtPiece
  <1> QED
    BY ONLY <1>5, <1>6, <1>7, j \in Nat

\* A piece of it has been read.
PieceRead(j) == AtPiece(j) /\ IsRest(Pending', SentData(cl.size, cl.id), j + 1)

\* How many bytes the server asks for.
LEMMA ToWriteIs ==
  ASSUME SessionInv
  PROVE  /\ ToWrite = (IF MaxBuffer <= sv.size - sv.cont THEN MaxBuffer ELSE sv.size - sv.cont)
         /\ ToWrite \in Nat /\ sv.cont + ToWrite \in 0 .. MaxSize /\ sv.cont + ToWrite <= sv.size
         /\ sv.cont \in 0 .. MaxSize /\ sv.size \in 0 .. MaxSize /\ MaxSize \in Nat
         /\ sv.cont < sv.size => ToWrite > 0
  <1>1. sv \in ServerRecords /\ sv.cont <= sv.size /\ MaxSize \in Nat
    BY Known DEF SessionType
  <1>2. PICK c \in 0 .. MaxSize, z \in 0 .. MaxSize, b \in Nat \ {0} : c = sv.cont /\ z = sv.size /\ b = MaxBuffer /\ c <= z
    <2>1. sv.cont \in 0 .. MaxSize /\ sv.size \in 0 .. MaxSize
      BY ONLY <1>1 DEF ServerRecords
    <2> QED
      BY ONLY <1>1, <2>1, SessionAssumption
  <1>3. b \in Int /\ z - c \in Int
    BY ONLY <1>1, b \in Nat \ {0}, c \in 0 .. MaxSize, z \in 0 .. MaxSize
  <1>4. Min({b, z - c}) = IF b <= z - c THEN b ELSE z - c
    BY ONLY <1>3, MinOfTwo
  <1>5. PICK w : w = Min({b, z - c})
    OBVIOUS
  <1>6. w \in Nat /\ c + w \in 0 .. MaxSize /\ c + w <= z /\ (c < z => w > 0)
    BY ONLY <1>1, <1>2, <1>4, <1>5, b \in Nat \ {0}, c \in 0 .. MaxSize, z \in 0 .. MaxSize
  <1>7. ToWrite = w
    BY ONLY <1>2, <1>5 DEF ToWrite
  <1>8. w = IF b <= z - c THEN b ELSE z - c
    BY ONLY <1>4, <1>5
  <1> QED
    BY ONLY <1>1, <1>2, <1>6, <1>7, <1>8, c \in 0 .. MaxSize, z \in 0 .. MaxSize

LEMMA PieceArrivesDoes ==
  ASSUME SessionInv, sv.pc = "WRITE", PieceArrives, UNCHANGED cl
  PROVE  /\ up' \in [Conns -> Seq(Msgs)] /\ \A c \in Conns : c # sv.comm => up'[c] = up[c]
         /\ ReadToEnd \/ \E j \in Nat : PieceRead(j)
  <1>1. sv.pc \in AtWork
    BY DEF AtWork
  <1>2. sv.comm = cl.conn /\ sv.comm \in Conns /\ (Lost \/ Writing)
    BY <1>1, HandlerAt
  <1>3. CASE ToWrite = 0 /\ up' = up
    <2>1. ~Writing
      <3>1. ASSUME Writing PROVE FALSE
        <4>1. sv.cont < sv.size
          BY ONLY <3>1 DEF Writing
        <4>2. ToWrite > 0
          BY ONLY <4>1, SessionInv, ToWriteIs
        <4> QED
          BY ONLY <1>3, <4>2
      <3> QED
        BY ONLY <3>1
    <2>2. /\ up' \in [Conns -> Seq(Msgs)] /\ (\A c \in Conns : c # sv.comm => up'[c] = up[c]) /\ (Lost => ReadToEnd)
      BY <1>3, NothingRead
    <2> QED
      BY ONLY <1>2, <2>1, <2>2
  <1>4. CASE up[sv.comm] # <<>> /\ up' = Taken
    <2>1. /\ Pending \in Seq(Msgs) /\ Pending # <<>>
          /\ up' \in [Conns -> Seq(Msgs)] /\ Pending' = Tail(Pending)
          /\ \A c \in Conns : c # sv.comm => up'[c] = up[c]
      BY <1>2, <1>4, TakeNext
    <2>2. Writing
      BY ONLY <1>2, <1>4 DEF Lost
    <2>3. PICK j \in Nat : AtPiece(j) /\ IsRest(Pending, SentData(cl.size, cl.id), j)
      BY ONLY SessionInv, <2>2, WritingFacts
    <2>4. PICK s \in Seq(Msgs) : s = SentData(cl.size, cl.id)
      <3>1. cl.size \in 0 .. MaxSize /\ cl.id \in Nat
        BY Known
      <3> QED
        BY ONLY <3>1, DataItems
    <2>5. PICK q, r : q = Pending /\ r = SubSeq(s, (j + 1) + 1, Len(s))
      OBVIOUS
    <2>6. IsRest(q, s, j)
      BY ONLY <2>3, <2>4, <2>5
    <2>7. IsRest(r, s, j + 1)
      <3>1. j + 1 \in Nat
        OBVIOUS
      <3> QED
        BY ONLY <2>5, <3>1, s \in Seq(Msgs), RestOf
    <2>8. j < Len(s)
      <3>1. q # <<>> /\ q \in Seq(Msgs)
        BY ONLY <2>1, <2>5
      <3>2. Len(q) # 0
        BY ONLY <3>1
      <3> QED
        BY ONLY <2>6, <3>2 DEF IsRest
    <2>9. Tail(q) = r
      BY ONLY <2>6, <2>7, <2>8, s \in Seq(Msgs), j \in Nat, RestAfterOne
    <2>10. PieceRead(j)
      BY ONLY <2>1, <2>3, <2>4, <2>5, <2>7, <2>9 DEF PieceRead
    <2> QED
      BY ONLY <2>1, <2>10, j \in Nat
  <1> QED
    BY ONLY <1>3, <1>4, PieceArrives DEF PieceArrives

\* What follows the piece: nothing after the last one, else the rest of the data.
PieceFits(j) ==
  /\ sv.cont + ToWrite < sv.size => sv.cont + ToWrite = (j + 1) * MaxBuffer
  /\ sv.cont + ToWrite >= sv.size => sv.cont + ToWrite = cl.size /\ Pending' = <<>>
  /\ Pending' \in Seq(Msgs) /\ \A i \in 1 .. Len(Pending') : Pending'[i].k = "data"
LEMMA AfterPiece ==
  ASSUME SessionInv, NEW j \in Nat, PieceRead(j)
  PROVE  PieceFits(j)
  <1>1. AtPiece(j) /\ IsRest(Pending', SentData(cl.size, cl.id), j + 1)
    BY DEF PieceRead
  <1>2. cl.size \in 0 .. MaxSize /\ cl.id \in Nat
    BY Known
  <1>3. PICK s \in Seq(Msgs) : /\ s = SentData(cl.size, cl.id) /\ Len(s) = Pieces(cl.size)
                               /\ \A i \in 1 .. Pieces(cl.size) : s[i].k = "data"
    BY ONLY <1>2, DataItems
  <1>4. PICK q : q = Pending'
    OBVIOUS
  <1>5. /\ q \in Seq(Msgs) /\ Len(q) = (IF j + 1 < Len(s) THEN Len(s) - (j + 1) ELSE 0)
        /\ \A i \in 1 .. Len(q) : q[i] = s[(j + 1) + i]
    BY ONLY <1>1, <1>3, <1>4 DEF IsRest
  <1>6. \A i \in 1 .. Len(q) : q[i].k = "data"
    <2>1. PICK n \in Nat : n = Len(s)
      BY ONLY s \in Seq(Msgs)
    <2>2. \A i \in 1 .. Len(q) : (j + 1) + i \in 1 .. n
      BY ONLY <1>5, <2>1, j \in Nat, n \in Nat
    <2> QED
      BY ONLY <1>3, <1>5, <2>1, <2>2
  <1>7. PICK z \in 0 .. MaxSize : z = cl.size
    BY ONLY <1>2
  <1>7a. PICK w : w = Min({MaxBuffer, z - j * MaxBuffer})
    OBVIOUS
  <1>8. sv.cont = j * MaxBuffer /\ sv.size = z /\ j * MaxBuffer < z /\ ToWrite = w
    BY ONLY <1>1, <1>7, <1>7a DEF AtPiece, ToWrite
  <1>9. /\ j * MaxBuffer + w < z => j * MaxBuffer + w = (j + 1) * MaxBuffer
        /\ j * MaxBuffer + w >= z => j * MaxBuffer + w = z /\ Pieces(z) = j + 1
    BY ONLY <1>7, <1>7a, <1>8, z \in 0 .. MaxSize, j \in Nat, NextPiece
  <1>10. sv.cont + ToWrite >= sv.size => q = <<>>
    <2>1. ASSUME sv.cont + ToWrite >= sv.size PROVE q = <<>>
      <3>1. Len(s) = j + 1
        BY ONLY <1>3, <1>7, <1>7a, <1>8, <1>9, <2>1
      <3>2. Len(q) = 0
        BY ONLY <1>5, <3>1, j \in Nat
      <3> QED
        BY ONLY <1>5, <3>2
    <2> QED
      BY ONLY <2>1
  <1> QED
    BY ONLY <1>4, <1>5, <1>6, <1>7, <1>7a, <1>8, <1>9, <1>10 DEF PieceFits

LEMMA RestIsOne ==
  ASSUME NEW s, NEW k, NEW a, NEW b, IsRest(a, s, k), IsRest(b, s, k) PROVE a = b
  <1>1. a \in Seq(Msgs) /\ b \in Seq(Msgs) /\ Len(a) = Len(b) /\ \A i \in 1 .. Len(a) : a[i] = b[i]
    BY DEF IsRest
  <1> QED
    BY ONLY <1>1

LEMMA ReplyTyped ==
  ASSUME SessionInv, NEW v \in Int
  PROVE  RwReq(v) \in Msgs /\ RwReq(v) = Item(Handler[sv.type_op].reply, v, sv.id) /\ <<RwReq(v)>> \in Seq(Msgs)
  <1>1. sv \in ServerRecords /\ sv.id \in Nat
    BY Known
  <1>2. sv.type_op \in DOMAIN Handler
    BY ONLY <1>1 DEF ServerRecords
  <1>3. Handler[sv.type_op].reply \in Kinds
    BY ONLY <1>2, ReplyIsStruct DEF Kinds
  <1>4. RwReq(v) \in Msgs
    BY ONLY <1>1, <1>3, v \in Int, NumberIsMsg DEF RwReq
  <1>5. <<RwReq(v)>> \in Seq(Msgs)
    BY ONLY <1>4
  <1> QED
    BY ONLY <1>4, <1>5 DEF RwReq

\* The answer of a write.
LEMMA WriteServed ==
  ASSUME SessionInv, sv.pc = "WRITE", NEW j \in Nat, PieceRead(j), NEW v \in Int, NEW wrote, UNCHANGED cl,
         cl.pc = "sending" => down'[cl.conn] = down[cl.conn] \o <<RwReq(v)>>,
         Pending' # <<>> => "data_abandoned" \in fault',
         v >= 0 /\ "seek_failed" \notin fault' => wrote = cl.size
  PROVE  sv.garbled = FALSE /\ CallServed(wrote)
  <1>1. AtPiece(j)
    BY DEF PieceRead
  <1>2. PieceFits(j)
    BY AfterPiece
  <1>3. AfterJunk(Pending', <<>>, fault')
    <2>1. PICK p \in Seq(Msgs) : p = Pending' /\ \A i \in 1 .. Len(p) : p[i].k = "data"
      BY ONLY <1>2 DEF PieceFits
    <2>2. p # <<>> => "data_abandoned" \in fault'
      BY ONLY <2>1, Pending' # <<>> => "data_abandoned" \in fault'
    <2>3. AfterJunk(p, <<>>, fault')
      BY ONLY <2>1, <2>2, p \in Seq(Msgs), DataIsJunk
    <2> QED
      BY ONLY <2>1, <2>3
  <1>4. /\ sv.id = cl.id /\ cl.f.op = "WRITE" /\ sv.garbled = FALSE /\ cl.pc \in {"sending", "dead"}
        /\ Handler[sv.type_op].reply = cl.f.reply
        /\ cl.pc = "sending" => ran[cl.id] = 0 /\ down[cl.conn] = <<>>
    BY ONLY <1>1 DEF AtPiece
  <1>5. PICK x \in Msgs : x = RwReq(v) /\ x = Item(cl.f.reply, v, cl.id)
    <2>1. RwReq(v) \in Msgs /\ RwReq(v) = Item(Handler[sv.type_op].reply, v, sv.id)
      BY ONLY SessionInv, v \in Int, ReplyTyped
    <2> QED
      BY ONLY <1>4, <2>1
  <1>6. cl.pc = "sending" => down'[cl.conn] = <<Item(cl.f.reply, v, cl.id)>>
    <2>1. <<>> \o <<x>> = <<x>>
      BY ONLY x \in Msgs
    <2>2. cl.pc = "sending" => down'[cl.conn] = down[cl.conn] \o <<RwReq(v)>>
      OBVIOUS
    <2> QED
      BY ONLY <1>4, <1>5, <2>1, <2>2
  <1>7. v >= 0 /\ "seek_failed" \notin fault' => wrote = cl.size
    OBVIOUS
  <1> QED
    BY ONLY <1>3, <1>4, <1>6, <1>7, v \in Int DEF CallServed

\* A piece has been written.
LEMMA WroteKeeps ==
  ASSUME SessionInv, sv.pc = "WRITE", NEW g \in BOOLEAN, Wrote(g), UNCHANGED <<keep, made, hung, cl, fault>>,
         up' \in [Conns -> Seq(Msgs)], \A c \in Conns : c # sv.comm => up'[c] = up[c],
         ReadToEnd \/ (g = sv.garbled /\ \E j \in Nat : PieceRead(j))
  PROVE  SessionInv'
  <1>1. UNCHANGED <<keep, made, hung, cl, fault>>
    OBVIOUS
  <1>2. sv.pc \in AtWork
    BY DEF AtWork
  <1>3. /\ sv.comm = cl.conn /\ sv.comm \in Conns
    BY <1>2, HandlerAt
  <1>4. PICK t \in 0 .. MaxSize : t = sv.cont + ToWrite /\ t <= sv.size
    BY ONLY SessionInv, ToWriteIs
  <1>5. sv.size \in 0 .. MaxSize /\ MaxSize \in Nat
    BY ONLY SessionInv, ToWriteIs
  <1>6. CASE t < sv.size
    <2>1. sv' = [sv EXCEPT !.cont = t, !.garbled = g] /\ UNCHANGED <<down, ran, written, freed>>
      BY <1>4, <1>6 DEF Wrote
    <2>2. /\ sv' \in ServerRecords /\ sv'.pc = "WRITE" /\ sv'.comm = sv.comm /\ sv'.type_op = sv.type_op
          /\ sv'.id = sv.id /\ sv'.size = sv.size /\ sv'.cont = t /\ sv'.garbled = g
      <3>1. sv \in ServerRecords
        BY Known
      <3> QED
        BY ONLY <2>1, <3>1, sv.pc = "WRITE", t \in 0 .. MaxSize, g \in BOOLEAN DEF ServerRecords
    <2>3. /\ sv'.pc = "WRITE" /\ sv'.comm = sv.comm /\ sv'.type_op = sv.type_op
          /\ sv'.id = sv.id /\ sv'.size = sv.size /\ sv'.cont = t /\ sv'.garbled = g
      BY ONLY <2>2
    <2>4. UNCHANGED <<keep, made, down, hung, freed, cl, ran, written, fault>>
      BY ONLY <1>1, <2>1
    <2>5. Phase'
      <3>1. CASE ReadToEnd
        <4>1. Lost'
          BY ONLY <1>1, <3>1 DEF ReadToEnd, Lost
        <4> QED
          BY ONLY <4>1 DEF Phase
      <3>2. ASSUME NEW j \in Nat, PieceRead(j), g = sv.garbled PROVE Phase'
        <4>1. AtPiece(j) /\ IsRest(Pending', SentData(cl.size, cl.id), j + 1)
          BY ONLY <3>2 DEF PieceRead
        <4>2. PieceFits(j)
          BY ONLY SessionInv, <3>2, j \in Nat, AfterPiece
        <4>3. PICK k \in Nat : k = j + 1
          BY ONLY j \in Nat
        <4>4. t = k * MaxBuffer
          BY ONLY <1>4, <1>6, <4>2, <4>3 DEF PieceFits
        <4>5. Pending' = SubSeq(SentData(cl.size, cl.id), k + 1, Pieces(cl.size))
          <5>1. cl.size \in 0 .. MaxSize /\ cl.id \in Nat
            BY Known
          <5>2. PICK s \in Seq(Msgs) : s = SentData(cl.size, cl.id) /\ Len(s) = Pieces(cl.size)
            BY ONLY <5>1, DataItems
          <5>3. PICK q, r : q = Pending' /\ r = SubSeq(s, k + 1, Len(s))
            OBVIOUS
          <5>4. IsRest(r, s, k)
            BY ONLY <5>3, s \in Seq(Msgs), k \in Nat, RestOf
          <5>5. IsRest(q, s, k)
            BY ONLY <4>1, <4>3, <5>2, <5>3
          <5>6. q = r
            BY ONLY <5>4, <5>5, RestIsOne
          <5> QED
            BY ONLY <5>2, <5>3, <5>6
        <4>6. NotRun'
          BY ONLY <2>4, <4>1 DEF AtPiece, NotRun
        <4>7. Serving("WRITE")'
          <5>1. sv.comm = cl.conn /\ sv.garbled = FALSE /\ g = FALSE /\ 0 <= sv.cont
            BY ONLY <1>3, <3>2, <4>1, SessionInv, ToWriteIs DEF AtPiece
          <5>2. cl.size > 0
            BY ONLY <4>1, <5>1, SessionInv, ToWriteIs, Known DEF AtPiece
          <5> QED
            BY ONLY <2>3, <2>4, <4>1, <5>1, <5>2 DEF AtPiece, Serving
        <4>8. sv'.size = cl'.size
          BY ONLY <2>3, <2>4, <4>1 DEF AtPiece
        <4>9. Writing'
          BY ONLY <1>6, <2>3, <2>4, <4>4, <4>5, <4>6, <4>7, <4>8, k \in Nat DEF Writing
        <4> QED
          BY ONLY <4>9 DEF Phase
      <3> QED
        BY <3>1, <3>2
    <2>6. sv'.cont <= sv'.size /\ sv'.pc \in AtWork /\ (sv'.pc \in {"head", "path"} => sv'.cont = 0)
      BY ONLY <1>4, <2>3 DEF AtWork
    <2> QED
      BY <1>2, <2>2, <2>4, <2>5, <2>6, QuietStep
  <1>7. CASE ~(t < sv.size)
    <2>1. Answer(<<RwReq(t)>>) /\ RunEnds(t, g)
      BY <1>4, <1>7 DEF Wrote
    <2>2. t \in Int /\ t >= 0
      BY ONLY <1>5, t \in 0 .. MaxSize
    <2>3. <<RwReq(t)>> \in Seq(Msgs)
      BY ONLY SessionInv, <2>2, ReplyTyped
    <2>4. /\ down' \in [Conns -> Seq(Msgs)] /\ (\A c \in Conns : c # sv.comm => down'[c] = down[c])
          /\ cl.pc = "sending" => down'[cl.conn] = down[cl.conn] \o <<RwReq(t)>>
      BY ONLY SessionInv, <1>2, <2>1, <2>3, AnswerDoes
    <2>5. ASSUME NEW j \in Nat, PieceRead(j), g = sv.garbled PROVE g = FALSE /\ CallServed(t)
      <3>1. PieceFits(j)
        BY ONLY SessionInv, <2>5, j \in Nat, AfterPiece
      <3>2. t >= sv.size
        BY ONLY <1>5, <1>7, t \in 0 .. MaxSize
      <3>3. t = cl.size /\ Pending' = <<>>
        BY ONLY <1>4, <3>1, <3>2 DEF PieceFits
      <3>4. UNCHANGED cl
        BY ONLY <1>1
      <3>5. /\ Pending' # <<>> => "data_abandoned" \in fault'
            /\ t >= 0 /\ "seek_failed" \notin fault' => t = cl.size
        BY ONLY <3>3
      <3>6. sv.garbled = FALSE /\ CallServed(t)
        BY ONLY SessionInv, sv.pc = "WRITE", <2>2, <2>4, <2>5, <3>4, <3>5, j \in Nat, WriteServed
      <3> QED
        BY ONLY <2>5, <3>6
    <2>6. ReadToEnd \/ (g = FALSE /\ CallServed(t))
      BY <2>5
    <2>7. fault \subseteq fault' /\ fault' \subseteq fault \union {"data_abandoned", "seek_failed"}
      BY ONLY <1>1
    <2> QED
      BY <1>1, <1>2, <2>1, <2>4, <2>6, <2>7, RunEndsKeeps
  <1> QED
    BY ONLY <1>6, <1>7

LEMMA WritePieceKeeps == ASSUME SessionInv, WritePiece PROVE SessionInv'
  <1>1. UNCHANGED <<keep, made, hung, cl, fault>> /\ sv.pc = "WRITE" /\ PieceArrives /\ Wrote(sv.garbled)
    BY DEF WritePiece
  <1>2. sv.garbled \in BOOLEAN
    <2>1. sv \in ServerRecords
      BY Known
    <2> QED
      BY ONLY <2>1 DEF ServerRecords
  <1>3. /\ up' \in [Conns -> Seq(Msgs)] /\ (\A c \in Conns : c # sv.comm => up'[c] = up[c])
        /\ ReadToEnd \/ \E j \in Nat : PieceRead(j)
    BY <1>1, PieceArrivesDoes
  <1> QED
    BY <1>1, <1>2, <1>3, WroteKeeps

LEMMA WriteMissingPieceKeeps == ASSUME SessionInv, WriteMissingPiece PROVE SessionInv'
  <1>1. UNCHANGED <<keep, made, up, hung, cl, fault>> /\ sv.pc = "WRITE" /\ Eof /\ Wrote(TRUE)
    BY DEF WriteMissingPiece
  <1>2. sv.pc \in AtWork
    BY ONLY <1>1 DEF AtWork
  <1>3. sv.comm = cl.conn /\ sv.comm \notin freed
    BY <1>2, HandlerAt
  <1>4. Lost
    <2>1. sv.pc \notin {"dead", "accept"}
      BY ONLY <1>1
    <2> QED
      BY ONLY SessionInv, <1>1, <1>3, <2>1, EofIsLost
  <1>5. /\ up' \in [Conns -> Seq(Msgs)] /\ (\A c \in Conns : c # sv.comm => up'[c] = up[c]) /\ ReadToEnd
    BY <1>1, <1>4, NothingRead
  <1> QED
    BY <1>1, <1>5, WroteKeeps

\* A write that is given up after its piece was read.
LEMMA WriteEndsKeeps ==
  ASSUME SessionInv, sv.pc = "WRITE", PieceArrives, NEW v \in Int, Answer(<<RwReq(v)>>), RunEnds(sv.cont, sv.garbled),
         UNCHANGED <<keep, made, hung, cl>>, NEW more \in SUBSET {"seek_failed"},
         fault' = Abandons(sv.size - sv.cont - ToWrite) \union more, v >= 0 => "seek_failed" \in more
  PROVE  SessionInv'
  <1>1. UNCHANGED <<keep, made, hung, cl>>
    OBVIOUS
  <1>2. sv.pc \in AtWork
    BY DEF AtWork
  <1>3. /\ up' \in [Conns -> Seq(Msgs)] /\ (\A c \in Conns : c # sv.comm => up'[c] = up[c])
        /\ ReadToEnd \/ \E j \in Nat : PieceRead(j)
    BY PieceArrivesDoes
  <1>4. <<RwReq(v)>> \in Seq(Msgs)
    BY ONLY SessionInv, v \in Int, ReplyTyped
  <1>5. /\ down' \in [Conns -> Seq(Msgs)] /\ (\A c \in Conns : c # sv.comm => down'[c] = down[c])
        /\ cl.pc = "sending" => down'[cl.conn] = down[cl.conn] \o <<RwReq(v)>>
    BY ONLY SessionInv, <1>2, <1>4, Answer(<<RwReq(v)>>), AnswerDoes
  <1>6. sv.garbled \in BOOLEAN
    <2>1. sv \in ServerRecords
      BY Known
    <2> QED
      BY ONLY <2>1 DEF ServerRecords
  <1>7. sv.cont \in 0 .. MaxSize /\ sv.size \in 0 .. MaxSize /\ MaxSize \in Nat /\ ToWrite \in Nat
    BY ONLY SessionInv, ToWriteIs
  <1>8. fault \subseteq fault' /\ fault' \subseteq fault \union {"data_abandoned", "seek_failed"}
    BY DEF Abandons
  <1>9. ASSUME NEW j \in Nat, PieceRead(j) PROVE sv.garbled = FALSE /\ CallServed(sv.cont)
    <2>1. PieceFits(j)
      BY ONLY SessionInv, <1>9, j \in Nat, AfterPiece
    <2>2. Pending' # <<>> => "data_abandoned" \in fault'
      <3>1. ASSUME Pending' # <<>> PROVE "data_abandoned" \in fault'
        <4>1. ~(sv.cont + ToWrite >= sv.size)
          BY ONLY <2>1, <3>1 DEF PieceFits
        <4>2. sv.size - sv.cont - ToWrite > 0
          BY ONLY <1>7, <4>1
        <4> QED
          BY <4>2 DEF Abandons
      <3> QED
        BY ONLY <3>1
    <2>3. v >= 0 /\ "seek_failed" \notin fault' => sv.cont = cl.size
      OBVIOUS
    <2>4. UNCHANGED cl
      BY ONLY <1>1
    <2>5. PICK w : w = sv.cont
      OBVIOUS
    <2>6. v >= 0 /\ "seek_failed" \notin fault' => w = cl.size
      BY ONLY <2>3, <2>5
    <2>7. sv.garbled = FALSE /\ CallServed(w)
      BY ONLY SessionInv, sv.pc = "WRITE", <1>5, <1>9, <2>2, <2>4, <2>6, j \in Nat, v \in Int, WriteServed
    <2> QED
      BY ONLY <2>5, <2>7
  <1>10. ReadToEnd \/ (sv.garbled = FALSE /\ CallServed(sv.cont))
    BY ONLY <1>3, <1>9
  <1> QED
    BY <1>1, <1>2, <1>3, <1>5, <1>6, <1>7, <1>8, <1>10, RunEndsKeeps

LEMMA WriteFailsKeeps == ASSUME SessionInv, WriteFails PROVE SessionInv'
  <1>1. /\ UNCHANGED <<keep, made, hung, cl>> /\ sv.pc = "WRITE" /\ PieceArrives /\ RunEnds(sv.cont, sv.garbled)
        /\ Answer(<<RwReq(-1)>>) /\ fault' = Abandons(sv.size - sv.cont - ToWrite)
    BY DEF WriteFails, SizeOfFailedWrite
  <1>2. PICK v \in Int : v = -1
    OBVIOUS
  <1>3. PICK more \in SUBSET {"seek_failed"} : more = {}
    OBVIOUS
  <1>4. fault' = Abandons(sv.size - sv.cont - ToWrite) \union more /\ (v >= 0 => "seek_failed" \in more) /\ Answer(<<RwReq(v)>>)
    <2>1. ~(v >= 0)
      BY ONLY <1>2
    <2>2. Abandons(sv.size - sv.cont - ToWrite) \union more = Abandons(sv.size - sv.cont - ToWrite)
      BY ONLY <1>3
    <2> QED
      BY ONLY <1>1, <1>2, <2>1, <2>2
  <1> QED
    BY <1>1, <1>4, WriteEndsKeeps

LEMMA SeekFailsKeeps == ASSUME SessionInv, SeekFails PROVE SessionInv'
  <1>1. /\ UNCHANGED <<keep, made, hung, cl>> /\ sv.pc = "WRITE" /\ PieceArrives /\ RunEnds(sv.cont, sv.garbled)
        /\ fault' = Abandons(sv.size - sv.cont - ToWrite) \union {"seek_failed"}
    BY DEF SeekFails
  <1>2. PICK v \in Int : Answer(<<RwReq(v)>>)
    <2>1. PICK n \in (IF sv.cont = 0 THEN {-1, 0} ELSE {MaxBuffer}) : Answer(<<RwReq(n)>>)
      BY DEF SeekFails
    <2>2. n \in Int
      BY ONLY SessionAssumption, n \in (IF sv.cont = 0 THEN {-1, 0} ELSE {MaxBuffer})
    <2> QED
      BY ONLY <2>1, <2>2
  <1>3. PICK more \in SUBSET {"seek_failed"} : more = {"seek_failed"}
    OBVIOUS
  <1>4. fault' = Abandons(sv.size - sv.cont - ToWrite) \union more /\ (v >= 0 => "seek_failed" \in more)
    BY ONLY <1>1, <1>3
  <1> QED
    BY <1>1, <1>2, <1>4, WriteEndsKeeps

-----------------------------------------------------------------------------
(* What the invariant says.                                                  *)

LEMMA SessionStep == ASSUME SessionInv, [SessionNext]_sessionVars PROVE SessionInv'
  <1>1. CASE ClientStep
    BY <1>1, ConnectKeeps, SendKeeps, ReceiveStatusKeeps, ReceiveReadKeeps, ReceiveEofKeeps DEF ClientStep
  <1>2. ASSUME NEW f \in ClientFunctions, NEW lens \in Paths(f), NEW size \in SizesOf(f), StartCall(f, lens, size)
        PROVE  SessionInv'
    BY <1>2, StartCallKeeps
  <1>3. CASE SilentCall
    BY <1>3, SilentCallKeeps
  <1>4. CASE Disconnect
    BY <1>4, DisconnectKeeps
  <1>5. CASE ClientDies
    BY <1>5, ClientDiesKeeps
  <1>6. CASE ServerStep
    <2>1. \/ Accept \/ ReadOperation \/ ReadOperationFindsData \/ ReadOperationFindsEof
          \/ ReadOperationAfterFree \/ ReadHead \/ ReadTail \/ Plain \/ OpenFile
          \/ OpenFileFails \/ ReadPiece \/ WritePiece \/ WriteMissingPiece \/ WriteFails
          \/ SeekFails
      BY ONLY <1>6 DEF ServerStep
    <2>2. Accept \/ ReadOperation \/ ReadOperationFindsData \/ ReadOperationFindsEof \/ ReadOperationAfterFree => SessionInv'
      BY ONLY SessionInv, AcceptKeeps, ReadOperationKeeps, ReadOperationFindsDataKeeps, ReadOperationFindsEofKeeps,
              ReadOperationAfterFreeKeeps
    <2>3. ReadHead \/ ReadTail \/ Plain \/ OpenFile \/ OpenFileFails => SessionInv'
      BY ONLY SessionInv, ReadHeadKeeps, ReadTailKeeps, PlainKeeps, OpenFileKeeps, OpenFileFailsKeeps
    <2>4. ReadPiece \/ WritePiece \/ WriteMissingPiece \/ WriteFails \/ SeekFails => SessionInv'
      BY ONLY SessionInv, ReadPieceKeeps, WritePieceKeeps, WriteMissingPieceKeeps, WriteFailsKeeps, SeekFailsKeeps
    <2> QED
      BY ONLY <2>1, <2>2, <2>3, <2>4
  <1>7. CASE ServerDies
    BY <1>7, ServerDiesKeeps
  <1>8. CASE UNCHANGED sessionVars
    <2>1. UNCHANGED <<keep, made, up, down, hung, freed, cl, sv, ran, written, fault>>
      BY ONLY <1>8 DEF sessionVars
    <2>2. SessionType' /\ ClientConns' /\ ServerConns'
      BY <2>1 DEF SessionInv, SessionType, ClientConns, ServerConns, ServerPlaces, ServerStreams
    <2>3. Answers'
      BY ONLY <2>1, SessionInv, Known, AnswersStay
    <2>4. Phase'
      <3>1. Pending' = Pending /\ NotRun' = NotRun
        BY ONLY <2>1 DEF Pending, NotRun
      <3>2. \A pc \in AtWork : Serving(pc)' = Serving(pc)
        BY ONLY <2>1 DEF Serving
      <3>3. Phase
        BY DEF SessionInv
      <3>4. (Lost => Lost') /\ (BetweenCalls => BetweenCalls') /\ (Unread => Unread') /\ (Answered => Answered')
        BY ONLY <2>1, <3>1 DEF Lost, BetweenCalls, Unread, Answered
      <3>5. (HeadNext => HeadNext') /\ (PathNext => PathNext')
        BY ONLY <2>1, <3>1, <3>2 DEF HeadNext, PathNext, AtWork
      <3>6. (Reading => Reading') /\ (Writing => Writing')
        BY ONLY <2>1, <3>1, <3>2 DEF Reading, Writing, AtWork
      <3> QED
        BY ONLY <2>1, <3>3, <3>4, <3>5, <3>6 DEF Phase
    <2> QED
      BY ONLY <2>2, <2>3, <2>4 DEF SessionInv
  <1>9. CASE Over
    BY ONLY <1>8, <1>9 DEF Over
  <1> QED
    BY ONLY <1>1, <1>2, <1>3, <1>4, <1>5, <1>6, <1>7, <1>8, <1>9, [SessionNext]_sessionVars DEF SessionNext

\* The dispatcher finds a code.
LEMMA CodeNext ==
  ASSUME SessionInv, "data_abandoned" \notin fault, sv.pc = "op", sv.comm \notin freed, up[sv.comm] # <<>>
  PROVE  Next1.k = "op"
  <1>1. sv.comm = cl.conn /\ sv.comm \in Conns /\ (BetweenCalls \/ Unread \/ Answered)
    BY DispatcherAt
  <1>2. Pending \in Seq(Msgs) /\ Pending # <<>> /\ Next1 = Head(Pending)
    BY <1>1, TakeNext
  <1>3. \A m \in Seq(Msgs) : AfterJunk(Pending, m, fault) => Pending = m
    BY ONLY <1>2, "data_abandoned" \notin fault, JunkFirst
  <1>4. <<>> \in Seq(Msgs)
    OBVIOUS
  <1>5. ~Answered
    BY ONLY <1>2, <1>3, <1>4 DEF Answered
  <1>6. CASE BetweenCalls
    <2>1. PICK x \in Msgs : x = Item("op", "DISCONNECT", 0) /\ x.k = "op"
      <3>1. "op" \in Kinds /\ "DISCONNECT" \in Vals
        BY DEF Kinds, Vals, Codes
      <3> QED
        BY ONLY <3>1, ItemIsMsg
    <2>2. <<x>> \in Seq(Msgs) /\ Head(<<x>>) = x
      BY ONLY x \in Msgs
    <2>3. Pending = <<x>>
      BY ONLY <1>2, <1>3, <1>4, <1>6, <2>1, <2>2 DEF BetweenCalls
    <2> QED
      BY ONLY <1>2, <2>1, <2>2, <2>3
  <1>7. CASE Unread
    <2>1. PICK lens \in Paths(cl.f) : AfterJunk(Pending, Request(cl.f, lens, cl.size, cl.id), fault)
      BY ONLY <1>7 DEF Unread
    <2>2. PICK f \in ClientFunctions, z \in 0 .. MaxSize, i \in Nat : f = cl.f /\ z = cl.size /\ i = cl.id
      <3>1. cl \in ClientRecords /\ cl.id \in Nat
        BY Known
      <3>2. cl.f \in ClientFunctions /\ cl.size \in 0 .. MaxSize
        BY ONLY <3>1 DEF ClientRecords
      <3> QED
        BY ONLY <3>1, <3>2
    <2>3. PICK R : R = Request(f, lens, z, i)
      OBVIOUS
    <2>4. IsRequest(R, f, lens, z, i)
      <3>1. lens \in Paths(f)
        BY ONLY <2>2, lens \in Paths(cl.f)
      <3> QED
        BY ONLY <2>3, <3>1, f \in ClientFunctions, z \in 0 .. MaxSize, i \in Nat, RequestShape
    <2>5. R \in Seq(Msgs) /\ Head(R).k = "op"
      BY ONLY <2>4 DEF IsRequest
    <2>6. Pending = R
      BY ONLY <1>3, <2>1, <2>2, <2>3, <2>5
    <2> QED
      BY ONLY <1>2, <2>5, <2>6
  <1> QED
    BY ONLY <1>1, <1>5, <1>6, <1>7

\* The handlers find the head, the tails and the data.
LEMMA PartNext ==
  ASSUME SessionInv, sv.pc \in AtWork, up[sv.comm] # <<>>
  PROVE  /\ sv.pc = "head" => Next1.k = "head" /\ Next1.id = sv.id
         /\ sv.pc = "path" /\ sv.need # <<>> =>
              Next1.k = "tail" /\ Next1.id = sv.id /\ Next1.v = Head(sv.need)
         /\ sv.pc = "WRITE" => Next1.k = "data" /\ Next1.id = sv.id /\ Next1.v = ToWrite
  <1>1. /\ sv.comm = cl.conn /\ sv.comm \in Conns
        /\ \/ Lost
           \/ sv.pc = "head" /\ HeadNext
           \/ sv.pc = "path" /\ PathNext
           \/ sv.pc = "READ" /\ Reading
           \/ sv.pc = "WRITE" /\ Writing
    BY HandlerAt
  <1>2. ~Lost
    BY ONLY <1>1, up[sv.comm] # <<>> DEF Lost
  <1>3. Pending \in Seq(Msgs) /\ Pending # <<>> /\ Next1 = Head(Pending)
    BY <1>1, TakeNext
  <1>4. PICK f \in ClientFunctions, z \in 0 .. MaxSize, i \in Nat : f = cl.f /\ z = cl.size /\ i = cl.id
    <2>1. cl \in ClientRecords /\ cl.id \in Nat
      BY Known
    <2>2. cl.f \in ClientFunctions /\ cl.size \in 0 .. MaxSize
      BY ONLY <2>1 DEF ClientRecords
    <2> QED
      BY ONLY <2>1, <2>2
  <1>5. ASSUME sv.pc = "head" PROVE Next1.k = "head" /\ Next1.id = sv.id
    <2>1. HeadNext
      BY ONLY <1>1, <1>2, <1>5
    <2>2. PICK lens \in Paths(f) : Pending = Tail(Request(f, lens, z, i))
      BY ONLY <1>4, <2>1 DEF HeadNext
    <2>3. PICK R : R = Request(f, lens, z, i)
      OBVIOUS
    <2>4. IsRequest(R, f, lens, z, i)
      BY ONLY <2>3, f \in ClientFunctions, z \in 0 .. MaxSize, i \in Nat, lens \in Paths(f), RequestShape
    <2>5. Head(Tail(R)).k = "head" /\ Head(Tail(R)).id = i
      BY ONLY <2>4 DEF IsRequest
    <2>6. sv.id = i
      BY ONLY <1>4, <2>1 DEF HeadNext, Serving
    <2> QED
      BY ONLY <1>3, <2>2, <2>3, <2>5, <2>6
  <1>6. ASSUME sv.pc = "path", sv.need # <<>>
        PROVE  Next1.k = "tail" /\ Next1.id = sv.id /\ Next1.v = Head(sv.need)
    <2>1. PathNext
      BY ONLY <1>1, <1>2, <1>6
    <2>2. PICK need \in Seq(Nat) : need = sv.need
      <3>1. sv \in ServerRecords
        BY Known
      <3> QED
        BY ONLY <3>1 DEF ServerRecords
    <2>3. PICK t, u : t = TailItems(need, i) /\ u = TailItems(Tail(need), i)
      OBVIOUS
    <2>4. FirstTail(t, u, need, i)
      <3>1. need # <<>>
        BY ONLY <1>6, <2>2
      <3> QED
        BY ONLY <2>3, <3>1, need \in Seq(Nat), i \in Nat, NextTail
    <2>5. PICK D \in Seq(Msgs) : D = DataOf(f, z, i)
      <3>1. SentData(z, i) \in Seq(Msgs)
        BY ONLY z \in 0 .. MaxSize, i \in Nat, DataItems
      <3>2. <<>> \in Seq(Msgs)
        OBVIOUS
      <3> QED
        BY ONLY <3>1, <3>2 DEF DataOf
    <2>6. Pending = t \o D /\ sv.id = i
      BY ONLY <1>4, <2>1, <2>2, <2>3, <2>5 DEF PathNext, Serving
    <2>7. t \in Seq(Msgs) /\ t # <<>> /\ Head(t).k = "tail" /\ Head(t).v = Head(need) /\ Head(t).id = i
      BY ONLY <2>4 DEF FirstTail
    <2>8. Head(t \o D) = Head(t)
      BY ONLY <2>7, D \in Seq(Msgs), TakesFirst
    <2> QED
      BY ONLY <1>3, <2>2, <2>6, <2>7, <2>8
  <1>7. ASSUME sv.pc = "WRITE" PROVE Next1.k = "data" /\ Next1.id = sv.id /\ Next1.v = ToWrite
    <2>1. Writing
      BY ONLY <1>1, <1>2, <1>7
    <2>2. PICK j \in Nat : AtPiece(j) /\ IsRest(Pending, SentData(cl.size, cl.id), j)
      BY ONLY SessionInv, <2>1, WritingFacts
    <2>3. PICK s \in Seq(Msgs) : /\ s = SentData(z, i) /\ Len(s) = Pieces(z)
                                 /\ \A k \in 1 .. Pieces(z) : /\ s[k].k = "data" /\ s[k].id = i
                                                              /\ s[k].v = Min({MaxBuffer, z - (k - 1) * MaxBuffer})
      BY ONLY z \in 0 .. MaxSize, i \in Nat, DataItems
    <2>4. PICK n \in Nat : n = Len(s)
      BY ONLY s \in Seq(Msgs)
    <2>5. /\ Pending \in Seq(Msgs) /\ Len(Pending) = (IF j < n THEN n - j ELSE 0)
          /\ \A k \in 1 .. Len(Pending) : Pending[k] = s[j + k]
      BY ONLY <1>4, <2>2, <2>3, <2>4 DEF IsRest
    <2>6. PICK q \in Seq(Msgs) : q = Pending /\ q # <<>>
      BY ONLY <1>3
    <2>7. Len(q) \in Nat \ {0} /\ Head(q) = q[1]
      BY ONLY <2>6, q \in Seq(Msgs)
    <2>8. j < n /\ 1 \in 1 .. Len(q) /\ j + 1 \in 1 .. n /\ (j + 1) - 1 = j
      BY ONLY <2>5, <2>6, <2>7, j \in Nat, n \in Nat
    <2>9. Head(q) = s[j + 1]
      BY ONLY <2>5, <2>6, <2>7, <2>8
    <2>10. s[j + 1].k = "data" /\ s[j + 1].id = i /\ s[j + 1].v = Min({MaxBuffer, z - j * MaxBuffer})
      BY ONLY <2>3, <2>4, <2>8
    <2>11. sv.id = i /\ ToWrite = Min({MaxBuffer, z - j * MaxBuffer})
      BY ONLY <1>4, <2>2 DEF AtPiece, ToWrite
    <2> QED
      BY ONLY <1>3, <2>6, <2>9, <2>10, <2>11
  <1> QED
    BY ONLY <1>5, <1>6, <1>7

\* The answer to a read begins as the client expects it, and all of it is for this call.
LEMMA ReadAnswerIsFor ==
  ASSUME NEW d \in Seq(Msgs), d # <<>>, NEW from, NEW size, NEW id, NEW times, ReadAnswer(d, from, size, id, times)
  PROVE  Head(d).k = "rw_req" /\ \A i \in 1 .. Len(d) : d[i].id = id
  <1>1. PICK m \in 0 .. Len(d) : \E acc \in Accs(m) :
          /\ Chunks(d, m, acc, from, size, id)
          /\ \/ Len(d) = 2 * m
             \/ Len(d) = 2 * m + 1 /\ d[2 * m + 1] \in {Item("rw_req", 0, id), Item("rw_req", -1, id)}
    BY DEF ReadAnswer
  <1>2. PICK acc \in Accs(m) :
          /\ Chunks(d, m, acc, from, size, id)
          /\ \/ Len(d) = 2 * m
             \/ Len(d) = 2 * m + 1 /\ d[2 * m + 1] \in {Item("rw_req", 0, id), Item("rw_req", -1, id)}
    BY ONLY <1>1
  <1>3. PICK n \in Nat : n = Len(d) /\ n > 0 /\ Head(d) = d[1]
    <2>1. Len(d) \in Nat /\ Len(d) > 0 /\ Head(d) = d[1]
      BY ONLY d \in Seq(Msgs), d # <<>>
    <2> QED
      BY ONLY <2>1
  <1>4. m \in Nat
    BY ONLY <1>3, m \in 0 .. Len(d)
  <1>5. \A k \in 1 .. m : d[2 * k - 1].k = "rw_req" /\ d[2 * k - 1].id = id /\ d[2 * k].id = id
    <2>1. \A k \in 1 .. m : /\ d[2 * k - 1] = Item("rw_req", acc[k] - acc[k - 1], id)
                            /\ d[2 * k] = Item("data", acc[k] - acc[k - 1], id)
      BY ONLY <1>2 DEF Chunks
    <2>2. \A x : /\ Item("rw_req", x, id).k = "rw_req" /\ Item("rw_req", x, id).id = id
                 /\ Item("data", x, id).id = id
      BY ONLY DEF Item
    <2>3. ASSUME NEW k \in 1 .. m
          PROVE  d[2 * k - 1].k = "rw_req" /\ d[2 * k - 1].id = id /\ d[2 * k].id = id
      <3>1. PICK x : d[2 * k - 1] = Item("rw_req", x, id) /\ d[2 * k] = Item("data", x, id)
        BY ONLY <2>1, k \in 1 .. m
      <3> QED
        BY ONLY <2>2, <3>1
    <2> QED
      BY ONLY <2>3
  <1>6. n = 2 * m + 1 => d[2 * m + 1].k = "rw_req" /\ d[2 * m + 1].id = id
    <2>1. n = 2 * m + 1 => n # 2 * m
      BY ONLY <1>4
    <2> QED
      BY ONLY <1>2, <1>3, <2>1 DEF Item
  <1>7. n = 2 * m \/ n = 2 * m + 1
    BY ONLY <1>2, <1>3
  <1>8. ASSUME NEW i \in 1 .. n PROVE d[i].id = id
    <2>1. \/ i = 2 * m + 1 /\ n = 2 * m + 1
          \/ \E k \in 1 .. m : i = 2 * k - 1 \/ i = 2 * k
      <3>1. CASE i = 2 * m + 1
        BY ONLY <1>4, <1>7, <3>1, i \in 1 .. n
      <3>2. CASE i # 2 * m + 1
        <4>1. PICK k \in Int : i = 2 * k - 1 \/ i = 2 * k
          <5>1. (i + 1) \div 2 \in Int /\ (i = 2 * ((i + 1) \div 2) - 1 \/ i = 2 * ((i + 1) \div 2))
            BY ONLY i \in 1 .. n, n \in Nat
          <5> QED
            BY ONLY <5>1
        <4>2. k \in 1 .. m
          BY ONLY <1>4, <1>7, <3>2, <4>1, i \in 1 .. n, n \in Nat, k \in Int
        <4> QED
          BY ONLY <4>1, <4>2
      <3> QED
        BY ONLY <3>1, <3>2
    <2> QED
      BY ONLY <1>5, <1>6, <2>1
  <1>9. d[1].k = "rw_req"
    <2>1. CASE m = 0
      <3>1. n = 2 * m + 1 /\ 2 * m + 1 = 1
        BY ONLY <1>3, <1>7, <2>1
      <3> QED
        BY ONLY <1>6, <3>1
    <2>2. CASE m # 0
      <3>1. 1 \in 1 .. m /\ 2 * 1 - 1 = 1
        BY ONLY <1>4, <2>2
      <3>2. d[2 * 1 - 1].k = "rw_req"
        BY ONLY <1>5, <3>1
      <3> QED
        BY ONLY <3>1, <3>2
    <2> QED
      BY ONLY <2>1, <2>2
  <1> QED
    BY ONLY <1>3, <1>8, <1>9

LEMMA SessionInvInStep == SessionInv => InStep
  <1> SUFFICES ASSUME SessionInv PROVE InStep
    OBVIOUS
  <1>1. ServerInStep
    <2>1. ASSUME "data_abandoned" \notin fault, sv.comm # 0, sv.comm \notin freed, up[sv.comm] # <<>>
          PROVE  /\ sv.pc = "op" => Next1.k = "op"
                 /\ sv.pc = "head" => Next1.k = "head" /\ Next1.id = sv.id
                 /\ sv.pc = "path" /\ sv.need # <<>> =>
                      Next1.k = "tail" /\ Next1.id = sv.id /\ Next1.v = Head(sv.need)
                 /\ sv.pc = "WRITE" => Next1.k = "data" /\ Next1.id = sv.id /\ Next1.v = ToWrite
      <3>1. sv.pc = "op" => Next1.k = "op"
        BY ONLY SessionInv, <2>1, CodeNext
      <3>2. CASE sv.pc \in AtWork
        <4>1. sv.pc # "op"
          BY ONLY <3>2 DEF AtWork
        <4> QED
          BY ONLY SessionInv, <2>1, <3>2, <4>1, PartNext
      <3>3. CASE sv.pc \notin AtWork
        <4>1. sv.pc # "head" /\ sv.pc # "path" /\ sv.pc # "WRITE"
          BY ONLY <3>3 DEF AtWork
        <4> QED
          BY ONLY <3>1, <4>1
      <3> QED
        BY ONLY <3>2, <3>3
    <2> QED
      BY ONLY <2>1 DEF ServerInStep
  <1>2. ClientInStep
    <2>1. Answers /\ ClientConns /\ cl.conn \in Nat /\ cl.conn <= made /\ made <= MaxRequests /\ Conns = 1 .. MaxRequests
          /\ down \in [Conns -> Seq(Msgs)] /\ made \in Nat /\ MaxRequests \in Nat /\ cl \in ClientRecords
      BY Known
    <2>2. ASSUME cl.conn # 0, cl.pc = "idle" PROVE down[cl.conn] = <<>>
      BY ONLY <2>1, <2>2 DEF Answers
    <2>3. ASSUME cl.conn # 0, cl.pc = "sending", down[cl.conn] # <<>>
          PROVE  Head(down[cl.conn]).k = cl.f.reply /\ \A i \in 1 .. Len(down[cl.conn]) : down[cl.conn][i].id = cl.id
      <3>1. cl.conn \in Conns
        BY ONLY <2>1, <2>3
      <3>2. PICK d \in Seq(Msgs) : d = down[cl.conn] /\ d # <<>>
        BY ONLY <2>1, <2>3, <3>1
      <3>3. CASE cl.f.op = "READ"
        <4>1. cl.f \in ClientFunctions
          BY ONLY <2>1 DEF ClientRecords
        <4>2. cl.f.reply = "rw_req"
          BY ONLY <3>3, <4>1, TablesAgree
        <4>3. PICK a, z, i, r : a = cl.cont /\ z = cl.size /\ i = cl.id /\ r = ran[cl.id]
          OBVIOUS
        <4>4. ReadAnswer(d, a, z, i, r)
          BY ONLY <2>1, <2>3, <3>2, <3>3, <4>3 DEF Answers
        <4>5. Head(d).k = "rw_req" /\ \A j \in 1 .. Len(d) : d[j].id = i
          BY ONLY <3>2, <4>4, d \in Seq(Msgs), ReadAnswerIsFor
        <4> QED
          BY ONLY <3>2, <4>2, <4>3, <4>5
      <3>4. CASE cl.f.op # "READ"
        <4>1. PlainAnswer(d)
          BY ONLY <2>1, <2>3, <3>2, <3>4 DEF Answers
        <4>2. PICK x : x = Item(cl.f.reply, d[1].v, cl.id)
          OBVIOUS
        <4>3. d = <<x>> /\ x.k = cl.f.reply /\ x.id = cl.id
          BY ONLY <3>2, <4>1, <4>2 DEF PlainAnswer, Item
        <4>4. Len(<<x>>) = 1 /\ Head(<<x>>) = x /\ \A i \in 1 .. 1 : <<x>>[i] = x
          OBVIOUS
        <4> QED
          BY ONLY <3>2, <4>3, <4>4
      <3> QED
        BY ONLY <3>3, <3>4
    <2> QED
      BY ONLY <2>2, <2>3 DEF ClientInStep
  <1> QED
    BY ONLY <1>1, <1>2 DEF InStep

LEMMA SessionInvCalls == SessionInv => CallsDoWhatTheySay
  <1> SUFFICES ASSUME SessionInv PROVE CallsDoWhatTheySay
    OBVIOUS
  <1>1. Answers /\ ServerPlaces
    BY Known
  <1>2. FreedCommNotUsed
    BY ONLY <1>1 DEF ServerPlaces, FreedCommNotUsed
  <1>3. RequestsRunOnce
    <2>1. "client_died" \notin fault => ran[0] = 0
      BY ONLY <1>1 DEF Answers
    <2>2. cl.pc = "idle" /\ cl.res \in {"ok", "error"} /\ "no_answer" \notin fault => ran[cl.id] = 1
      BY ONLY <1>1 DEF Answers
    <2>3. fault \intersect {"client_died", "data_abandoned"} = {} => "client_died" \notin fault
      OBVIOUS
    <2> QED
      BY ONLY <2>1, <2>2, <2>3 DEF RequestsRunOnce
  <1>4. ReadFitsBuffer /\ WriteOkMeansWritten
    BY ONLY <1>1 DEF Answers, ReadFitsBuffer
  <1> QED
    BY ONLY <1>2, <1>3, <1>4 DEF CallsDoWhatTheySay

-----------------------------------------------------------------------------
(* One call of nfi_xpn_server.c after another, against xpn_server_dispatcher, its handlers and   *)
(* what either process may do when the other one dies: at every moment what the client has sent *)
(* and the server has not read is the part of the current request that the handler expects      *)
(* next, after at most what is left of writes given up before, and what the server has sent is  *)
(* a beginning of the answer to that call.                                                       *)
THEOREM SessionInvariant == SessionSpec => []SessionInv
  <1>1. SessionInv /\ [SessionNext]_sessionVars => SessionInv'
    BY SessionStep
  <1> QED
    BY <1>1, SessionInitially, PTL DEF SessionSpec

(* The two programs never take a part of the stream for another (socket_recv in                  *)
(* xpn_server_dispatcher, the handlers and nfi_xpn_server.c): the code, the head, the rest of    *)
(* each path and each piece of data are read as what they are, for the call they belong to,      *)
(* whatever XPN_PATH_MAX, MAX_BUFFER_SIZE and the sizes of the calls are, unless a write was      *)
(* given up with its data unread.                                                                *)
THEOREM SessionInStep == SessionSpec => []InStep
  BY SessionInvariant, SessionInvInStep, PTL

(* What a call of nfi_xpn_server.c returns is what the server did: a call that was answered was  *)
(* run once and no other, a read fits its buffer, a write that succeeds was written in full       *)
(* unless its lseek failed, and no comm is used after xpn_server_run freed it unless the client   *)
(* died.                                                                                         *)
THEOREM SessionCallsDoWhatTheySay == SessionSpec => []CallsDoWhatTheySay
  BY SessionInvariant, SessionInvCalls, PTL

=============================================================================
