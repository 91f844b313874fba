------------------------ MODULE ServerLifecycleProofs ------------------------
(***************************************************************************)
(* Proofs about the start and the stop of the servers, for any clients,    *)
(* any number of servers and every mode of the programs: an awaited stop   *)
(* returns when the servers it reached have ended with nothing left to do, *)
(* and a server never ends with a living client on a connection it keeps.  *)
(***************************************************************************)
EXTENDS ServerLifecycle, SequenceTheorems, FiniteSetTheorems, TLAPS

Loops == [pc : {"off", "failed", "accept", "recv", "switch", "data", "inline", "workers", "close", "down"},
          peer : Asking, code : {"0", "MPI", "SCK_CONN", "SCK_NO_CONN", "FINISH", "FINISH_AWAIT"},
          comm : Clients, open : BOOLEAN]
Lines == [up : {"", "eof", "MPI", "SCK_CONN", "SCK_NO_CONN", "FINISH", "FINISH_AWAIT"},
          down : {"", "eof", "port", "code"}]
Procs == [pc : {"start", "opened", "asked", "connect", "run", "wait", "leave", "barrier", "gone",
                "dead", "dead_asking"},
          at : Servers, have : SUBSET Servers, bad : SUBSET Servers, ops : Nat]
Arrivals == [who : Clients, op : BOOLEAN]

LifecycleType ==
  /\ mode \in Modes
  /\ sv \in [Servers -> Loops]
  /\ backlog \in [Servers -> Seq(Asking)]
  /\ ctl \in [Servers -> [Asking -> Lines]]
  /\ data \in [Servers -> Seq(Arrivals)]
  /\ wire \in [Servers -> [Clients -> Seq(Clients \union {"disc", "eof"})]]
  /\ disp \in [Servers -> [Clients -> {"none", "read", "run", "bye", "lost", "ended"}]]
  /\ runs \in [Servers -> SUBSET Clients]
  /\ nc \in [Servers -> [pc : {"none", "accept", "run", "end"}, who : Clients]]
  /\ ans \in [Servers -> SUBSET Clients]
  /\ cl \in [Clients -> Procs]
  /\ st \in [pc : {"idle", "send", "await", "done", "stuck"}, i : Servers \union {NServers + 1},
             sockets : Seq(Servers)]

Finish == {"FINISH", "FINISH_AWAIT"}
Looking == {"start", "opened", "asked", "connect"}

\* The codes on the control connections, and the one the loop acts on.
CodeOk(s) ==
  /\ \A c \in Clients : ctl[s][c].up \in {"", "eof", Code}
  /\ ctl[s][Stop].up \in {""} \union Finish
  /\ sv[s].code \in {"0", Code} \union Finish
  /\ sv[s].pc = "switch" => ctl[s][sv[s].peer].up # "" /\ (sv[s].peer = Stop => sv[s].code \in Finish)
  /\ sv[s].pc = "data" => mode.keep = 1

\* A client asks a server once, and is told a port once it has asked.
AskOk(s, c) ==
  /\ cl[c].pc \in Looking /\ (cl[c].at < s \/ (cl[c].at = s /\ cl[c].pc \in {"start", "opened"})) =>
       ctl[s][c].up = ""
  /\ ctl[s][c].up = "" => ctl[s][c].down # "port"
  /\ cl[c].pc \in Looking /\ cl[c].at <= s /\ ~Mpi => wire[s][c] = <<>>

\* c has been told the port of s and has not connected yet.
Told(s, c) ==
  \/ cl[c].pc = "asked" /\ cl[c].at = s /\ ctl[s][c].down = "port"
  \/ cl[c].pc = "connect" /\ cl[c].at = s

\* The loop that hands out a port for a connection to be kept waits for it.
PortOk(s) ==
  ~Mpi /\ mode.keep = 1 =>
    /\ \A c \in Clients : Told(s, c) => sv[s].pc = "data" /\ sv[s].peer = c /\ data[s] = <<>>
    /\ data[s] # <<>> => sv[s].pc = "data" /\ Len(data[s]) = 1

\* A kept connection is waiting to be accepted or has its dispatcher.
Served(s, c) ==
  IF Mpi THEN disp[s][Root] \in {"read", "run", "bye"}
  ELSE disp[s][c] \in {"read", "run"} \/ \E i \in DOMAIN data[s] : data[s][i].who = c

Living(c) == cl[c].pc \notin {"dead", "dead_asking"}

KeptOk(s, c) ==
  mode.keep = 1 /\ Living(c) /\ s \in cl[c].have =>
    /\ Served(s, c)
    /\ ~Mpi => \A i \in DOMAIN wire[s][c] : wire[s][c][i] = c

\* With MPI nobody dies.
JobOk(c) ==
  Mpi => Living(c) /\ \A s \in Servers : \A i \in DOMAIN wire[s][Root] : wire[s][Root][i] # "eof"

\* What a server that ends has got behind it.
EndOk(s) ==
  /\ sv[s].pc \in {"workers", "close", "down"} => sv[s].open = FALSE /\ data[s] = <<>>
  /\ sv[s].pc \in {"close", "down"} => WorkersEnded(s)
  /\ ctl[s][Stop].down # "" => sv[s].pc = "down"
  /\ sv[s].pc = "off" => nc[s].pc = "none"

\* Where the call of a client is.
CallOk(c) ==
  cl[c].pc = "wait" =>
    IF mode.keep = 1 THEN cl[c].at \in cl[c].have
    ELSE \/ c \in ans[cl[c].at]
         \/ nc[cl[c].at].pc = "run" /\ nc[cl[c].at].who = c
         \/ \E i \in DOMAIN data[cl[c].at] : data[cl[c].at][i] = [who |-> c, op |-> TRUE]

\* How far xpn_server_down is.
StopInv ==
  /\ st.pc = "send" => st.i <= Hosts /\ Len(st.sockets) < st.i
  /\ st.pc = "idle" => st.i = 1 /\ st.sockets = <<>>
  /\ Len(st.sockets) <= NServers
  /\ st.pc = "await" =>
       st.i <= NServers /\ \A j \in 1 .. Len(st.sockets) : j < st.i => ctl[st.sockets[j]][Stop].down # ""
  /\ st.pc = "done" /\ mode.stop = "await" => \A j \in 1 .. Len(st.sockets) : ctl[st.sockets[j]][Stop].down # ""

LifecycleInv ==
  /\ LifecycleType /\ StopInv
  /\ \A s \in Servers : CodeOk(s) /\ PortOk(s) /\ EndOk(s)
  /\ \A s \in Servers, c \in Clients : AskOk(s, c) /\ KeptOk(s, c)
  /\ \A c \in Clients : JobOk(c) /\ CallOk(c)

-----------------------------------------------------------------------------
(* The records of the processes *)

LEMMA StopIsNoClient ==
  Stop \notin Clients /\ "disc" \notin Clients /\ "eof" \notin Clients /\ Clients \subseteq Asking /\ Stop \in Asking
  BY LifecycleAssumption DEF Stop, Asking

LEMMA Next1Facts ==
  ASSUME NEW r \in Procs, NEW bad \in SUBSET Servers, NEW have \in SUBSET Servers
  PROVE  /\ Next1(r, bad, have) \in Procs
         /\ Next1(r, bad, have).have = r.have \union have
         /\ Next1(r, bad, have).pc \in {"start", "leave", "run"}
         /\ Next1(r, bad, have).pc = "start" => r.at < Next1(r, bad, have).at
  <1>1. r.at \in Servers /\ r.have \in SUBSET Servers /\ r.bad \in SUBSET Servers /\ r.ops \in Nat
    BY DEF Procs
  <1>2. PICK at, pc, h, b :
          /\ at = IF r.at = NServers THEN 1 ELSE r.at + 1
          /\ pc = IF ~(r.at = NServers) THEN "start"
                  ELSE IF Cardinality(r.bad \union bad) > Replication THEN "leave" ELSE "run"
          /\ h = r.have \union have /\ b = r.bad \union bad
    OBVIOUS
  <1>3. at \in Servers
    BY <1>1, <1>2, LifecycleAssumption DEF Servers
  <1>4. pc \in {"start", "leave", "run"} /\ (pc = "start" => r.at < at)
    BY <1>1, <1>2, LifecycleAssumption DEF Servers
  <1>5. PICK n : n = Next1(r, bad, have)
    OBVIOUS
  <1>6. n = [r EXCEPT !.bad = b, !.have = h, !.at = at, !.pc = pc]
    BY <1>2, <1>5 DEF Next1
  <1>7. n = [pc |-> pc, at |-> at, have |-> h, bad |-> b, ops |-> r.ops]
    BY <1>6 DEF Procs
  <1>8. n \in Procs /\ n.have = h /\ n.pc = pc /\ n.at = at
    BY <1>1, <1>2, <1>3, <1>4, <1>7 DEF Procs
  <1> QED
    BY <1>2, <1>4, <1>5, <1>8

\* The next server, without a connection to s and with one.
LEMMA WithoutOne ==
  ASSUME NEW r \in Procs, NEW s \in Servers
  PROVE  /\ Next1(r, {s}, {}) \in Procs
         /\ Next1(r, {s}, {}).have = r.have
         /\ Next1(r, {s}, {}).pc \in {"start", "leave", "run"}
         /\ Next1(r, {s}, {}).pc = "start" => r.at < Next1(r, {s}, {}).at
  <1>1. PICK b \in SUBSET Servers, h \in SUBSET Servers : b = {s} /\ h = {}
    OBVIOUS
  <1>2. r.have \union h = r.have
    BY <1>1
  <1>3. /\ Next1(r, b, h) \in Procs
        /\ Next1(r, b, h).have = r.have \union h
        /\ Next1(r, b, h).pc \in {"start", "leave", "run"}
        /\ Next1(r, b, h).pc = "start" => r.at < Next1(r, b, h).at
    BY Next1Facts
  <1> QED
    BY <1>1, <1>2, <1>3

LEMMA WithOne ==
  ASSUME NEW r \in Procs, NEW s \in Servers
  PROVE  /\ Next1(r, {}, {s}) \in Procs
         /\ Next1(r, {}, {s}).have = r.have \union {s}
         /\ Next1(r, {}, {s}).pc \in {"start", "leave", "run"}
         /\ Next1(r, {}, {s}).pc = "start" => r.at < Next1(r, {}, {s}).at
  <1>1. PICK b \in SUBSET Servers, h \in SUBSET Servers : b = {} /\ h = {s}
    OBVIOUS
  <1>3. /\ Next1(r, b, h) \in Procs
        /\ Next1(r, b, h).have = r.have \union h
        /\ Next1(r, b, h).pc \in {"start", "leave", "run"}
        /\ Next1(r, b, h).pc = "start" => r.at < Next1(r, b, h).at
    BY Next1Facts
  <1> QED
    BY <1>1, <1>3

LEMMA LeftFacts ==
  ASSUME NEW r \in Procs
  PROVE  Left(r) \in Procs /\ Left(r).have = r.have \ {r.at} /\ Left(r).pc \in {"gone", "leave"}
  <1>1. r.at \in Servers /\ r.have \in SUBSET Servers /\ r.bad \in SUBSET Servers /\ r.ops \in Nat
    BY DEF Procs
  <1>2. PICK at, pc, h :
          /\ at = IF r.at = NServers THEN 1 ELSE r.at + 1
          /\ pc = IF r.at = NServers THEN "gone" ELSE "leave"
          /\ h = r.have \ {r.at}
    OBVIOUS
  <1>3. at \in Servers
    BY <1>1, <1>2, LifecycleAssumption DEF Servers
  <1>4. pc \in {"gone", "leave"}
    BY <1>2
  <1>5. PICK n : n = Left(r)
    OBVIOUS
  <1>6. n = [r EXCEPT !.at = at, !.pc = pc, !.have = h]
    BY <1>2, <1>5 DEF Left
  <1>7. n = [pc |-> pc, at |-> at, have |-> h, bad |-> r.bad, ops |-> r.ops]
    BY <1>6 DEF Procs
  <1>8. n \in Procs /\ n.have = h /\ n.pc = pc
    BY <1>1, <1>2, <1>3, <1>4, <1>7 DEF Procs
  <1> QED
    BY <1>2, <1>4, <1>5, <1>8

LEMMA InitLifecycleInv == Init => LifecycleInv
  <1> SUFFICES ASSUME Init PROVE LifecycleInv
    OBVIOUS
  <1> USE LifecycleAssumption, StopIsNoClient
  <1>1. LifecycleType
    <2>1. 1 \in Servers /\ Stop \in Asking /\ Quiet \in Lines /\ NoLoop \in Loops
      BY DEF Servers, Stop, Asking, Quiet, Lines, NoLoop, Loops
    <2>2. [pc |-> "start", at |-> 1, have |-> {}, bad |-> {}, ops |-> 0] \in Procs
      BY <2>1 DEF Procs
    <2>3. /\ sv \in [Servers -> Loops] /\ ctl \in [Servers -> [Asking -> Lines]] /\ cl \in [Clients -> Procs]
      BY <2>1, <2>2 DEF Init
    <2>4. /\ backlog \in [Servers -> Seq(Asking)] /\ data \in [Servers -> Seq(Arrivals)]
          /\ wire \in [Servers -> [Clients -> Seq(Clients \union {"disc", "eof"})]]
      BY DEF Init
    <2>5. /\ disp \in [Servers -> [Clients -> {"none", "read", "run", "bye", "lost", "ended"}]]
          /\ runs \in [Servers -> SUBSET Clients] /\ ans \in [Servers -> SUBSET Clients]
          /\ nc \in [Servers -> [pc : {"none", "accept", "run", "end"}, who : Clients]]
      BY DEF Init
    <2>6. st \in [pc : {"idle", "send", "await", "done", "stuck"}, i : Servers \union {NServers + 1},
                  sockets : Seq(Servers)]
      BY <2>1 DEF Init
    <2> QED
      BY <2>3, <2>4, <2>5, <2>6 DEF Init, LifecycleType
  <1>2. ASSUME NEW s \in Servers PROVE CodeOk(s) /\ PortOk(s) /\ EndOk(s)
    <2>1. /\ sv[s].pc = "off" /\ sv[s].code = "0" /\ data[s] = <<>> /\ nc[s].pc = "none"
          /\ \A r \in Asking : ctl[s][r].up = "" /\ ctl[s][r].down = ""
      BY DEF Init, NoLoop, Quiet
    <2>2. \A c \in Clients : cl[c].pc = "start"
      BY DEF Init
    <2>3. CodeOk(s)
      BY <2>1 DEF CodeOk
    <2>4. PortOk(s)
      BY <2>1, <2>2 DEF PortOk, Told
    <2>5. EndOk(s)
      BY <2>1 DEF EndOk
    <2> QED
      BY <2>3, <2>4, <2>5
  <1>3. ASSUME NEW s \in Servers, NEW c \in Clients PROVE AskOk(s, c) /\ KeptOk(s, c)
    BY DEF Init, AskOk, KeptOk, Quiet
  <1>4. ASSUME NEW c \in Clients PROVE JobOk(c) /\ CallOk(c)
    <2>1. cl[c].pc = "start" /\ \A s \in Servers : wire[s][Root] = <<>>
      BY DEF Init
    <2> QED
      BY <2>1 DEF JobOk, CallOk, Living
  <1>5. StopInv
    BY DEF Init, StopInv
  <1> QED
    BY <1>1, <1>2, <1>3, <1>4, <1>5 DEF LifecycleInv

\* What xpn_server_down has been told stays told.
LEMMA StopKept ==
  ASSUME StopInv, UNCHANGED <<mode, st>>, st.sockets \in Seq(Servers),
         \A t \in Servers : ctl[t][Stop].down # "" => ctl'[t][Stop].down # ""
  PROVE  StopInv'
  <1>1. ASSUME NEW j \in 1 .. Len(st.sockets), ctl[st.sockets[j]][Stop].down # ""
        PROVE  ctl'[st.sockets[j]][Stop].down # ""
    <2>1. st.sockets[j] \in Servers
      BY ONLY st.sockets \in Seq(Servers), j \in 1 .. Len(st.sockets)
    <2>2. PICK t \in Servers : t = st.sockets[j]
      BY ONLY <2>1
    <2> QED
      BY <1>1, <2>2
  <1>2. /\ st.pc = "send" => st.i <= Hosts /\ Len(st.sockets) < st.i
        /\ st.pc = "idle" => st.i = 1 /\ st.sockets = <<>>
        /\ Len(st.sockets) <= NServers
    BY DEF StopInv
  <1>3. st.pc = "await" =>
          st.i <= NServers /\ \A j \in 1 .. Len(st.sockets) : j < st.i => ctl'[st.sockets[j]][Stop].down # ""
    BY <1>1 DEF StopInv
  <1>4. st.pc = "done" /\ mode.stop = "await" =>
          \A j \in 1 .. Len(st.sockets) : ctl'[st.sockets[j]][Stop].down # ""
    BY <1>1 DEF StopInv
  <1>5. st' = st /\ mode' = mode
    OBVIOUS
  <1> QED
    BY ONLY <1>2, <1>3, <1>4, <1>5 DEF StopInv, Hosts

-----------------------------------------------------------------------------
(* The accept loop *)

\* A step of the loop of s that tells nobody anything and does not wait for a
\* connection to be kept.
LEMMA LoopKeeps ==
  ASSUME LifecycleInv, NEW s \in Servers, UNCHANGED <<mode, ctl, data, wire, disp, runs, ans, cl, st>>,
         sv' \in [Servers -> Loops], backlog' \in [Servers -> Seq(Asking)],
         nc' \in [Servers -> [pc : {"none", "accept", "run", "end"}, who : Clients]],
         \A t \in Servers \ {s} : sv'[t] = sv[t] /\ nc'[t] = nc[t],
         sv[s].pc \notin {"data", "down"}, sv'[s].pc \notin {"off", "data"},
         nc'[s] = nc[s] \/ (sv[s].pc = "off" /\ sv'[s].pc = "accept"),
         sv'[s].code \in {"0", Code} \union Finish,
         sv'[s].pc = "switch" => ctl[s][sv'[s].peer].up # "" /\ (sv'[s].peer = Stop => sv'[s].code \in Finish),
         sv'[s].pc \in {"workers", "close", "down"} => sv'[s].open = FALSE /\ data[s] = <<>>,
         sv'[s].pc \in {"close", "down"} => WorkersEnded(s)
  PROVE  LifecycleInv'
  <1>1. LifecycleType'
    BY DEF LifecycleInv, LifecycleType
  <1>2. ASSUME NEW t \in Servers PROVE CodeOk(t)' /\ PortOk(t)' /\ EndOk(t)'
    <2>0. CodeOk(t) /\ PortOk(t) /\ EndOk(t)
      BY DEF LifecycleInv
    <2>1. CodeOk(t)'
      BY <2>0 DEF CodeOk, Code, Mpi
    <2>2. PortOk(t)'
      BY ZenonT(60), <2>0 DEF PortOk, Told, Mpi
    <2>3. EndOk(t)'
      BY <2>0 DEF EndOk, WorkersEnded
    <2> QED
      BY <2>1, <2>2, <2>3
  <1>3. ASSUME NEW t \in Servers, NEW c \in Clients PROVE AskOk(t, c)' /\ KeptOk(t, c)'
    <2>0. AskOk(t, c) /\ KeptOk(t, c)
      BY DEF LifecycleInv
    <2>1. AskOk(t, c)'
      BY <2>0 DEF AskOk, Mpi
    <2>2. KeptOk(t, c)'
      BY <2>0 DEF KeptOk, Mpi, Living, Served
    <2> QED
      BY <2>1, <2>2
  <1>4. ASSUME NEW c \in Clients PROVE JobOk(c)' /\ CallOk(c)'
    <2>0. JobOk(c) /\ CallOk(c)
      BY DEF LifecycleInv
    <2>1. JobOk(c)'
      BY <2>0 DEF JobOk, Mpi, Living
    <2>2. CallOk(c)'
      <3>1. PICK a \in Servers : a = cl[c].at
        BY DEF LifecycleInv, LifecycleType, Procs
      <3>2. nc[a].pc = "run" => nc'[a] = nc[a]
        BY DEF LifecycleInv, EndOk
      <3> QED
        BY <2>0, <3>1, <3>2 DEF CallOk
    <2> QED
      BY <2>1, <2>2
  <1>6. StopInv'
    BY DEF LifecycleInv, StopInv, Hosts
  <1> QED
    BY <1>1, <1>2, <1>3, <1>4, <1>6 DEF LifecycleInv

\* The parts of the state that the steps below use.
LEMMA TypeOf ==
  ASSUME LifecycleInv
  PROVE  /\ sv \in [Servers -> Loops] /\ backlog \in [Servers -> Seq(Asking)]
         /\ ctl \in [Servers -> [Asking -> Lines]] /\ data \in [Servers -> Seq(Arrivals)]
         /\ cl \in [Clients -> Procs] /\ mode \in Modes
         /\ nc \in [Servers -> [pc : {"none", "accept", "run", "end"}, who : Clients]]
  BY DEF LifecycleInv, LifecycleType

LEMMA StartKeeps == ASSUME LifecycleInv, NEW s \in Servers, Start(s) \/ StartFails(s) PROVE LifecycleInv'
  <1>0. sv \in [Servers -> Loops] /\ nc \in [Servers -> [pc : {"none", "accept", "run", "end"}, who : Clients]]
    BY TypeOf
  <1>1. /\ UNCHANGED <<mode, ctl, data, wire, disp, runs, ans, cl, st>> /\ backlog' \in [Servers -> Seq(Asking)]
        /\ sv[s].pc = "off"
    BY TypeOf DEF Start, StartFails
  <1>2. /\ sv' \in [Servers -> Loops]
        /\ sv'[s].pc \in {"accept", "failed"} /\ sv'[s].code = sv[s].code
        /\ \A t \in Servers \ {s} : sv'[t] = sv[t]
    <2>1. CASE Start(s)
      BY ZenonT(60), <1>0, <2>1 DEF Start, Loops
    <2>2. CASE StartFails(s)
      BY <1>0, <2>2 DEF StartFails, Loops
    <2> QED
      BY <2>1, <2>2
  <1>3. /\ nc' \in [Servers -> [pc : {"none", "accept", "run", "end"}, who : Clients]]
        /\ \A t \in Servers \ {s} : nc'[t] = nc[t]
        /\ nc'[s] = nc[s] \/ sv'[s].pc = "accept"
    <2>1. CASE Start(s)
      <3>1. sv'[s].pc = "accept"
        BY <1>0, <2>1 DEF Start, Loops
      <3> QED
        BY <1>0, <2>1, <3>1 DEF Start
    <2>2. CASE StartFails(s)
      BY <1>0, <2>2 DEF StartFails
    <2> QED
      BY <2>1, <2>2
  <1>4. sv'[s].code \in {"0", Code} \union Finish
    BY <1>2 DEF LifecycleInv, CodeOk
  <1>5. /\ sv'[s].pc = "switch" => ctl[s][sv'[s].peer].up # "" /\ (sv'[s].peer = Stop => sv'[s].code \in Finish)
        /\ sv'[s].pc \in {"workers", "close", "down"} => sv'[s].open = FALSE /\ data[s] = <<>>
        /\ sv'[s].pc \in {"close", "down"} => WorkersEnded(s)
        /\ sv[s].pc \notin {"data", "down"} /\ sv'[s].pc \notin {"off", "data"}
        /\ \A t \in Servers \ {s} : sv'[t] = sv[t] /\ nc'[t] = nc[t]
        /\ nc'[s] = nc[s] \/ (sv[s].pc = "off" /\ sv'[s].pc = "accept")
    BY <1>1, <1>2, <1>3
  <1> QED
    BY ONLY LifecycleInv, s \in Servers, <1>1, <1>2, <1>3, <1>4, <1>5, LoopKeeps

\* The control connection is accepted and its code read.
LEMMA AcceptControlKeeps == ASSUME LifecycleInv, NEW s \in Servers, AcceptControl(s) PROVE LifecycleInv'
  <1>0. /\ sv \in [Servers -> Loops] /\ backlog \in [Servers -> Seq(Asking)]
        /\ nc' \in [Servers -> [pc : {"none", "accept", "run", "end"}, who : Clients]]
    BY TypeOf DEF AcceptControl
  <1>1. PICK p \in Asking : p = Head(backlog[s]) /\ Tail(backlog[s]) \in Seq(Asking)
    <2>1. backlog[s] # <<>> /\ backlog[s] \in Seq(Asking)
      BY <1>0 DEF AcceptControl
    <2> QED
      BY <2>1
  <1>2. /\ UNCHANGED <<mode, ctl, data, wire, disp, runs, ans, cl, st>>
        /\ sv[s].pc = "accept" /\ nc' = nc
        /\ sv' = [sv EXCEPT ![s].pc = "recv", ![s].peer = p]
        /\ backlog' = [backlog EXCEPT ![s] = Tail(backlog[s])]
    BY <1>1 DEF AcceptControl
  <1>3. sv' \in [Servers -> Loops] /\ backlog' \in [Servers -> Seq(Asking)]
    <2>1. sv' \in [Servers -> Loops]
      <3>1. sv' = [sv EXCEPT ![s].pc = "recv", ![s].peer = p] /\ sv \in [Servers -> Loops]
        BY <1>0, <1>2
      <3>2. ASSUME NEW t \in Servers PROVE sv'[t] \in Loops
        BY <3>1, <3>2 DEF Loops
      <3>3. sv' = [t \in Servers |-> sv'[t]]
        BY <3>1
      <3> QED
        BY <3>2, <3>3
    <2>2. backlog' \in [Servers -> Seq(Asking)]
      <3>1. backlog' = [backlog EXCEPT ![s] = Tail(backlog[s])] /\ Tail(backlog[s]) \in Seq(Asking)
        BY <1>1, <1>2
      <3> QED
        BY ONLY <1>0, <3>1
    <2> QED
      BY <2>1, <2>2
  <1>4. sv'[s].pc = "recv" /\ sv'[s].code = sv[s].code /\ \A t \in Servers \ {s} : sv'[t] = sv[t]
    BY <1>0, <1>2 DEF Loops
  <1>5. sv'[s].code \in {"0", Code} \union Finish
    BY <1>4 DEF LifecycleInv, CodeOk
  <1>6. /\ sv'[s].pc = "switch" => ctl[s][sv'[s].peer].up # "" /\ (sv'[s].peer = Stop => sv'[s].code \in Finish)
        /\ sv'[s].pc \in {"workers", "close", "down"} => sv'[s].open = FALSE /\ data[s] = <<>>
        /\ sv'[s].pc \in {"close", "down"} => WorkersEnded(s)
        /\ sv[s].pc \notin {"data", "down"} /\ sv'[s].pc \notin {"off", "data"}
        /\ \A t \in Servers \ {s} : sv'[t] = sv[t] /\ nc'[t] = nc[t]
        /\ nc'[s] = nc[s]
    BY <1>2, <1>4
  <1> QED
    BY ONLY LifecycleInv, s \in Servers, <1>0, <1>2, <1>3, <1>5, <1>6, LoopKeeps

LEMMA RecvCodeKeeps == ASSUME LifecycleInv, NEW s \in Servers, RecvCode(s) PROVE LifecycleInv'
  <1>0. /\ sv \in [Servers -> Loops] /\ ctl \in [Servers -> [Asking -> Lines]]
        /\ nc' \in [Servers -> [pc : {"none", "accept", "run", "end"}, who : Clients]]
        /\ backlog' \in [Servers -> Seq(Asking)]
    BY TypeOf DEF RecvCode
  <1>1. PICK p \in Asking, up \in {"", "eof", "MPI", "SCK_CONN", "SCK_NO_CONN", "FINISH", "FINISH_AWAIT"} :
          p = sv[s].peer /\ up = ctl[s][p].up
    <2>1. sv[s].peer \in Asking
      BY <1>0 DEF Loops
    <2>2. ctl[s][sv[s].peer] \in Lines
      BY <1>0, <2>1
    <2> QED
      BY <2>1, <2>2 DEF Lines
  <1>2. /\ UNCHANGED <<mode, ctl, data, wire, disp, runs, ans, cl, st>>
        /\ sv[s].pc = "recv" /\ up # "" /\ nc' = nc
        /\ \/ up # "eof" /\ sv' = [sv EXCEPT ![s].pc = "switch", ![s].code = up]
           \/ up = "eof" /\ sv' = [sv EXCEPT ![s].pc = "switch"]
           \/ up = "eof" /\ sv' = [sv EXCEPT ![s].pc = "accept"]
    BY <1>1 DEF RecvCode
  <1>3. /\ up \in {"eof", Code} \union Finish
        /\ p = Stop => up \in Finish
        /\ sv[s].code \in {"0", Code} \union Finish
    BY <1>1, <1>2 DEF LifecycleInv, CodeOk, Asking
  <1>4. /\ sv'[s].peer = p /\ \A t \in Servers \ {s} : sv'[t] = sv[t]
        /\ \/ sv'[s].pc = "switch" /\ sv'[s].code = up /\ up # "eof"
           \/ sv'[s].pc \in {"switch", "accept"} /\ sv'[s].code = sv[s].code /\ up = "eof"
    <2>1. CASE up # "eof" /\ sv' = [sv EXCEPT ![s].pc = "switch", ![s].code = up]
      BY ZenonT(60), <1>0, <1>1, <2>1 DEF Loops
    <2>2. CASE up = "eof" /\ sv' = [sv EXCEPT ![s].pc = "switch"]
      BY <1>0, <1>1, <2>2 DEF Loops
    <2>3. CASE up = "eof" /\ sv' = [sv EXCEPT ![s].pc = "accept"]
      BY <1>0, <1>1, <2>3 DEF Loops
    <2> QED
      BY <1>2, <2>1, <2>2, <2>3
  <1>5. sv' \in [Servers -> Loops]
    <2>1. CASE up # "eof" /\ sv' = [sv EXCEPT ![s].pc = "switch", ![s].code = up]
      <3>1. up \in {"0", "MPI", "SCK_CONN", "SCK_NO_CONN", "FINISH", "FINISH_AWAIT"}
        BY <1>2, <2>1
      <3>2. ASSUME NEW t \in Servers PROVE sv'[t] \in Loops
        BY ZenonT(60), <1>0, <2>1, <3>1, <3>2 DEF Loops
      <3>3. sv' = [t \in Servers |-> sv'[t]]
        BY <1>0, <2>1
      <3> QED
        BY <3>2, <3>3
    <2>2. CASE up = "eof" /\ sv' = [sv EXCEPT ![s].pc = "switch"]
      BY ZenonT(60), <1>0, <2>2 DEF Loops
    <2>3. CASE up = "eof" /\ sv' = [sv EXCEPT ![s].pc = "accept"]
      BY ZenonT(60), <1>0, <2>3 DEF Loops
    <2> QED
      BY <1>2, <2>1, <2>2, <2>3
  <1>6. sv'[s].code \in {"0", Code} \union Finish
    BY <1>3, <1>4
  <1>7. /\ sv'[s].pc = "switch" => ctl[s][sv'[s].peer].up # "" /\ (sv'[s].peer = Stop => sv'[s].code \in Finish)
        /\ sv'[s].pc \in {"workers", "close", "down"} => sv'[s].open = FALSE /\ data[s] = <<>>
        /\ sv'[s].pc \in {"close", "down"} => WorkersEnded(s)
        /\ sv[s].pc \notin {"data", "down"} /\ sv'[s].pc \notin {"off", "data"}
        /\ \A t \in Servers \ {s} : sv'[t] = sv[t] /\ nc'[t] = nc[t]
        /\ nc'[s] = nc[s]
    BY <1>1, <1>2, <1>3, <1>4 DEF Finish
  <1> QED
    BY ONLY LifecycleInv, s \in Servers, <1>0, <1>2, <1>5, <1>6, <1>7, LoopKeeps

LEMMA LoopReturnsKeeps ==
  ASSUME LifecycleInv, NEW s \in Servers, DispatcherReturns(s) \/ WorkersDestroy(s)
  PROVE  LifecycleInv'
  <1>0. /\ sv \in [Servers -> Loops] /\ backlog' \in [Servers -> Seq(Asking)]
        /\ nc' \in [Servers -> [pc : {"none", "accept", "run", "end"}, who : Clients]]
    BY TypeOf DEF DispatcherReturns, WorkersDestroy
  <1>1. /\ UNCHANGED <<mode, ctl, data, wire, disp, runs, ans, cl, st>>
        /\ sv[s].pc \in {"inline", "workers"} /\ nc' = nc
    BY DEF DispatcherReturns, WorkersDestroy
  <1>2. PICK pc \in {"accept", "close"} :
          sv' = [sv EXCEPT ![s].pc = pc] /\ (pc = "close" => WorkersEnded(s) /\ sv[s].pc = "workers")
    BY DEF DispatcherReturns, WorkersDestroy
  <1>3. /\ sv' \in [Servers -> Loops] /\ sv'[s].pc = pc /\ sv'[s].code = sv[s].code /\ sv'[s].open = sv[s].open
        /\ \A t \in Servers \ {s} : sv'[t] = sv[t]
    BY ZenonT(60), <1>0, <1>2 DEF Loops
  <1>4. sv'[s].code \in {"0", Code} \union Finish
    BY <1>3 DEF LifecycleInv, CodeOk
  <1>5. pc = "close" => sv[s].open = FALSE /\ data[s] = <<>>
    BY <1>2 DEF LifecycleInv, EndOk
  <1>6. /\ sv'[s].pc = "switch" => ctl[s][sv'[s].peer].up # "" /\ (sv'[s].peer = Stop => sv'[s].code \in Finish)
        /\ sv'[s].pc \in {"workers", "close", "down"} => sv'[s].open = FALSE /\ data[s] = <<>>
        /\ sv'[s].pc \in {"close", "down"} => WorkersEnded(s)
        /\ sv[s].pc \notin {"data", "down"} /\ sv'[s].pc \notin {"off", "data"}
        /\ \A t \in Servers \ {s} : sv'[t] = sv[t] /\ nc'[t] = nc[t]
        /\ nc'[s] = nc[s]
    BY <1>1, <1>2, <1>3, <1>5
  <1> QED
    BY ONLY LifecycleInv, s \in Servers, <1>0, <1>1, <1>3, <1>4, <1>6, LoopKeeps

\* A step in which the loop of s tells something on its control connections.
LEMMA TellKeeps ==
  ASSUME LifecycleInv, NEW s \in Servers, UNCHANGED <<mode, data, wire, disp, runs, nc, ans, cl, st>>,
         sv' \in [Servers -> Loops], backlog' \in [Servers -> Seq(Asking)],
         ctl' \in [Servers -> [Asking -> Lines]],
         \A t \in Servers \ {s} : sv'[t] = sv[t] /\ ctl'[t] = ctl[t],
         sv[s].pc \notin {"data", "down"}, sv'[s].pc \notin {"off", "switch"}, sv'[s].code = sv[s].code,
         sv'[s].pc = "data" => mode.keep = 1,
         \A r \in Asking : ctl'[s][r].up = ctl[s][r].up /\ (ctl[s][r].down # "" => ctl'[s][r].down # ""),
         ctl'[s][Stop].down # "" => sv'[s].pc = "down",
         \A c \in Clients : ctl'[s][c].down = "port" /\ ctl[s][c].down # "port" =>
            /\ ctl[s][c].up # ""
            /\ ~Mpi /\ mode.keep = 1 /\ Living(c) => sv'[s].pc = "data" /\ sv'[s].peer = c,
         sv'[s].pc \in {"workers", "close", "down"} => sv'[s].open = FALSE /\ data[s] = <<>>,
         sv'[s].pc \in {"close", "down"} => WorkersEnded(s)
  PROVE  LifecycleInv'
  <1>1. LifecycleType'
    BY DEF LifecycleInv, LifecycleType
  <1>2. ASSUME NEW t \in Servers PROVE CodeOk(t)' /\ PortOk(t)' /\ EndOk(t)'
    <2>0. CodeOk(t) /\ PortOk(t) /\ EndOk(t)
      BY DEF LifecycleInv
    <2>1. CodeOk(t)'
      <3>1. CASE t # s
        BY <2>0, <3>1 DEF CodeOk, Code, Mpi
      <3>2. CASE t = s
        BY <2>0, <3>2, StopIsNoClient DEF CodeOk, Code, Mpi
      <3> QED
        BY <3>1, <3>2
    <2>2. PortOk(t)'
      <3>1. CASE t # s
        BY <2>0, <3>1 DEF PortOk, Told, Mpi
      <3>2. CASE t = s
        <4> SUFFICES ASSUME ~Mpi, mode.keep = 1
                     PROVE  /\ \A c \in Clients : Told(s, c)' => sv'[s].pc = "data" /\ sv'[s].peer = c /\ data[s] = <<>>
                            /\ data[s] # <<>> => sv'[s].pc = "data" /\ Len(data[s]) = 1
          BY <3>2 DEF PortOk, Mpi
        <4>1. data[s] = <<>> /\ \A c \in Clients : ~Told(s, c)
          BY <2>0, <3>2 DEF PortOk
        <4>2. ASSUME NEW c \in Clients, Told(s, c)' PROVE sv'[s].pc = "data" /\ sv'[s].peer = c
          <5>1. ctl'[s][c].down = "port" /\ ctl[s][c].down # "port" /\ cl[c].pc = "asked"
            BY <4>1, <4>2 DEF Told
          <5> QED
            BY <5>1 DEF Living
        <4> QED
          BY <4>1, <4>2
      <3> QED
        BY <3>1, <3>2
    <2>3. EndOk(t)'
      <3>1. CASE t # s
        BY <2>0, <3>1 DEF EndOk, WorkersEnded
      <3>2. CASE t = s
        BY <2>0, <3>2 DEF EndOk, WorkersEnded
      <3> QED
        BY <3>1, <3>2
    <2> QED
      BY <2>1, <2>2, <2>3
  <1>3. ASSUME NEW t \in Servers, NEW c \in Clients PROVE AskOk(t, c)' /\ KeptOk(t, c)'
    <2>0. AskOk(t, c) /\ KeptOk(t, c) /\ c \in Asking
      BY StopIsNoClient DEF LifecycleInv
    <2>1. AskOk(t, c)'
      <3>1. CASE t # s
        BY <2>0, <3>1 DEF AskOk, Mpi
      <3>2. CASE t = s
        BY <2>0, <3>2 DEF AskOk, Mpi
      <3> QED
        BY <3>1, <3>2
    <2>2. KeptOk(t, c)'
      BY <2>0 DEF KeptOk, Mpi, Living, Served
    <2> QED
      BY <2>1, <2>2
  <1>4. ASSUME NEW c \in Clients PROVE JobOk(c)' /\ CallOk(c)'
    BY DEF LifecycleInv, JobOk, CallOk, Mpi, Living
  <1>5. StopInv'
    <2>1. \A t \in Servers : ctl[t][Stop].down # "" => ctl'[t][Stop].down # ""
      BY StopIsNoClient
    <2>2. st.sockets \in Seq(Servers)
      BY DEF LifecycleInv, LifecycleType
    <2> QED
      BY <2>1, <2>2, StopKept DEF LifecycleInv
  <1> QED
    BY <1>1, <1>2, <1>3, <1>4, <1>5 DEF LifecycleInv

\* The loop tells a port only to a client, and for a kept connection stays for it.
LEMMA SendPortKeeps == ASSUME LifecycleInv, NEW s \in Servers, SendPort(s) PROVE LifecycleInv'
  <1>0. sv \in [Servers -> Loops] /\ ctl \in [Servers -> [Asking -> Lines]] /\ CodeOk(s)
    BY TypeOf DEF LifecycleInv
  <1>1. PICK p \in Asking : p = sv[s].peer
    BY <1>0 DEF Loops
  <1>2. PICK pc \in {"accept", "data"} :
          /\ sv' = [sv EXCEPT ![s].pc = pc]
          /\ pc = (IF sv[s].code = "SCK_NO_CONN" THEN "accept" ELSE "data") \/ (PeerGone(s) /\ pc = "accept")
    BY DEF SendPort
  <1>3. /\ sv[s].pc = "switch" /\ sv[s].code \in {"MPI", "SCK_CONN", "SCK_NO_CONN"}
        /\ ctl' = [ctl EXCEPT ![s][p].down = "port"]
        /\ UNCHANGED <<mode, data, wire, disp, runs, nc, ans, cl, st>> /\ backlog' \in [Servers -> Seq(Asking)]
    BY <1>1, TypeOf DEF SendPort
  <1>4. sv[s].code = Code /\ p \in Clients /\ ctl[s][p].up # ""
    BY <1>0, <1>1, <1>3 DEF CodeOk, Finish, Asking
  <1>5. /\ sv' \in [Servers -> Loops] /\ sv'[s].pc = pc /\ sv'[s].code = sv[s].code /\ sv'[s].peer = p
        /\ \A t \in Servers \ {s} : sv'[t] = sv[t]
    BY <1>0, <1>1, <1>2 DEF Loops
  <1>6. /\ ctl' \in [Servers -> [Asking -> Lines]]
        /\ \A t \in Servers \ {s} : ctl'[t] = ctl[t]
        /\ \A r \in Asking \ {p} : ctl'[s][r] = ctl[s][r]
        /\ ctl'[s][p].down = "port" /\ ctl'[s][p].up = ctl[s][p].up
    <2>1. ctl' = [ctl EXCEPT ![s][p].down = "port"]
      BY <1>3
    <2>2. PICK l \in Lines : l = ctl[s][p]
      BY <1>0
    <2>3. PICK m : m = [l EXCEPT !.down = "port"]
      OBVIOUS
    <2>4. m \in Lines /\ m.down = "port" /\ m.up = l.up
      BY <2>3 DEF Lines
    <2>5. PICK h : h = [ctl[s] EXCEPT ![p] = m]
      OBVIOUS
    <2>6. h \in [Asking -> Lines] /\ h[p] = m /\ \A r \in Asking \ {p} : h[r] = ctl[s][r]
      BY <1>0, <2>4, <2>5
    <2>7. ctl' = [ctl EXCEPT ![s] = h]
      BY <2>1, <2>2, <2>3, <2>5
    <2> QED
      BY <1>0, <2>2, <2>4, <2>6, <2>7
  <1>7. ~Mpi /\ mode.keep = 1 /\ Living(p) => pc = "data"
    BY <1>1, <1>2, <1>4 DEF Code, PeerGone, Dead, Living
  <1>8. /\ \A r \in Asking : ctl'[s][r].up = ctl[s][r].up /\ (ctl[s][r].down # "" => ctl'[s][r].down # "")
        /\ \A c \in Clients : ctl'[s][c].down = "port" /\ ctl[s][c].down # "port" =>
             /\ ctl[s][c].up # ""
             /\ ~Mpi /\ mode.keep = 1 /\ Living(c) => sv'[s].pc = "data" /\ sv'[s].peer = c
    BY <1>4, <1>5, <1>6, <1>7, StopIsNoClient
  <1>9. ctl'[s][Stop].down # "" => sv'[s].pc = "down"
    <2>1. ctl'[s][Stop] = ctl[s][Stop]
      BY <1>4, <1>6, StopIsNoClient
    <2> QED
      BY <1>3, <2>1 DEF LifecycleInv, EndOk
  <1>11. pc = "data" => mode.keep = 1
    <2>1. mode \in Modes
      BY TypeOf
    <2> QED
      BY <1>0, <1>2, <1>4, <2>1, LifecycleAssumption DEF Code, Mpi, CodeOk, PeerGone
  <1>10. /\ \A t \in Servers \ {s} : sv'[t] = sv[t] /\ ctl'[t] = ctl[t]
         /\ sv[s].pc \notin {"data", "down"} /\ sv'[s].pc \notin {"off", "switch"} /\ sv'[s].code = sv[s].code
         /\ sv'[s].pc \in {"workers", "close", "down"} => sv'[s].open = FALSE /\ data[s] = <<>>
         /\ sv'[s].pc \in {"close", "down"} => WorkersEnded(s)
         /\ sv'[s].pc = "data" => mode.keep = 1
    BY <1>3, <1>5, <1>6, <1>11
  <1> QED
    BY ONLY LifecycleInv, s \in Servers, <1>3, <1>5, <1>6, <1>8, <1>9, <1>10, TellKeeps

LEMMA UnknownCodeKeeps == ASSUME LifecycleInv, NEW s \in Servers, UnknownCode(s) PROVE LifecycleInv'
  <1>0. sv \in [Servers -> Loops] /\ ctl \in [Servers -> [Asking -> Lines]] /\ CodeOk(s)
    BY TypeOf DEF LifecycleInv
  <1>1. PICK p \in Asking : p = sv[s].peer
    BY <1>0 DEF Loops
  <1>2. /\ sv[s].pc = "switch" /\ sv[s].code = "0" /\ sv' = [sv EXCEPT ![s].pc = "accept"]
        /\ ctl' = [ctl EXCEPT ![s][p].down = "eof"]
        /\ UNCHANGED <<mode, data, wire, disp, runs, nc, ans, cl, st>> /\ backlog' \in [Servers -> Seq(Asking)]
    BY <1>1, TypeOf DEF UnknownCode
  <1>3. p # Stop
    BY <1>0, <1>1, <1>2 DEF CodeOk, Finish
  <1>4. /\ sv' \in [Servers -> Loops] /\ sv'[s].pc = "accept" /\ sv'[s].code = sv[s].code
        /\ \A t \in Servers \ {s} : sv'[t] = sv[t]
    BY <1>0, <1>2 DEF Loops
  <1>5. /\ ctl' \in [Servers -> [Asking -> Lines]]
        /\ \A t \in Servers \ {s} : ctl'[t] = ctl[t]
        /\ \A r \in Asking \ {p} : ctl'[s][r] = ctl[s][r]
        /\ ctl'[s][p].down = "eof" /\ ctl'[s][p].up = ctl[s][p].up
    <2>1. ctl' = [ctl EXCEPT ![s][p].down = "eof"]
      BY <1>2
    <2>2. PICK l \in Lines : l = ctl[s][p]
      BY <1>0
    <2>3. PICK m : m = [l EXCEPT !.down = "eof"]
      OBVIOUS
    <2>4. m \in Lines /\ m.down = "eof" /\ m.up = l.up
      BY <2>3 DEF Lines
    <2>5. PICK h : h = [ctl[s] EXCEPT ![p] = m]
      OBVIOUS
    <2>6. h \in [Asking -> Lines] /\ h[p] = m /\ \A r \in Asking \ {p} : h[r] = ctl[s][r]
      BY <1>0, <2>4, <2>5
    <2>7. ctl' = [ctl EXCEPT ![s] = h]
      BY <2>1, <2>2, <2>3, <2>5
    <2> QED
      BY <1>0, <2>2, <2>4, <2>6, <2>7
  <1>6. /\ \A r \in Asking : ctl'[s][r].up = ctl[s][r].up /\ (ctl[s][r].down # "" => ctl'[s][r].down # "")
        /\ \A c \in Clients : ctl'[s][c].down = "port" /\ ctl[s][c].down # "port" =>
             /\ ctl[s][c].up # ""
             /\ ~Mpi /\ mode.keep = 1 /\ Living(c) => sv'[s].pc = "data" /\ sv'[s].peer = c
    BY <1>5, StopIsNoClient
  <1>7. ctl'[s][Stop].down # "" => sv'[s].pc = "down"
    <2>1. ctl'[s][Stop] = ctl[s][Stop]
      BY <1>3, <1>5, StopIsNoClient
    <2> QED
      BY <1>2, <2>1 DEF LifecycleInv, EndOk
  <1>8. /\ \A t \in Servers \ {s} : sv'[t] = sv[t] /\ ctl'[t] = ctl[t]
        /\ sv[s].pc \notin {"data", "down"} /\ sv'[s].pc \notin {"off", "switch"} /\ sv'[s].code = sv[s].code
        /\ sv'[s].pc \in {"workers", "close", "down"} => sv'[s].open = FALSE /\ data[s] = <<>>
        /\ sv'[s].pc \in {"close", "down"} => WorkersEnded(s)
        /\ sv'[s].pc = "data" => mode.keep = 1
    BY <1>2, <1>4, <1>5
  <1> QED
    BY ONLY LifecycleInv, s \in Servers, <1>2, <1>4, <1>5, <1>6, <1>7, <1>8, TellKeeps

\* The end of xpn_server_up: whoever is told something finds the server ended.
LEMMA UpKeeps == ASSUME LifecycleInv, NEW s \in Servers, Up(s) PROVE LifecycleInv'
  <1>0. /\ sv \in [Servers -> Loops] /\ ctl \in [Servers -> [Asking -> Lines]] /\ EndOk(s)
        /\ backlog \in [Servers -> Seq(Asking)]
    BY TypeOf DEF LifecycleInv
  <1>1. /\ sv[s].pc = "close" /\ sv' = [sv EXCEPT ![s].pc = "down"]
        /\ UNCHANGED <<mode, data, wire, disp, runs, nc, ans, cl, st>>
    BY DEF Up
  <1>2. /\ sv' \in [Servers -> Loops] /\ sv'[s].pc = "down" /\ sv'[s].code = sv[s].code /\ sv'[s].open = sv[s].open
        /\ \A t \in Servers \ {s} : sv'[t] = sv[t]
    BY ZenonT(60), <1>0, <1>1 DEF Loops
  <1>3. backlog' \in [Servers -> Seq(Asking)]
    <2>1. backlog' = [backlog EXCEPT ![s] = <<>>]
      BY DEF Up
    <2> QED
      BY ONLY <1>0, <2>1
  <1>4. PICK f : /\ ctl' = [ctl EXCEPT ![s] = f] /\ f = [r \in Asking |-> f[r]]
                 /\ \A r \in Asking : \/ f[r] = [ctl[s][r] EXCEPT !.down = "eof"]
                                      \/ f[r] = [ctl[s][r] EXCEPT !.down = "code"]
                                      \/ f[r] = ctl[s][r]
    <2> DEFINE g == [r \in Asking |->
               CASE r \in {backlog[s][i] : i \in 1 .. Len(backlog[s])} -> [ctl[s][r] EXCEPT !.down = "eof"]
                 [] r = sv[s].peer /\ sv[s].code = "FINISH_AWAIT" -> [ctl[s][r] EXCEPT !.down = "code"]
                 [] OTHER -> ctl[s][r]]
    <2>1. ctl' = [ctl EXCEPT ![s] = g]
      BY DEF Up
    <2>2. \A r \in Asking : \/ g[r] = [ctl[s][r] EXCEPT !.down = "eof"]
                            \/ g[r] = [ctl[s][r] EXCEPT !.down = "code"]
                            \/ g[r] = ctl[s][r]
      OBVIOUS
    <2>3. PICK f : f = g
      OBVIOUS
    <2>4. ctl' = [ctl EXCEPT ![s] = f]
      BY <2>1, <2>3
    <2>5. f = [r \in Asking |-> f[r]]
      BY <2>3
    <2>6. \A r \in Asking : \/ f[r] = [ctl[s][r] EXCEPT !.down = "eof"]
                            \/ f[r] = [ctl[s][r] EXCEPT !.down = "code"]
                            \/ f[r] = ctl[s][r]
      BY <2>2, <2>3
    <2> HIDE DEF g
    <2> QED
      BY <2>4, <2>5, <2>6
  <1>5. ASSUME NEW r \in Asking
        PROVE  f[r] \in Lines /\ f[r].up = ctl[s][r].up /\ f[r].down \in {"eof", "code", ctl[s][r].down}
    <2>0. PICK l \in Lines : l = ctl[s][r]
      BY <1>0
    <2>1. CASE f[r] = [l EXCEPT !.down = "eof"]
      BY <2>0, <2>1 DEF Lines
    <2>2. CASE f[r] = [l EXCEPT !.down = "code"]
      BY <2>0, <2>2 DEF Lines
    <2>3. CASE f[r] = l
      BY <2>0, <2>3 DEF Lines
    <2> QED
      BY <1>4, <2>0, <2>1, <2>2, <2>3
  <1>6. /\ ctl' \in [Servers -> [Asking -> Lines]] /\ \A t \in Servers \ {s} : ctl'[t] = ctl[t]
        /\ ctl'[s] = f
    BY <1>0, <1>4, <1>5
  <1>7. /\ \A r \in Asking : ctl'[s][r].up = ctl[s][r].up /\ (ctl[s][r].down # "" => ctl'[s][r].down # "")
        /\ \A c \in Clients : ctl'[s][c].down = "port" /\ ctl[s][c].down # "port" =>
             /\ ctl[s][c].up # ""
             /\ ~Mpi /\ mode.keep = 1 /\ Living(c) => sv'[s].pc = "data" /\ sv'[s].peer = c
    BY <1>5, <1>6, StopIsNoClient
  <1>8. /\ \A t \in Servers \ {s} : sv'[t] = sv[t] /\ ctl'[t] = ctl[t]
        /\ sv[s].pc \notin {"data", "down"} /\ sv'[s].pc \notin {"off", "switch"} /\ sv'[s].code = sv[s].code
        /\ sv'[s].pc \in {"workers", "close", "down"} => sv'[s].open = FALSE /\ data[s] = <<>>
        /\ sv'[s].pc \in {"close", "down"} => WorkersEnded(s)
        /\ ctl'[s][Stop].down # "" => sv'[s].pc = "down"
        /\ sv'[s].pc = "data" => mode.keep = 1
    BY <1>0, <1>1, <1>2, <1>6 DEF EndOk
  <1> QED
    BY ONLY LifecycleInv, s \in Servers, <1>1, <1>2, <1>3, <1>6, <1>7, <1>8, TellKeeps

\* The function of the connections that the accept loop and the dispatchers change.
LEMMA DispatcherChange ==
  ASSUME LifecycleInv, NEW s \in Servers, NEW o \in Clients, NEW h,
         NEW v \in {"none", "read", "run", "bye", "lost", "ended"},
         h = [disp[s] EXCEPT ![o] = v], disp' = [disp EXCEPT ![s] = h]
  PROVE  /\ disp' \in [Servers -> [Clients -> {"none", "read", "run", "bye", "lost", "ended"}]]
         /\ \A t \in Servers : \A c \in Clients : (t # s \/ c # o) => disp'[t][c] = disp[t][c]
         /\ disp'[s][o] = v
  <1>1. disp \in [Servers -> [Clients -> {"none", "read", "run", "bye", "lost", "ended"}]]
    BY DEF LifecycleInv, LifecycleType
  <1>2. /\ h \in [Clients -> {"none", "read", "run", "bye", "lost", "ended"}] /\ h[o] = v
        /\ \A c \in Clients \ {o} : h[c] = disp[s][c]
    BY <1>1
  <1> QED
    BY ONLY <1>1, <1>2, disp' = [disp EXCEPT ![s] = h], s \in Servers, o \in Clients

\* The connection that is kept gets its dispatcher.
LEMMA AcceptDataKeeps == ASSUME LifecycleInv, NEW s \in Servers, AcceptData(s) PROVE LifecycleInv'
  <1>0. sv \in [Servers -> Loops] /\ data \in [Servers -> Seq(Arrivals)] /\ mode \in Modes
    BY TypeOf
  <1>1. /\ ~Mpi /\ sv[s].pc = "data" /\ data[s] # <<>>
        /\ UNCHANGED <<mode, backlog, ctl, wire, runs, nc, ans, cl, bc, st>>
    BY DEF AcceptData
  <1>2. PICK c \in Clients : c = Head(data[s]).who
    <2>1. Head(data[s]) \in Arrivals
      BY <1>0, <1>1
    <2> QED
      BY <2>1 DEF Arrivals
  <1>3. disp' = [disp EXCEPT ![s][c] = "read"]
    BY <1>2 DEF AcceptData
  <1>4. /\ disp' \in [Servers -> [Clients -> {"none", "read", "run", "bye", "lost", "ended"}]]
        /\ \A t \in Servers : \A d \in Clients : (t # s \/ d # c) => disp'[t][d] = disp[t][d]
        /\ disp'[s][c] = "read"
    BY <1>3, DispatcherChange
  <1>5. PICK pc \in {"accept", "inline"} : pc = AfterLaunch
    BY DEF AfterLaunch
  <1>6. sv' = [sv EXCEPT ![s].pc = pc, ![s].comm = c]
    BY <1>2, <1>5 DEF AcceptData
  <1>7. sv' \in [Servers -> Loops]
    <2>1. ASSUME NEW t \in Servers PROVE sv'[t] \in Loops
      BY <1>0, <1>6 DEF Loops
    <2>2. sv' = [t \in Servers |-> sv'[t]]
      BY <1>0, <1>6
    <2> QED
      BY <2>1, <2>2
  <1>8. /\ sv'[s].pc = pc /\ sv'[s].code = sv[s].code /\ sv'[s].peer = sv[s].peer
        /\ \A t \in Servers \ {s} : sv'[t] = sv[t]
    BY <1>0, <1>6 DEF Loops
  <1>9. PICK d : d = Tail(data[s]) /\ data' = [data EXCEPT ![s] = d]
    BY DEF AcceptData
  <1>10. d \in Seq(Arrivals) /\ data' \in [Servers -> Seq(Arrivals)]
         /\ data'[s] = d /\ \A t \in Servers \ {s} : data'[t] = data[t]
    <2>1. d \in Seq(Arrivals)
      BY <1>0, <1>1, <1>9
    <2> QED
      BY <1>0, <1>9, <2>1
  <1>11. mode.keep = 1 /\ Len(data[s]) = 1 /\ d = <<>> /\ \A e \in Clients : ~Told(s, e)
    <2>1. CodeOk(s) /\ PortOk(s)
      BY DEF LifecycleInv
    <2>2. mode.keep = 1
      BY <1>1, <2>1 DEF CodeOk
    <2>3. Len(data[s]) = 1 /\ \A e \in Clients : ~Told(s, e)
      BY <1>1, <2>1, <2>2 DEF PortOk
    <2>4. d = <<>>
      BY <1>0, <1>9, <2>3
    <2> QED
      BY <2>2, <2>3, <2>4
  <1>12. LifecycleType'
    BY <1>1, <1>4, <1>7, <1>10 DEF LifecycleInv, LifecycleType
  <1>13. ASSUME NEW t \in Servers PROVE CodeOk(t)' /\ PortOk(t)' /\ EndOk(t)'
    <2>0. CodeOk(t) /\ PortOk(t) /\ EndOk(t)
      BY DEF LifecycleInv
    <2>1. CodeOk(t)'
      BY <1>1, <1>8, <2>0 DEF CodeOk, Code, Mpi
    <2>2. PortOk(t)'
      <3>1. CASE t # s
        BY <1>1, <1>8, <1>10, <2>0, <3>1 DEF PortOk, Told, Mpi
      <3>2. CASE t = s
        BY <1>1, <1>10, <1>11, <3>2 DEF PortOk, Told, Mpi
      <3> QED
        BY <3>1, <3>2
    <2>3. EndOk(t)'
      <3>1. CASE t # s
        BY <1>1, <1>4, <1>8, <1>10, <2>0, <3>1 DEF EndOk, WorkersEnded
      <3>2. CASE t = s
        BY <1>1, <1>8, <2>0, <3>2 DEF EndOk
      <3> QED
        BY <3>1, <3>2
    <2> QED
      BY <2>1, <2>2, <2>3
  <1>14. ASSUME NEW t \in Servers, NEW e \in Clients PROVE AskOk(t, e)' /\ KeptOk(t, e)'
    <2>0. AskOk(t, e) /\ KeptOk(t, e)
      BY DEF LifecycleInv
    <2>1. AskOk(t, e)'
      BY <1>1, <2>0 DEF AskOk, Mpi
    <2>2. KeptOk(t, e)'
      <3>1. CASE t # s
        <4>1. disp'[t][e] = disp[t][e] /\ data'[t] = data[t]
          BY <1>4, <1>10, <3>1
        <4> QED
          BY <1>1, <2>0, <4>1 DEF KeptOk, Mpi, Living, Served
      <3>2. CASE t = s
        <4>1. Served(s, e) => Served(s, e)'
          <5>1. ASSUME NEW i \in DOMAIN data[s] PROVE data[s][i].who = c
            BY <1>0, <1>2, <1>11
          <5> QED
            BY <1>1, <1>4, <5>1 DEF Served, Mpi
        <4> QED
          BY <1>1, <2>0, <3>2, <4>1 DEF KeptOk, Mpi, Living
      <3> QED
        BY <3>1, <3>2
    <2> QED
      BY <2>1, <2>2
  <1>15. ASSUME NEW e \in Clients PROVE JobOk(e)' /\ CallOk(e)'
    BY <1>1, <1>11 DEF LifecycleInv, JobOk, CallOk, Mpi, Living
  <1>16. StopInv'
    BY <1>1 DEF LifecycleInv, StopInv, Hosts
  <1> QED
    BY <1>12, <1>13, <1>14, <1>15, <1>16 DEF LifecycleInv

\* xpn_server_finish shuts the ports: a call that was not accepted is cut.
LEMMA CommDestroyKeeps == ASSUME LifecycleInv, NEW s \in Servers, CommDestroy(s) PROVE LifecycleInv'
  <1>0. /\ sv \in [Servers -> Loops] /\ data \in [Servers -> Seq(Arrivals)] /\ mode \in Modes
        /\ ans \in [Servers -> SUBSET Clients]
    BY TypeOf DEF LifecycleInv, LifecycleType
  <1>1. /\ sv[s].pc = "switch"
        /\ UNCHANGED <<mode, backlog, ctl, wire, disp, runs, nc, cl, bc, st>>
    BY DEF CommDestroy
  <1>2. sv' = [sv EXCEPT ![s].pc = "workers", ![s].open = FALSE]
    BY DEF CommDestroy
  <1>3. sv' \in [Servers -> Loops]
    <2>1. ASSUME NEW t \in Servers PROVE sv'[t] \in Loops
      BY <1>0, <1>2 DEF Loops
    <2>2. sv' = [t \in Servers |-> sv'[t]]
      BY <1>0, <1>2
    <2> QED
      BY <2>1, <2>2
  <1>4. /\ sv'[s].pc = "workers" /\ sv'[s].open = FALSE /\ sv'[s].code = sv[s].code
        /\ \A t \in Servers \ {s} : sv'[t] = sv[t]
    BY <1>0, <1>2 DEF Loops
  <1>5. data' \in [Servers -> Seq(Arrivals)] /\ data'[s] = <<>> /\ \A t \in Servers \ {s} : data'[t] = data[t]
    <2>1. data' = [data EXCEPT ![s] = <<>>]
      BY DEF CommDestroy
    <2> QED
      BY <1>0, <2>1
  <1>6. PICK cut : /\ cut = {data[s][i].who : i \in {j \in 1 .. Len(data[s]) : data[s][j].op}}
                   /\ ans' = [ans EXCEPT ![s] = @ \union cut]
    BY DEF CommDestroy
  <1>7. cut \subseteq Clients
    <2>1. ASSUME NEW i \in 1 .. Len(data[s]) PROVE data[s][i].who \in Clients
      <3>1. data[s][i] \in Arrivals
        BY <1>0
      <3> QED
        BY <3>1 DEF Arrivals
    <2> QED
      BY <1>6, <2>1
  <1>8. ans' \in [Servers -> SUBSET Clients] /\ ans'[s] = ans[s] \union cut /\ \A t \in Servers \ {s} : ans'[t] = ans[t]
    BY <1>0, <1>6, <1>7
  <1>12. LifecycleType'
    BY <1>1, <1>3, <1>5, <1>8 DEF LifecycleInv, LifecycleType
  <1>13. ASSUME NEW t \in Servers PROVE CodeOk(t)' /\ PortOk(t)' /\ EndOk(t)'
    <2>0. CodeOk(t) /\ PortOk(t) /\ EndOk(t)
      BY DEF LifecycleInv
    <2>1. CodeOk(t)'
      BY <1>1, <1>4, <2>0 DEF CodeOk, Code, Mpi
    <2>2. PortOk(t)'
      <3>1. CASE t # s
        BY <1>1, <1>4, <1>5, <2>0, <3>1 DEF PortOk, Told, Mpi
      <3>2. CASE t = s
        BY <1>1, <1>5, <2>0, <3>2 DEF PortOk, Told, Mpi
      <3> QED
        BY <3>1, <3>2
    <2>3. EndOk(t)'
      <3>1. CASE t # s
        BY <1>1, <1>4, <1>5, <2>0, <3>1 DEF EndOk, WorkersEnded
      <3>2. CASE t = s
        BY <1>1, <1>4, <1>5, <2>0, <3>2 DEF EndOk
      <3> QED
        BY <3>1, <3>2
    <2> QED
      BY <2>1, <2>2, <2>3
  <1>14. ASSUME NEW t \in Servers, NEW e \in Clients PROVE AskOk(t, e)' /\ KeptOk(t, e)'
    <2>0. AskOk(t, e) /\ KeptOk(t, e) /\ PortOk(t)
      BY DEF LifecycleInv
    <2>1. AskOk(t, e)'
      BY <1>1, <2>0 DEF AskOk, Mpi
    <2>2. KeptOk(t, e)'
      <3>1. CASE t # s
        BY <1>1, <1>5, <2>0, <3>1 DEF KeptOk, Mpi, Living, Served
      <3>2. CASE t = s
        <4>1. ASSUME mode.keep = 1, Served(s, e) PROVE Served(s, e)'
          <5>1. ~Mpi => data[s] = <<>>
            BY <1>1, <2>0, <3>2, <4>1 DEF PortOk
          <5> QED
            BY <1>1, <4>1, <5>1 DEF Served, Mpi
        <4> QED
          BY <1>1, <2>0, <3>2, <4>1 DEF KeptOk, Mpi, Living
      <3> QED
        BY <3>1, <3>2
    <2> QED
      BY <2>1, <2>2
  <1>15. ASSUME NEW e \in Clients PROVE JobOk(e)' /\ CallOk(e)'
    <2>0. JobOk(e) /\ CallOk(e)
      BY DEF LifecycleInv
    <2>1. JobOk(e)'
      BY <1>1, <2>0 DEF JobOk, Mpi, Living
    <2>2. CallOk(e)'
      <3>1. PICK a \in Servers : a = cl[e].at
        BY DEF LifecycleInv, LifecycleType, Procs
      <3>2. CASE a # s
        BY <1>1, <1>5, <1>8, <2>0, <3>1, <3>2 DEF CallOk
      <3>3. CASE a = s
        <4>1. ASSUME NEW i \in DOMAIN data[s], data[s][i] = [who |-> e, op |-> TRUE] PROVE e \in cut
          <5>1. i \in 1 .. Len(data[s]) /\ data[s][i].op /\ data[s][i].who = e
            BY <1>0, <4>1
          <5> QED
            BY <1>6, <5>1
        <4> QED
          BY <1>1, <1>8, <2>0, <3>1, <3>3, <4>1 DEF CallOk
      <3> QED
        BY <3>2, <3>3
    <2> QED
      BY <2>1, <2>2
  <1>16. StopInv'
    BY <1>1 DEF LifecycleInv, StopInv, Hosts
  <1> QED
    BY <1>12, <1>13, <1>14, <1>15, <1>16 DEF LifecycleInv

-----------------------------------------------------------------------------
(* The threads *)

\* A step of a thread of s: what the loop, the clients and the stop have said stays.
LEMMA ThreadKeeps ==
  ASSUME LifecycleInv, NEW s \in Servers, UNCHANGED <<mode, sv, backlog, ctl, cl, st>>,
         data' \in [Servers -> Seq(Arrivals)],
         wire' \in [Servers -> [Clients -> Seq(Clients \union {"disc", "eof"})]],
         disp' \in [Servers -> [Clients -> {"none", "read", "run", "bye", "lost", "ended"}]],
         runs' \in [Servers -> SUBSET Clients],
         nc' \in [Servers -> [pc : {"none", "accept", "run", "end"}, who : Clients]],
         ans' \in [Servers -> SUBSET Clients],
         \A t \in Servers \ {s} : /\ data'[t] = data[t] /\ wire'[t] = wire[t] /\ runs'[t] = runs[t]
                                  /\ nc'[t] = nc[t] /\ \A c \in Clients : disp'[t][c] = disp[t][c],
         ~WorkersEnded(s), sv[s].pc = "off" => nc'[s].pc = "none",
         data'[s] = data[s] \/ (mode.keep = 0 /\ data[s] # <<>>),
         \A c \in Clients : wire[s][c] = <<>> => wire'[s][c] = <<>>,
         \A c \in Clients : KeptOk(s, c)' /\ JobOk(c)' /\ CallOk(c)'
  PROVE  LifecycleInv'
  <1>0. mode' = mode /\ sv' = sv /\ ctl' = ctl /\ cl' = cl
    OBVIOUS
  <1>1. LifecycleType'
    BY DEF LifecycleInv, LifecycleType
  <1>2. ASSUME NEW t \in Servers PROVE CodeOk(t)' /\ PortOk(t)' /\ EndOk(t)'
    <2>0. CodeOk(t) /\ PortOk(t) /\ EndOk(t)
      BY DEF LifecycleInv
    <2>1. CodeOk(t)'
      BY ONLY <1>0, <2>0 DEF CodeOk, Code, Mpi
    <2>2. PortOk(t)'
      <3>1. mode.keep = 1 => data'[t] = data[t]
        OBVIOUS
      <3> QED
        BY ONLY <1>0, <2>0, <3>1 DEF PortOk, Told, Mpi
    <2>3. EndOk(t)'
      <3>1. CASE t # s
        BY ZenonT(60), <2>0, <3>1 DEF EndOk, WorkersEnded
      <3>2. CASE t = s
        BY <2>0, <3>2 DEF EndOk
      <3> QED
        BY <3>1, <3>2
    <2> QED
      BY <2>1, <2>2, <2>3
  <1>3. ASSUME NEW t \in Servers, NEW c \in Clients PROVE AskOk(t, c)' /\ KeptOk(t, c)'
    <2>0. AskOk(t, c) /\ KeptOk(t, c)
      BY DEF LifecycleInv
    <2>1. AskOk(t, c)'
      <3>1. wire[t][c] = <<>> => wire'[t][c] = <<>>
        OBVIOUS
      <3> QED
        BY ONLY <1>0, <2>0, <3>1 DEF AskOk, Mpi
    <2>2. KeptOk(t, c)'
      <3>1. CASE t # s
        <4>1. Root \in Clients
          BY LifecycleAssumption
        <4>2. /\ disp'[t][c] = disp[t][c] /\ disp'[t][Root] = disp[t][Root]
              /\ data'[t] = data[t] /\ wire'[t] = wire[t]
          BY <3>1, <4>1
        <4> QED
          BY ONLY <1>0, <2>0, <4>2 DEF KeptOk, Mpi, Living, Served
      <3> QED
        BY <3>1
    <2> QED
      BY <2>1, <2>2
  <1>4. StopInv'
    BY DEF LifecycleInv, StopInv, Hosts
  <1> QED
    BY <1>1, <1>2, <1>3, <1>4 DEF LifecycleInv

\* The parts of the state that the threads change.
LEMMA ThreadTypeOf ==
  ASSUME LifecycleInv
  PROVE  /\ data \in [Servers -> Seq(Arrivals)]
         /\ wire \in [Servers -> [Clients -> Seq(Clients \union {"disc", "eof"})]]
         /\ disp \in [Servers -> [Clients -> {"none", "read", "run", "bye", "lost", "ended"}]]
         /\ runs \in [Servers -> SUBSET Clients]
         /\ nc \in [Servers -> [pc : {"none", "accept", "run", "end"}, who : Clients]]
         /\ ans \in [Servers -> SUBSET Clients] /\ cl \in [Clients -> Procs]
  BY DEF LifecycleInv, LifecycleType

LEMMA LostDispatcherEndsKeeps ==
  ASSUME LifecycleInv, NEW s \in Servers, NEW o \in Clients, LostDispatcherEnds(s, o)
  PROVE  LifecycleInv'
  <1>1. /\ disp[s][o] = "lost" /\ disp' = [disp EXCEPT ![s][o] = "ended"]
        /\ UNCHANGED <<mode, sv, backlog, ctl, data, wire, runs, nc, ans, cl, bc, st>>
    BY DEF LostDispatcherEnds
  <1>2. /\ disp' \in [Servers -> [Clients -> {"none", "read", "run", "bye", "lost", "ended"}]]
        /\ \A t \in Servers : \A c \in Clients : (t # s \/ c # o) => disp'[t][c] = disp[t][c]
        /\ disp'[s][o] = "ended"
    BY <1>1, DispatcherChange
  <1>3. ASSUME NEW c \in Clients PROVE KeptOk(s, c)' /\ JobOk(c)' /\ CallOk(c)'
    <2>0. KeptOk(s, c) /\ JobOk(c) /\ CallOk(c) /\ Root \in Clients
      BY LifecycleAssumption DEF LifecycleInv
    <2>1. KeptOk(s, c)'
      <3>1. Served(s, c) => Served(s, c)'
        BY <1>1, <1>2, <2>0 DEF Served, Mpi
      <3> QED
        BY <1>1, <2>0, <3>1 DEF KeptOk, Mpi, Living
    <2>2. JobOk(c)' /\ CallOk(c)'
      BY <1>1, <2>0 DEF JobOk, CallOk, Mpi, Living
    <2> QED
      BY <2>1, <2>2
  <1>4. ~WorkersEnded(s)
    BY <1>1 DEF WorkersEnded
  <1>5. sv[s].pc = "off" => nc'[s].pc = "none"
    BY <1>1 DEF LifecycleInv, EndOk
  <1>6. /\ data' \in [Servers -> Seq(Arrivals)] /\ runs' \in [Servers -> SUBSET Clients]
        /\ wire' \in [Servers -> [Clients -> Seq(Clients \union {"disc", "eof"})]]
        /\ nc' \in [Servers -> [pc : {"none", "accept", "run", "end"}, who : Clients]]
        /\ ans' \in [Servers -> SUBSET Clients]
    BY <1>1, ThreadTypeOf
  <1>7. \A t \in Servers \ {s} : /\ data'[t] = data[t] /\ wire'[t] = wire[t] /\ runs'[t] = runs[t]
                                 /\ nc'[t] = nc[t] /\ \A c \in Clients : disp'[t][c] = disp[t][c]
    BY <1>1, <1>2
  <1> QED
    BY <1>1, <1>2, <1>3, <1>4, <1>5, <1>6, <1>7, ThreadKeeps

\* An operation that is run is answered.
LEMMA RunOperationKeeps ==
  ASSUME LifecycleInv, NEW s \in Servers, NEW o \in Clients, RunOperation(s, o)
  PROVE  LifecycleInv'
  <1>0. /\ runs \in [Servers -> SUBSET Clients] /\ ans \in [Servers -> SUBSET Clients] /\ Root \in Clients
        /\ disp \in [Servers -> [Clients -> {"none", "read", "run", "bye", "lost", "ended"}]]
    BY ThreadTypeOf, LifecycleAssumption
  <1>1. /\ o \in runs[s] /\ runs' = [runs EXCEPT ![s] = @ \ {o}] /\ ans' = [ans EXCEPT ![s] = @ \union {o}]
        /\ UNCHANGED <<mode, sv, backlog, ctl, data, wire, nc, cl, bc, st>>
    BY DEF RunOperation
  <1>2. PICK w \in Clients : w = Owner(o)
    BY <1>0 DEF Owner
  <1>3. PICK v \in {"none", "read", "run", "bye", "lost", "ended"} :
          v = IF disp[s][w] = "run" THEN "read" ELSE disp[s][w]
    BY <1>0
  <1>4. disp' = [disp EXCEPT ![s][w] = v]
    BY <1>2, <1>3 DEF RunOperation
  <1>5. /\ disp' \in [Servers -> [Clients -> {"none", "read", "run", "bye", "lost", "ended"}]]
        /\ \A t \in Servers : \A c \in Clients : (t # s \/ c # w) => disp'[t][c] = disp[t][c]
        /\ disp'[s][w] = v
    <2>1. PICK h : h = [disp[s] EXCEPT ![w] = v]
      OBVIOUS
    <2>2. disp' = [disp EXCEPT ![s] = h]
      BY <1>4, <2>1
    <2>3. disp \in [Servers -> [Clients -> {"none", "read", "run", "bye", "lost", "ended"}]]
      BY ThreadTypeOf
    <2>4. /\ h \in [Clients -> {"none", "read", "run", "bye", "lost", "ended"}] /\ h[w] = v
          /\ \A c \in Clients \ {w} : h[c] = disp[s][c]
      BY <2>1, <2>3
    <2> QED
      BY ONLY <2>2, <2>3, <2>4, s \in Servers, w \in Clients
  <1>6. /\ runs' \in [Servers -> SUBSET Clients] /\ \A t \in Servers \ {s} : runs'[t] = runs[t]
        /\ ans' \in [Servers -> SUBSET Clients] /\ \A t \in Servers : ans[t] \subseteq ans'[t]
    BY <1>0, <1>1
  <1>7. ASSUME NEW c \in Clients PROVE KeptOk(s, c)' /\ JobOk(c)' /\ CallOk(c)'
    <2>0. KeptOk(s, c) /\ JobOk(c) /\ CallOk(c)
      BY DEF LifecycleInv
    <2>1. KeptOk(s, c)'
      <3>1. Served(s, c) => Served(s, c)'
        BY <1>0, <1>1, <1>3, <1>5 DEF Served, Mpi
      <3> QED
        BY <1>1, <2>0, <3>1 DEF KeptOk, Mpi, Living
    <2>2. JobOk(c)'
      BY <1>1, <2>0 DEF JobOk, Mpi, Living
    <2>3. CallOk(c)'
      <3>1. PICK a \in Servers : a = cl[c].at
        BY DEF LifecycleInv, LifecycleType, Procs
      <3> QED
        BY <1>1, <1>6, <2>0, <3>1 DEF CallOk
    <2> QED
      BY <2>1, <2>2, <2>3
  <1>8. ~WorkersEnded(s)
    BY <1>1 DEF WorkersEnded
  <1>9. sv[s].pc = "off" => nc'[s].pc = "none"
    BY <1>1 DEF LifecycleInv, EndOk
  <1>10. /\ data' \in [Servers -> Seq(Arrivals)]
         /\ wire' \in [Servers -> [Clients -> Seq(Clients \union {"disc", "eof"})]]
         /\ nc' \in [Servers -> [pc : {"none", "accept", "run", "end"}, who : Clients]]
    BY <1>1, ThreadTypeOf
  <1>11. \A t \in Servers \ {s} : /\ data'[t] = data[t] /\ wire'[t] = wire[t] /\ runs'[t] = runs[t]
                                  /\ nc'[t] = nc[t] /\ \A c \in Clients : disp'[t][c] = disp[t][c]
    BY <1>1, <1>5, <1>6
  <1>12. /\ UNCHANGED <<mode, sv, backlog, ctl, cl, st>>
         /\ data'[s] = data[s] /\ \A c \in Clients : wire[s][c] = <<>> => wire'[s][c] = <<>>
    BY <1>1
  <1> QED
    BY ONLY LifecycleInv, s \in Servers, <1>5, <1>6, <1>7, <1>8, <1>9, <1>10, <1>11, <1>12, ThreadKeeps

\* The next request of a connection: only DISCONNECT ends the dispatcher of a living client.
LEMMA DispatcherKeeps ==
  ASSUME LifecycleInv, NEW s \in Servers, NEW o \in Clients, Dispatcher(s, o)
  PROVE  LifecycleInv'
  <1>0. /\ runs \in [Servers -> SUBSET Clients] /\ Root \in Clients
        /\ wire \in [Servers -> [Clients -> Seq(Clients \union {"disc", "eof"})]]
    BY ThreadTypeOf, LifecycleAssumption
  <1>1. /\ disp[s][o] = "read" /\ wire[s][o] # <<>>
        /\ UNCHANGED <<mode, sv, backlog, ctl, data, nc, ans, cl, bc, st>>
    BY DEF Dispatcher
  <1>2. PICK m : m = Head(wire[s][o])
    OBVIOUS
  <1>3. wire[s][o] \in Seq(Clients \union {"disc", "eof"})
    BY <1>0
  <1>4. m = wire[s][o][1] /\ 1 \in DOMAIN wire[s][o]
    BY <1>1, <1>2, <1>3
  <1>5. PICK v \in {"none", "read", "run", "bye", "lost", "ended"} :
          v = CASE m = "disc" -> AfterDisconnect
                [] m = "eof"  -> "lost"
                [] OTHER      -> IF Concurrent THEN "read" ELSE "run"
    BY DEF AfterDisconnect
  <1>6. disp' = [disp EXCEPT ![s][o] = v]
    BY <1>2, <1>5 DEF Dispatcher, ReadOperation
  <1>7. /\ disp' \in [Servers -> [Clients -> {"none", "read", "run", "bye", "lost", "ended"}]]
        /\ \A t \in Servers : \A c \in Clients : (t # s \/ c # o) => disp'[t][c] = disp[t][c]
        /\ disp'[s][o] = v
    <2>1. PICK h : h = [disp[s] EXCEPT ![o] = v]
      OBVIOUS
    <2>2. disp' = [disp EXCEPT ![s] = h]
      BY <1>6, <2>1
    <2>3. disp \in [Servers -> [Clients -> {"none", "read", "run", "bye", "lost", "ended"}]]
      BY ThreadTypeOf
    <2>4. /\ h \in [Clients -> {"none", "read", "run", "bye", "lost", "ended"}] /\ h[o] = v
          /\ \A c \in Clients \ {o} : h[c] = disp[s][c]
      BY <2>1, <2>3
    <2> QED
      BY ONLY <2>2, <2>3, <2>4, s \in Servers, o \in Clients
  <1>8. /\ m \notin {"disc", "eof"} => v \in {"read", "run"}
        /\ m = "disc" /\ Mpi => v = "bye"
    BY <1>5 DEF AfterDisconnect
  <1>9. runs' \in [Servers -> SUBSET Clients] /\ \A t \in Servers \ {s} : runs'[t] = runs[t]
    <2>1. runs' = [runs EXCEPT ![s] = @ \union ({m} \intersect Clients)]
      BY <1>2 DEF Dispatcher, ReadOperation
    <2> QED
      BY <1>0, <2>1
  <1>10. PICK w : w = Tail(wire[s][o])
    OBVIOUS
  <1>11. /\ w \in Seq(Clients \union {"disc", "eof"})
         /\ \A i \in DOMAIN w : i + 1 \in DOMAIN wire[s][o] /\ w[i] = wire[s][o][i + 1]
    BY <1>1, <1>3, <1>10
  <1>12. /\ wire' \in [Servers -> [Clients -> Seq(Clients \union {"disc", "eof"})]]
         /\ \A t \in Servers \ {s} : wire'[t] = wire[t]
         /\ \A c \in Clients \ {o} : wire'[s][c] = wire[s][c]
         /\ wire'[s][o] = w
    <2>1. wire' = [wire EXCEPT ![s][o] = w]
      BY <1>10 DEF Dispatcher
    <2>2. PICK h : h = [wire[s] EXCEPT ![o] = w]
      OBVIOUS
    <2>3. wire' = [wire EXCEPT ![s] = h]
      BY <2>1, <2>2
    <2>4. /\ h \in [Clients -> Seq(Clients \union {"disc", "eof"})] /\ h[o] = w
          /\ \A c \in Clients \ {o} : h[c] = wire[s][c]
      BY <1>0, <1>11, <2>2
    <2> QED
      BY ONLY <1>0, <2>3, <2>4, s \in Servers
  <1>13. ASSUME NEW c \in Clients PROVE KeptOk(s, c)' /\ JobOk(c)' /\ CallOk(c)'
    <2>0. KeptOk(s, c) /\ JobOk(c) /\ CallOk(c)
      BY DEF LifecycleInv
    <2>1. KeptOk(s, c)'
      <3> SUFFICES ASSUME mode.keep = 1, Living(c), s \in cl[c].have
                   PROVE  Served(s, c)' /\ (~Mpi => \A i \in DOMAIN wire'[s][c] : wire'[s][c][i] = c)
        BY <1>1 DEF KeptOk, Mpi, Living
      <3>1. Served(s, c) /\ (~Mpi => \A i \in DOMAIN wire[s][c] : wire[s][c][i] = c)
        BY <2>0 DEF KeptOk
      <3>2. CASE Mpi
        <4>1. m # "eof" \/ o # Root
          BY <1>4, <2>0, <3>2 DEF JobOk
        <4>2. disp[s][Root] \in {"read", "run", "bye"}
          BY <3>1, <3>2 DEF Served
        <4>3. disp'[s][Root] \in {"read", "run", "bye"}
          BY <1>0, <1>7, <1>8, <3>2, <4>1, <4>2
        <4> QED
          BY <1>1, <3>2, <4>3 DEF Served, Mpi
      <3>3. CASE ~Mpi /\ c = o
        <4>1. m \notin {"disc", "eof"}
          BY <1>4, <3>1, <3>3, StopIsNoClient
        <4>2. Served(s, c)'
          BY <1>1, <1>7, <1>8, <3>3, <4>1 DEF Served, Mpi
        <4>3. \A i \in DOMAIN wire'[s][c] : wire'[s][c][i] = c
          BY <1>11, <1>12, <3>1, <3>3
        <4> QED
          BY <4>2, <4>3
      <3>4. CASE ~Mpi /\ c # o
        <4>1. disp'[s][c] = disp[s][c] /\ wire'[s][c] = wire[s][c]
          BY <1>7, <1>12, <3>4
        <4> QED
          BY <1>1, <3>1, <3>4, <4>1 DEF Served, Mpi
      <3> QED
        BY <3>2, <3>3, <3>4
    <2>2. JobOk(c)'
      <3>1. ASSUME Mpi, NEW t \in Servers, NEW i \in DOMAIN wire'[t][Root] PROVE wire'[t][Root][i] # "eof"
        <4>0. \A j \in DOMAIN wire[t][Root] : wire[t][Root][j] # "eof"
          BY <2>0, <3>1 DEF JobOk
        <4>1. CASE t = s /\ o = Root
          BY <1>11, <1>12, <4>0, <4>1
        <4>2. CASE ~(t = s /\ o = Root)
          <5>1. wire'[t][Root] = wire[t][Root]
            BY <1>0, <1>12, <4>2
          <5> QED
            BY <4>0, <5>1
        <4> QED
          BY <4>1, <4>2
      <3> QED
        BY <1>1, <2>0, <3>1 DEF JobOk, Mpi, Living
    <2>3. CallOk(c)'
      BY <1>1, <2>0 DEF CallOk
    <2> QED
      BY <2>1, <2>2, <2>3
  <1>14. ~WorkersEnded(s)
    BY <1>1 DEF WorkersEnded
  <1>15. sv[s].pc = "off" => nc'[s].pc = "none"
    BY <1>1 DEF LifecycleInv, EndOk
  <1>16. /\ data' \in [Servers -> Seq(Arrivals)] /\ ans' \in [Servers -> SUBSET Clients]
         /\ nc' \in [Servers -> [pc : {"none", "accept", "run", "end"}, who : Clients]]
    BY <1>1, ThreadTypeOf
  <1>17. \A t \in Servers \ {s} : /\ data'[t] = data[t] /\ wire'[t] = wire[t] /\ runs'[t] = runs[t]
                                  /\ nc'[t] = nc[t] /\ \A c \in Clients : disp'[t][c] = disp[t][c]
    BY <1>1, <1>7, <1>9, <1>12
  <1>18. /\ UNCHANGED <<mode, sv, backlog, ctl, cl, st>>
         /\ data'[s] = data[s] /\ \A c \in Clients : wire[s][c] = <<>> => wire'[s][c] = <<>>
    BY <1>1, <1>12
  <1> QED
    BY ONLY LifecycleInv, s \in Servers, <1>7, <1>9, <1>12, <1>13, <1>14, <1>15, <1>16, <1>17, <1>18, ThreadKeeps

\* The connectionless dispatcher takes a call, runs it, and ends once the port is shut.
LEMMA ConnectionlessKeeps ==
  ASSUME LifecycleInv, NEW s \in Servers, Connectionless(s)
  PROVE  LifecycleInv'
  <1>0. /\ data \in [Servers -> Seq(Arrivals)]
        /\ nc \in [Servers -> [pc : {"none", "accept", "run", "end"}, who : Clients]]
    BY ThreadTypeOf
  <1>1. /\ nc[s].pc = "accept" /\ mode.keep = 0 /\ data[s] # <<>>
        /\ UNCHANGED <<mode, sv, backlog, ctl, wire, disp, runs, ans, cl, bc, st>>
    BY DEF Connectionless
  <1>2. PICK a \in Arrivals : a = Head(data[s])
    BY <1>0, <1>1
  <1>3. a.who \in Clients /\ a.op \in BOOLEAN
    BY DEF Arrivals
  <1>4. PICK n \in [pc : {"none", "accept", "run", "end"}, who : Clients] :
          n = IF a.op THEN [pc |-> "run", who |-> a.who] ELSE nc[s]
    BY <1>0, <1>3
  <1>5. nc' = [nc EXCEPT ![s] = n]
    BY <1>2, <1>4 DEF Connectionless
  <1>6. /\ nc' \in [Servers -> [pc : {"none", "accept", "run", "end"}, who : Clients]]
        /\ nc'[s] = n /\ \A t \in Servers \ {s} : nc'[t] = nc[t]
    BY <1>0, <1>5
  <1>7. PICK d : d = Tail(data[s]) /\ data' = [data EXCEPT ![s] = d]
    BY DEF Connectionless
  <1>8. d \in Seq(Arrivals) /\ Len(d) = Len(data[s]) - 1 /\ \A i \in 1 .. Len(d) : d[i] = data[s][i + 1]
    BY <1>0, <1>1, <1>7
  <1>9. data' \in [Servers -> Seq(Arrivals)] /\ data'[s] = d /\ \A t \in Servers \ {s} : data'[t] = data[t]
    BY <1>0, <1>7, <1>8
  <1>10. ASSUME NEW c \in Clients PROVE KeptOk(s, c)' /\ JobOk(c)' /\ CallOk(c)'
    <2>0. JobOk(c) /\ CallOk(c)
      BY DEF LifecycleInv
    <2>1. KeptOk(s, c)'
      BY <1>1 DEF KeptOk
    <2>2. JobOk(c)'
      BY <1>1, <2>0 DEF JobOk, Mpi, Living
    <2>3. CallOk(c)'
      <3>1. PICK b \in Servers : b = cl[c].at
        BY DEF LifecycleInv, LifecycleType, Procs
      <3>2. CASE b # s
        BY ZenonT(60), <1>1, <1>6, <1>9, <2>0, <3>1, <3>2 DEF CallOk
      <3>3. CASE b = s
        <4> SUFFICES ASSUME cl[c].pc = "wait"
                     PROVE  \/ c \in ans[s]
                            \/ n.pc = "run" /\ n.who = c
                            \/ \E i \in DOMAIN d : d[i] = [who |-> c, op |-> TRUE]
          <5>1. cl' = cl /\ ans' = ans /\ mode' = mode /\ cl[c].at = s /\ nc'[s] = n /\ data'[s] = d /\ mode.keep # 1
            BY <1>1, <1>6, <1>9, <3>1, <3>3
          <5> QED
            BY <5>1 DEF CallOk
        <4>1. c \in ans[s] \/ \E i \in DOMAIN data[s] : data[s][i] = [who |-> c, op |-> TRUE]
          <5>1. cl[c].at = s /\ nc[s].pc # "run" /\ mode.keep # 1 /\ cl[c].pc = "wait" /\ CallOk(c)
            BY <1>1, <2>0, <3>1, <3>3
          <5> QED
            BY ONLY <5>1 DEF CallOk
        <4>2. ASSUME NEW i \in DOMAIN data[s], data[s][i] = [who |-> c, op |-> TRUE]
              PROVE  (n.pc = "run" /\ n.who = c) \/ \E j \in DOMAIN d : d[j] = [who |-> c, op |-> TRUE]
          <5>0. i \in 1 .. Len(data[s])
            BY <1>0
          <5>1. CASE i = 1
            <6>1. a = [who |-> c, op |-> TRUE]
              BY <1>0, <1>1, <1>2, <4>2, <5>1
            <6> QED
              BY <1>4, <6>1
          <5>2. CASE i # 1
            <6>1. i - 1 \in DOMAIN d /\ d[i - 1] = data[s][i]
              BY <1>0, <1>8, <5>0, <5>2
            <6> QED
              BY <4>2, <6>1
          <5> QED
            BY <5>1, <5>2
        <4> QED
          BY <4>1, <4>2
      <3> QED
        BY <3>2, <3>3
    <2> QED
      BY <2>1, <2>2, <2>3
  <1>11. ~WorkersEnded(s)
    BY <1>1 DEF WorkersEnded
  <1>12. sv[s].pc = "off" => nc'[s].pc = "none"
    BY <1>1 DEF LifecycleInv, EndOk
  <1>13. /\ runs' \in [Servers -> SUBSET Clients] /\ ans' \in [Servers -> SUBSET Clients]
         /\ wire' \in [Servers -> [Clients -> Seq(Clients \union {"disc", "eof"})]]
         /\ disp' \in [Servers -> [Clients -> {"none", "read", "run", "bye", "lost", "ended"}]]
    BY <1>1, ThreadTypeOf
  <1>14. \A t \in Servers \ {s} : /\ data'[t] = data[t] /\ wire'[t] = wire[t] /\ runs'[t] = runs[t]
                                  /\ nc'[t] = nc[t] /\ \A c \in Clients : disp'[t][c] = disp[t][c]
    BY <1>1, <1>6, <1>9
  <1>15. /\ UNCHANGED <<mode, sv, backlog, ctl, cl, st>> /\ mode.keep = 0 /\ data[s] # <<>>
         /\ \A c \in Clients : wire[s][c] = <<>> => wire'[s][c] = <<>>
    BY <1>1
  <1> QED
    BY ONLY LifecycleInv, s \in Servers, <1>6, <1>9, <1>10, <1>11, <1>12, <1>13, <1>14, <1>15, ThreadKeeps

LEMMA ConnectionlessRunKeeps ==
  ASSUME LifecycleInv, NEW s \in Servers, ConnectionlessRun(s) \/ ConnectionlessEnds(s)
  PROVE  LifecycleInv'
  <1>0. /\ ans \in [Servers -> SUBSET Clients]
        /\ nc \in [Servers -> [pc : {"none", "accept", "run", "end"}, who : Clients]]
    BY ThreadTypeOf
  <1>1. /\ nc[s].pc \in {"run", "accept"}
        /\ UNCHANGED <<mode, sv, backlog, ctl, data, wire, disp, runs, cl, bc, st>>
    BY DEF ConnectionlessRun, ConnectionlessEnds
  <1>2. PICK pc \in {"accept", "end"} : nc' = [nc EXCEPT ![s].pc = pc]
    BY DEF ConnectionlessRun, ConnectionlessEnds
  <1>3. nc[s].pc = "run" => ans' = [ans EXCEPT ![s] = @ \union {nc[s].who}]
    BY DEF ConnectionlessRun, ConnectionlessEnds
  <1>4. nc[s].pc = "accept" => ans' = ans
    BY DEF ConnectionlessRun, ConnectionlessEnds
  <1>5. /\ nc' \in [Servers -> [pc : {"none", "accept", "run", "end"}, who : Clients]]
        /\ \A t \in Servers \ {s} : nc'[t] = nc[t]
    BY <1>0, <1>2
  <1>6. /\ ans' \in [Servers -> SUBSET Clients] /\ \A t \in Servers : ans[t] \subseteq ans'[t]
        /\ nc[s].pc = "run" => nc[s].who \in ans'[s]
    <2>1. CASE nc[s].pc = "run"
      <3>1. PICK w \in Clients : w = nc[s].who
        BY <1>0
      <3>2. ans' = [ans EXCEPT ![s] = @ \union {w}]
        BY <1>3, <2>1, <3>1
      <3> QED
        BY <1>0, <3>1, <3>2
    <2>2. CASE nc[s].pc = "accept"
      BY <1>0, <1>4, <2>2
    <2> QED
      BY <1>1, <2>1, <2>2
  <1>7. ASSUME NEW c \in Clients PROVE KeptOk(s, c)' /\ JobOk(c)' /\ CallOk(c)'
    <2>0. KeptOk(s, c) /\ JobOk(c) /\ CallOk(c)
      BY DEF LifecycleInv
    <2>1. KeptOk(s, c)' /\ JobOk(c)'
      BY <1>1, <2>0 DEF KeptOk, JobOk, Served, Mpi, Living
    <2>2. CallOk(c)'
      <3>1. PICK a \in Servers : a = cl[c].at
        BY DEF LifecycleInv, LifecycleType, Procs
      <3>2. /\ cl' = cl /\ mode' = mode /\ data' = data /\ CallOk(c)
            /\ c \in ans[a] => c \in ans'[a]
            /\ nc[a].pc = "run" => c \in ans'[a] \/ nc'[a] = nc[a] \/ nc[a].who # c
        BY <1>1, <1>5, <1>6, <2>0
      <3> QED
        BY ONLY <3>1, <3>2 DEF CallOk
    <2> QED
      BY <2>1, <2>2
  <1>8. ~WorkersEnded(s)
    BY <1>1 DEF WorkersEnded
  <1>9. sv[s].pc = "off" => nc'[s].pc = "none"
    BY <1>1 DEF LifecycleInv, EndOk
  <1>10. /\ data' \in [Servers -> Seq(Arrivals)] /\ runs' \in [Servers -> SUBSET Clients]
         /\ wire' \in [Servers -> [Clients -> Seq(Clients \union {"disc", "eof"})]]
         /\ disp' \in [Servers -> [Clients -> {"none", "read", "run", "bye", "lost", "ended"}]]
    BY <1>1, ThreadTypeOf
  <1>11. \A t \in Servers \ {s} : /\ data'[t] = data[t] /\ wire'[t] = wire[t] /\ runs'[t] = runs[t]
                                  /\ nc'[t] = nc[t] /\ \A c \in Clients : disp'[t][c] = disp[t][c]
    BY <1>1, <1>5
  <1>12. /\ UNCHANGED <<mode, sv, backlog, ctl, cl, st>>
         /\ data'[s] = data[s] /\ \A c \in Clients : wire[s][c] = <<>> => wire'[s][c] = <<>>
    BY <1>1
  <1> QED
    BY ONLY LifecycleInv, s \in Servers, <1>5, <1>6, <1>7, <1>8, <1>9, <1>10, <1>11, <1>12, ThreadKeeps

-----------------------------------------------------------------------------
(* The clients *)

\* A step of client c: what it must show of itself, and that it disturbs no other.
LEMMA ClientKeeps ==
  ASSUME LifecycleInv, NEW c \in Clients, UNCHANGED <<mode, sv, disp, runs, nc, st>>,
         backlog' \in [Servers -> Seq(Asking)], ctl' \in [Servers -> [Asking -> Lines]],
         data' \in [Servers -> Seq(Arrivals)],
         wire' \in [Servers -> [Clients -> Seq(Clients \union {"disc", "eof"})]],
         ans' \in [Servers -> SUBSET Clients], cl' \in [Clients -> Procs],
         \A d \in Clients \ {c} : cl'[d] = cl[d],
         \A t \in Servers : \A r \in Asking \ {c} : ctl'[t][r] = ctl[t][r],
         \A t \in Servers : sv[t].pc \in {"workers", "close", "down"} => data'[t] = data[t],
         \A t \in Servers : \A i \in DOMAIN data[t] : i \in DOMAIN data'[t] /\ data'[t][i] = data[t][i],
         \A t \in Servers : \A d \in Clients \ {c} : d \in ans[t] => d \in ans'[t],
         \A t \in Servers : \A d \in Clients \ {c} : ~Mpi => wire'[t][d] = wire[t][d],
         \A t \in Servers : CodeOk(t)' /\ PortOk(t)' /\ AskOk(t, c)' /\ KeptOk(t, c)',
         \A d \in Clients : JobOk(d)', CallOk(c)'
  PROVE  LifecycleInv'
  <1>0. mode' = mode /\ sv' = sv /\ disp' = disp /\ runs' = runs /\ nc' = nc /\ st' = st
    OBVIOUS
  <1>1. LifecycleType'
    BY DEF LifecycleInv, LifecycleType
  <1>2. ASSUME NEW t \in Servers PROVE EndOk(t)'
    <2>0. EndOk(t)
      BY DEF LifecycleInv
    <2>1. ctl'[t][Stop] = ctl[t][Stop]
      BY StopIsNoClient
    <2>2. sv[t].pc \in {"workers", "close", "down"} => data'[t] = data[t]
      OBVIOUS
    <2> QED
      BY ONLY <1>0, <2>0, <2>1, <2>2 DEF EndOk, WorkersEnded
  <1>3. ASSUME NEW t \in Servers, NEW d \in Clients PROVE AskOk(t, d)' /\ KeptOk(t, d)'
    <2>0. AskOk(t, d) /\ KeptOk(t, d)
      BY DEF LifecycleInv
    <2>1. CASE d # c
      <3>1. cl'[d] = cl[d] /\ ctl'[t][d] = ctl[t][d] /\ (~Mpi => wire'[t][d] = wire[t][d])
        BY <2>1, StopIsNoClient
      <3>2. AskOk(t, d)'
        BY ONLY <1>0, <2>0, <3>1 DEF AskOk, Mpi
      <3>3. Served(t, d) => Served(t, d)'
        <4>1. \A i \in DOMAIN data[t] : i \in DOMAIN data'[t] /\ data'[t][i] = data[t][i]
          OBVIOUS
        <4> QED
          BY ONLY <1>0, <4>1 DEF Served, Mpi
      <3>4. KeptOk(t, d)'
        BY ONLY <1>0, <2>0, <3>1, <3>3 DEF KeptOk, Mpi, Living
      <3> QED
        BY <3>2, <3>4
    <2> QED
      BY <2>1
  <1>4. ASSUME NEW d \in Clients PROVE CallOk(d)'
    <2>0. CallOk(d)
      BY DEF LifecycleInv
    <2>1. CASE d # c
      <3>1. cl'[d] = cl[d]
        BY <2>1
      <3>2. PICK a \in Servers : a = cl[d].at
        BY DEF LifecycleInv, LifecycleType, Procs
      <3>3. /\ d \in ans[a] => d \in ans'[a]
            /\ \A i \in DOMAIN data[a] : i \in DOMAIN data'[a] /\ data'[a][i] = data[a][i]
        BY <2>1
      <3> QED
        BY ONLY <1>0, <2>0, <3>1, <3>2, <3>3 DEF CallOk
    <2> QED
      BY <2>1
  <1>5. StopInv'
    <2>1. \A t \in Servers : ctl'[t][Stop] = ctl[t][Stop]
      BY StopIsNoClient
    <2>2. st.sockets \in Seq(Servers)
      BY DEF LifecycleInv, LifecycleType
    <2> QED
      BY <2>1, <2>2, StopKept DEF LifecycleInv
  <1> QED
    BY <1>1, <1>2, <1>3, <1>4, <1>5 DEF LifecycleInv

\* A client that goes forward through the servers has asked none of those before it.
LEMMA AskKept ==
  ASSUME NEW t \in Servers, NEW c \in Clients, AskOk(t, c), cl[c] \in Procs, cl'[c] \in Procs,
         mode' = mode, ctl'[t][c] = ctl[t][c], wire'[t][c] = wire[t][c],
         cl'[c].pc \in Looking =>
           /\ cl[c].pc \in Looking
           /\ \/ cl[c].at < cl'[c].at
              \/ cl[c].at = cl'[c].at /\ (cl'[c].pc \in {"start", "opened"} => cl[c].pc \in {"start", "opened"})
  PROVE  AskOk(t, c)'
  <1>1. PICK a \in Servers, b \in Servers : a = cl[c].at /\ b = cl'[c].at
    BY DEF Procs
  <1>2. \A x \in Servers : x \in Int
    BY LifecycleAssumption DEF Servers
  <1>3. cl'[c].pc \in Looking =>
          /\ cl[c].pc \in Looking
          /\ a < b \/ (a = b /\ (cl'[c].pc \in {"start", "opened"} => cl[c].pc \in {"start", "opened"}))
    BY <1>1
  <1>4. ASSUME cl'[c].pc \in Looking, b < t \/ (b = t /\ cl'[c].pc \in {"start", "opened"})
        PROVE  ctl[t][c].up = ""
    <2>1. cl[c].pc \in Looking /\ (a < t \/ (a = t /\ cl[c].pc \in {"start", "opened"}))
      BY ONLY <1>2, <1>3, <1>4, t \in Servers, a \in Servers, b \in Servers
    <2> QED
      BY ONLY AskOk(t, c), <1>1, <2>1 DEF AskOk
  <1>5. ASSUME cl'[c].pc \in Looking, b <= t, ~Mpi
        PROVE  wire[t][c] = <<>>
    <2>1. cl[c].pc \in Looking /\ a <= t
      BY ONLY <1>2, <1>3, <1>5, t \in Servers, a \in Servers, b \in Servers
    <2> QED
      BY ONLY AskOk(t, c), <1>1, <1>5, <2>1 DEF AskOk
  <1>6. ctl[t][c].up = "" => ctl[t][c].down # "port"
    BY DEF AskOk
  <1>7. mode' = mode /\ ctl'[t][c] = ctl[t][c] /\ wire'[t][c] = wire[t][c]
    OBVIOUS
  <1> QED
    BY ONLY <1>1, <1>4, <1>5, <1>6, <1>7 DEF AskOk, Mpi

\* A step in which a client changes nothing but its own state, and takes no connection.
LEMMA ClientMoves ==
  ASSUME LifecycleInv, NEW c \in Clients, UNCHANGED <<mode, sv, ctl, data, wire, disp, runs, nc, ans, st>>,
         backlog' \in [Servers -> Seq(Asking)], cl' \in [Clients -> Procs],
         \A d \in Clients \ {c} : cl'[d] = cl[d],
         Living(c), Living(c)', cl'[c].pc # "wait", cl'[c].have \subseteq cl[c].have,
         cl'[c].pc \in Looking =>
           /\ cl[c].pc \in Looking
           /\ \/ cl[c].at < cl'[c].at
              \/ cl[c].at = cl'[c].at /\ (cl'[c].pc \in {"start", "opened"} => cl[c].pc \in {"start", "opened"}),
         \A t \in Servers : ~Mpi => (Told(t, c)' => Told(t, c))
  PROVE  LifecycleInv'
  <1>0. mode' = mode /\ sv' = sv /\ ctl' = ctl /\ data' = data /\ wire' = wire /\ disp' = disp
    OBVIOUS
  <1>1. ASSUME NEW t \in Servers PROVE CodeOk(t)' /\ PortOk(t)' /\ AskOk(t, c)' /\ KeptOk(t, c)'
    <2>0. CodeOk(t) /\ PortOk(t) /\ AskOk(t, c) /\ KeptOk(t, c)
      BY DEF LifecycleInv
    <2>1. CodeOk(t)'
      BY ONLY <1>0, <2>0 DEF CodeOk, Code, Mpi
    <2>2. PortOk(t)'
      <3>1. \A d \in Clients : ~Mpi => (Told(t, d)' => Told(t, d))
        BY <1>0 DEF Told
      <3> QED
        BY ONLY <1>0, <2>0, <3>1 DEF PortOk, Mpi
    <2>3. AskOk(t, c)'
      <3>1. cl[c] \in Procs /\ cl'[c] \in Procs
        BY TypeOf
      <3> QED
        BY <1>0, <2>0, <3>1, AskKept
    <2>4. KeptOk(t, c)'
      BY <1>0, <2>0 DEF KeptOk, Served, Mpi
    <2> QED
      BY <2>1, <2>2, <2>3, <2>4
  <1>2. ASSUME NEW d \in Clients PROVE JobOk(d)'
    <2>0. JobOk(d)
      BY DEF LifecycleInv
    <2>1. Living(d) => Living(d)'
      BY DEF Living
    <2> QED
      BY ONLY <1>0, <2>0, <2>1 DEF JobOk, Mpi
  <1>3. CallOk(c)'
    BY DEF CallOk
  <1>4. /\ data' \in [Servers -> Seq(Arrivals)]
        /\ wire' \in [Servers -> [Clients -> Seq(Clients \union {"disc", "eof"})]]
        /\ ans' \in [Servers -> SUBSET Clients] /\ ctl' \in [Servers -> [Asking -> Lines]]
    BY ThreadTypeOf, TypeOf
  <1> QED
    BY <1>1, <1>2, <1>3, <1>4, ClientKeeps

\* A client goes on to the next server, or to the next step with this one.
LEMMA LookupKeeps == ASSUME LifecycleInv, NEW c \in Clients, Lookup(c) PROVE LifecycleInv'
  <1>0. cl \in [Clients -> Procs] /\ cl[c] \in Procs /\ backlog \in [Servers -> Seq(Asking)] /\ cl[c].at \in Servers
    BY TypeOf DEF Procs
  <1>1. /\ cl[c].pc = "start" /\ UNCHANGED <<mode, sv, ctl, data, wire, disp, runs, nc, ans, st>>
    BY DEF Lookup
  <1>2. PICK s \in Servers : s = At(c)
    BY <1>0 DEF At, Order
  <1>3. CASE cl' = [cl EXCEPT ![c].pc = "opened"] /\ backlog' = [backlog EXCEPT ![s] = Append(@, c)]
    <2>1. cl' = [cl EXCEPT ![c].pc = "opened"]
      BY <1>3
    <2>2. /\ cl' \in [Clients -> Procs] /\ cl'[c].pc = "opened" /\ cl'[c].have = cl[c].have /\ cl'[c].at = cl[c].at
          /\ \A d \in Clients \ {c} : cl'[d] = cl[d]
      BY ONLY <1>0, <2>1, c \in Clients DEF Procs
    <2>3. backlog' \in [Servers -> Seq(Asking)]
      <3>1. Append(backlog[s], c) \in Seq(Asking)
        BY <1>0, StopIsNoClient
      <3> QED
        BY <1>0, <1>3, <3>1
    <2>4. Living(c) /\ Living(c)' /\ \A t \in Servers : ~Told(t, c)'
      BY <1>1, <2>2 DEF Living, Told
    <2>5. cl'[c].pc \in Looking =>
           /\ cl[c].pc \in Looking
           /\ \/ cl[c].at < cl'[c].at
              \/ cl[c].at = cl'[c].at /\ (cl'[c].pc \in {"start", "opened"} => cl[c].pc \in {"start", "opened"})
      BY <1>1, <2>2 DEF Looking
    <2> QED
      BY <1>1, <2>2, <2>3, <2>4, <2>5, ClientMoves
  <1>4. CASE cl' = [cl EXCEPT ![c] = Next1(cl[c], {s}, {})] /\ backlog' = backlog
    <2>1. PICK r : r = Next1(cl[c], {s}, {})
      OBVIOUS
    <2>2. r \in Procs /\ r.have = cl[c].have /\ r.pc \in {"start", "leave", "run"} /\ (r.pc = "start" => cl[c].at < r.at)
      BY <1>0, <2>1, WithoutOne
    <2>3. cl' \in [Clients -> Procs] /\ cl'[c] = r /\ \A d \in Clients \ {c} : cl'[d] = cl[d]
      BY <1>0, <1>4, <2>1, <2>2
    <2>4. Living(c) /\ Living(c)' /\ \A t \in Servers : ~Told(t, c)'
      BY <1>1, <2>2, <2>3 DEF Living, Told
    <2>5. cl'[c].pc \in Looking =>
           /\ cl[c].pc \in Looking
           /\ \/ cl[c].at < cl'[c].at
              \/ cl[c].at = cl'[c].at /\ (cl'[c].pc \in {"start", "opened"} => cl[c].pc \in {"start", "opened"})
      BY <1>1, <2>2, <2>3 DEF Looking
    <2> QED
      BY <1>0, <1>1, <1>4, <2>2, <2>3, <2>4, <2>5, ClientMoves
  <1> QED
    BY <1>2, <1>3, <1>4 DEF Lookup

LEMMA ReadPortKeeps == ASSUME LifecycleInv, NEW c \in Clients, ReadPort(c) \/ Bcast(c) PROVE LifecycleInv'
  <1>0. cl \in [Clients -> Procs] /\ cl[c] \in Procs /\ backlog' \in [Servers -> Seq(Asking)] /\ cl[c].at \in Servers
    BY TypeOf DEF Procs, ReadPort, Bcast
  <1>1. /\ cl[c].pc \in {"asked", "start"} /\ UNCHANGED <<mode, sv, ctl, data, wire, disp, runs, nc, ans, st>>
    BY DEF ReadPort, Bcast
  <1>2. PICK s \in Servers : s = At(c) /\ s = cl[c].at
    BY <1>0 DEF At, Order
  <1>3. PICK r : /\ cl' = [cl EXCEPT ![c] = r]
                 /\ \/ r = Next1(cl[c], {s}, {})
                    \/ r = [cl[c] EXCEPT !.pc = "connect"] /\ (Mpi \/ (cl[c].pc = "asked" /\ ctl[s][c].down = "port"))
    <2>1. CASE ReadPort(c)
      <3>1. PICK r : r = IF ctl[s][c].down = "port" THEN [cl[c] EXCEPT !.pc = "connect"] ELSE Next1(cl[c], {s}, {})
        OBVIOUS
      <3>2. cl' = [cl EXCEPT ![c] = r] /\ cl[c].pc = "asked"
        BY <1>2, <2>1, <3>1 DEF ReadPort
      <3> QED
        BY <3>1, <3>2
    <2>2. CASE Bcast(c)
      <3>1. PICK r : r = IF bc[s] = "ok" THEN [cl[c] EXCEPT !.pc = "connect"] ELSE Next1(cl[c], {s}, {})
        OBVIOUS
      <3>2. cl' = [cl EXCEPT ![c] = r] /\ Mpi
        BY <1>2, <2>2, <3>1 DEF Bcast
      <3> QED
        BY <3>1, <3>2
    <2> QED
      BY <2>1, <2>2
  <1>4. /\ r \in Procs /\ r.have = cl[c].have
        /\ \/ r.pc \in {"start", "leave", "run"} /\ (r.pc = "start" => cl[c].at < r.at)
           \/ r.pc = "connect" /\ r.at = s /\ (Mpi \/ (cl[c].pc = "asked" /\ ctl[s][c].down = "port"))
    <2>1. CASE r = Next1(cl[c], {s}, {})
      BY <1>0, <2>1, WithoutOne
    <2>2. CASE r = [cl[c] EXCEPT !.pc = "connect"]
      <3>1. r \in Procs /\ r.have = cl[c].have /\ r.pc = "connect" /\ r.at = cl[c].at
        BY ONLY <1>0, <2>2 DEF Procs
      <3>2. CASE Mpi \/ (cl[c].pc = "asked" /\ ctl[s][c].down = "port")
        BY <1>2, <3>1, <3>2
      <3>3. CASE r = Next1(cl[c], {s}, {})
        BY <2>1, <3>3
      <3> QED
        BY <1>3, <3>2, <3>3
    <2> QED
      BY <1>3, <2>1, <2>2
  <1>5. cl' \in [Clients -> Procs] /\ cl'[c] = r /\ \A d \in Clients \ {c} : cl'[d] = cl[d]
    <2>1. cl' = [cl EXCEPT ![c] = r]
      BY <1>3
    <2> QED
      BY ONLY <1>0, <1>4, <2>1, c \in Clients
  <1>6. Living(c) /\ Living(c)'
    BY <1>1, <1>4, <1>5 DEF Living
  <1>7. ASSUME NEW t \in Servers, ~Mpi, Told(t, c)' PROVE Told(t, c)
    BY <1>2, <1>4, <1>5, <1>7 DEF Told
  <1>8. cl'[c].pc \in Looking =>
         /\ cl[c].pc \in Looking
         /\ \/ cl[c].at < cl'[c].at
            \/ cl[c].at = cl'[c].at /\ (cl'[c].pc \in {"start", "opened"} => cl[c].pc \in {"start", "opened"})
    BY <1>1, <1>2, <1>4, <1>5 DEF Looking
  <1>9. cl'[c].pc # "wait" /\ cl'[c].have \subseteq cl[c].have /\ \A t \in Servers : ~Mpi => (Told(t, c)' => Told(t, c))
    BY <1>4, <1>5, <1>7
  <1> QED
    BY ONLY LifecycleInv, c \in Clients, <1>0, <1>1, <1>5, <1>6, <1>8, <1>9, ClientMoves

LEMMA LeaveKeeps == ASSUME LifecycleInv, NEW c \in Clients, Leave(c) PROVE LifecycleInv'
  <1>0. cl \in [Clients -> Procs] /\ backlog' \in [Servers -> Seq(Asking)]
    BY TypeOf DEF Leave
  <1>1. /\ cl[c].pc = "run" /\ UNCHANGED <<mode, sv, ctl, data, wire, disp, runs, nc, ans, st>>
        /\ cl' = [cl EXCEPT ![c].pc = "leave"]
    BY DEF Leave
  <1>2. /\ cl' \in [Clients -> Procs] /\ cl'[c].pc = "leave" /\ cl'[c].have = cl[c].have
        /\ \A d \in Clients \ {c} : cl'[d] = cl[d]
    BY <1>0, <1>1 DEF Procs
  <1>3. Living(c) /\ Living(c)' /\ (\A t \in Servers : ~Told(t, c)') /\ cl'[c].pc \notin Looking
    BY <1>1, <1>2 DEF Living, Told, Looking
  <1> QED
    BY <1>0, <1>1, <1>2, <1>3, ClientMoves

\* A client asks for a port: nobody has told it one of this server before.
LEMMA SendCodeKeeps == ASSUME LifecycleInv, NEW c \in Clients, SendCode(c) PROVE LifecycleInv'
  <1>0. /\ cl \in [Clients -> Procs] /\ ctl \in [Servers -> [Asking -> Lines]] /\ c \in Asking /\ mode \in Modes
        /\ backlog' \in [Servers -> Seq(Asking)]
    BY TypeOf, StopIsNoClient DEF SendCode
  <1>1. PICK s \in Servers : s = At(c) /\ s = cl[c].at
    BY <1>0 DEF At, Order, Procs
  <1>2. PICK v : v = Code
    OBVIOUS
  <1>3. v \in {"MPI", "SCK_CONN", "SCK_NO_CONN"}
    BY <1>2 DEF Code
  <1>4. cl[c].pc = "opened" /\ UNCHANGED <<mode, sv, data, wire, disp, runs, nc, ans, st>>
    BY DEF SendCode
  <1>5. /\ ctl' \in [Servers -> [Asking -> Lines]]
        /\ \A t \in Servers \ {s} : ctl'[t] = ctl[t]
        /\ \A r \in Asking \ {c} : ctl'[s][r] = ctl[s][r]
        /\ ctl'[s][c].up = v /\ ctl'[s][c].down = ctl[s][c].down
    <2>1. ctl' = [ctl EXCEPT ![s][c].up = v]
      BY <1>1, <1>2 DEF SendCode
    <2>2. PICK l \in Lines : l = ctl[s][c]
      BY <1>0
    <2>3. PICK m : m = [l EXCEPT !.up = v]
      OBVIOUS
    <2>4. m \in Lines /\ m.up = v /\ m.down = l.down
      BY <1>3, <2>3 DEF Lines
    <2>5. PICK h : h = [ctl[s] EXCEPT ![c] = m]
      OBVIOUS
    <2>6. h \in [Asking -> Lines] /\ h[c] = m /\ \A r \in Asking \ {c} : h[r] = ctl[s][r]
      BY <1>0, <2>4, <2>5
    <2>7. ctl' = [ctl EXCEPT ![s] = h]
      BY <2>1, <2>2, <2>3, <2>5
    <2> QED
      BY <1>0, <2>2, <2>4, <2>6, <2>7
  <1>6. /\ cl' \in [Clients -> Procs] /\ cl'[c].pc = "asked" /\ cl'[c].have = cl[c].have /\ cl'[c].at = s
        /\ \A d \in Clients \ {c} : cl'[d] = cl[d]
    <2>1. cl' = [cl EXCEPT ![c].pc = "asked"]
      BY DEF SendCode
    <2> QED
      BY ONLY <1>0, <1>1, <2>1, c \in Clients DEF Procs
  <1>7. ASSUME NEW t \in Servers PROVE CodeOk(t)' /\ PortOk(t)' /\ AskOk(t, c)' /\ KeptOk(t, c)'
    <2>0. CodeOk(t) /\ PortOk(t) /\ AskOk(t, c) /\ KeptOk(t, c)
      BY DEF LifecycleInv
    <2>1. CodeOk(t)'
      <3>0. v = Code' /\ Code' = Code /\ sv' = sv /\ mode' = mode
        BY <1>2, <1>4 DEF Code, Mpi
      <3>1. CASE t # s
        <4>1. ctl'[t] = ctl[t]
          BY <1>5, <3>1
        <4> QED
          BY ONLY <2>0, <3>0, <4>1 DEF CodeOk
      <3>2. CASE t = s
        <4>1. sv[s].peer \in Asking
          BY TypeOf DEF Loops
        <4>2. \A r \in Asking : ctl[s][r].up # "" => ctl'[s][r].up # ""
          BY <1>3, <1>5
        <4>3. \A d \in Clients : ctl'[s][d].up \in {"", "eof", Code}
          BY <1>0, <1>5, <2>0, <3>0, <3>2, StopIsNoClient DEF CodeOk
        <4>4. ctl'[s][Stop].up = ctl[s][Stop].up
          BY <1>5, StopIsNoClient
        <4> QED
          BY ONLY <2>0, <3>0, <3>2, <4>1, <4>2, <4>3, <4>4 DEF CodeOk
      <3> QED
        BY <3>1, <3>2
    <2>2. PortOk(t)'
      <3>0. AskOk(s, c) /\ c \in Asking
        BY <1>0 DEF LifecycleInv
      <3>1. ctl[s][c].down # "port"
        BY <1>1, <1>4, <3>0 DEF AskOk, Looking
      <3>2. ~Told(t, c)'
        BY <1>5, <1>6, <3>1 DEF Told
      <3>3. \A d \in Clients \ {c} : ctl'[t][d] = ctl[t][d] /\ cl'[d] = cl[d]
        BY <1>5, <1>6, StopIsNoClient
      <3>4. \A d \in Clients \ {c} : Told(t, d)' => Told(t, d)
        BY ONLY <3>3 DEF Told
      <3>5. mode' = mode /\ sv' = sv /\ data' = data
        BY <1>4
      <3> QED
        BY ONLY <2>0, <3>2, <3>4, <3>5 DEF PortOk, Mpi
    <2>3. AskOk(t, c)'
      <3>0. t \in Int /\ s \in Int
        BY LifecycleAssumption DEF Servers
      <3>01. cl[c].pc \in Looking
        BY <1>4 DEF Looking
      <3>02. cl'[c].pc \notin {"start", "opened"}
        BY <1>6
      <3>1. cl[c].at \in Int /\ t \in Int /\ s \in Int /\ cl[c].pc \in Looking /\ cl'[c].pc \notin {"start", "opened"}
        BY ONLY <1>1, <3>0, <3>01, <3>02
      <3>2. wire' = wire /\ mode' = mode
        BY <1>4
      <3>3. CASE t # s
        <4>1. ctl'[t] = ctl[t]
          BY <1>5, <3>3
        <4> QED
          BY ONLY <1>1, <1>6, <2>0, <3>1, <3>2, <4>1 DEF AskOk, Mpi
      <3>4. CASE t = s
        <4>1. ~Mpi => wire[s][c] = <<>>
          <5>1. AskOk(s, c)
            BY <2>0, <3>4
          <5>2. cl[c].at <= s
            BY ONLY <1>1, <3>1
          <5> QED
            BY ONLY <3>1, <5>1, <5>2 DEF AskOk
        <4>2. ctl'[s][c].up # ""
          BY ONLY <1>3, <1>5
        <4>3. cl'[c].at = s /\ ~(s < s)
          BY ONLY <1>6, <3>1
        <4> QED
          BY ONLY <3>1, <3>2, <3>4, <4>1, <4>2, <4>3 DEF AskOk, Mpi
      <3> QED
        BY <3>3, <3>4
    <2>4. KeptOk(t, c)'
      BY <1>4, <1>6, <2>0 DEF KeptOk, Served, Mpi, Living
    <2> QED
      BY <2>1, <2>2, <2>3, <2>4
  <1>8. ASSUME NEW d \in Clients PROVE JobOk(d)'
    <2>0. JobOk(d)
      BY DEF LifecycleInv
    <2>1. Living(d) => Living(d)'
      BY <1>6 DEF Living
    <2>2. wire' = wire /\ mode' = mode
      BY <1>4
    <2> QED
      BY ONLY <2>0, <2>1, <2>2 DEF JobOk, Mpi
  <1>9. CallOk(c)'
    BY <1>6 DEF CallOk
  <1>10. /\ data' \in [Servers -> Seq(Arrivals)]
         /\ wire' \in [Servers -> [Clients -> Seq(Clients \union {"disc", "eof"})]]
         /\ ans' \in [Servers -> SUBSET Clients]
    BY <1>4, ThreadTypeOf
  <1>11. /\ UNCHANGED <<mode, sv, disp, runs, nc, st>>
         /\ \A t \in Servers : \A r \in Asking \ {c} : ctl'[t][r] = ctl[t][r]
         /\ \A t \in Servers : sv[t].pc \in {"workers", "close", "down"} => data'[t] = data[t]
         /\ \A t \in Servers : \A i \in DOMAIN data[t] : i \in DOMAIN data'[t] /\ data'[t][i] = data[t][i]
         /\ \A t \in Servers : \A d \in Clients \ {c} : d \in ans[t] => d \in ans'[t]
         /\ \A t \in Servers : \A d \in Clients \ {c} : ~Mpi => wire'[t][d] = wire[t][d]
    BY <1>4, <1>5
  <1> QED
    BY ONLY LifecycleInv, c \in Clients, <1>0, <1>5, <1>6, <1>7, <1>8, <1>9, <1>10, <1>11, ClientKeeps

\* The connection to the port: the loop waits for this client and for no other.
LEMMA ConnectDataKeeps == ASSUME LifecycleInv, NEW c \in Clients, ConnectData(c) PROVE LifecycleInv'
  <1>0. /\ cl \in [Clients -> Procs] /\ data \in [Servers -> Seq(Arrivals)] /\ cl[c] \in Procs
        /\ backlog' \in [Servers -> Seq(Asking)] /\ ctl' \in [Servers -> [Asking -> Lines]]
    BY TypeOf DEF ConnectData
  <1>1. PICK s \in Servers : s = At(c) /\ s = cl[c].at
    BY <1>0 DEF At, Order, Procs
  <1>2. ~Mpi /\ cl[c].pc = "connect" /\ UNCHANGED <<mode, sv, ctl, wire, disp, runs, nc, ans, st>>
    BY DEF ConnectData
  <1>3. CASE /\ sv[s].open /\ data' = [data EXCEPT ![s] = Append(@, [who |-> c, op |-> FALSE])]
             /\ cl' = [cl EXCEPT ![c] = Next1(@, {}, {s})]
    <2>1. PICK r : r = Next1(cl[c], {}, {s})
      OBVIOUS
    <2>2. /\ r \in Procs /\ r.have = cl[c].have \union {s} /\ r.pc \in {"start", "leave", "run"}
          /\ r.pc = "start" => cl[c].at < r.at
      BY <1>0, <2>1, WithOne
    <2>3. cl' \in [Clients -> Procs] /\ cl'[c] = r /\ \A d \in Clients \ {c} : cl'[d] = cl[d]
      <3>1. cl' = [cl EXCEPT ![c] = r]
        BY <1>3, <2>1
      <3> QED
        BY ONLY <1>0, <2>2, <3>1, c \in Clients
    <2>4. PICK a \in Arrivals : a = [who |-> c, op |-> FALSE] /\ a.who = c
      <3>1. [who |-> c, op |-> FALSE] \in Arrivals /\ [who |-> c, op |-> FALSE].who = c
        BY DEF Arrivals
      <3> QED
        BY <3>1, Zenon
    <2>5. PICK q : q = Append(data[s], a)
      OBVIOUS
    <2>6. /\ q \in Seq(Arrivals) /\ Len(q) = Len(data[s]) + 1 /\ q[Len(q)] = a
          /\ \A i \in DOMAIN data[s] : i \in DOMAIN q /\ q[i] = data[s][i]
          /\ Len(q) \in DOMAIN q
      <3>1. data[s] \in Seq(Arrivals)
        BY <1>0
      <3> QED
        BY ONLY <2>5, <3>1, a \in Arrivals
    <2>7. data' \in [Servers -> Seq(Arrivals)] /\ data'[s] = q /\ \A t \in Servers \ {s} : data'[t] = data[t]
      <3>1. data' = [data EXCEPT ![s] = q]
        BY <1>3, <2>4, <2>5
      <3> QED
        BY ONLY <1>0, <2>6, <3>1, s \in Servers
    <2>8. sv[s].pc \notin {"workers", "close", "down"}
      BY <1>3 DEF LifecycleInv, EndOk
    <2>9. ASSUME mode.keep = 1
          PROVE  sv[s].pc = "data" /\ sv[s].peer = c /\ data[s] = <<>>
      BY <1>1, <1>2, <2>9 DEF LifecycleInv, PortOk, Told
    <2>10. ASSUME NEW t \in Servers PROVE CodeOk(t)' /\ PortOk(t)' /\ AskOk(t, c)' /\ KeptOk(t, c)'
      <3>0. CodeOk(t) /\ PortOk(t) /\ AskOk(t, c) /\ KeptOk(t, c)
        BY DEF LifecycleInv
      <3>00. mode' = mode /\ sv' = sv /\ ctl' = ctl /\ wire' = wire /\ disp' = disp
        BY <1>2
      <3>1. CodeOk(t)'
        BY ONLY <3>0, <3>00 DEF CodeOk, Code, Mpi
      <3>2. PortOk(t)'
        <4>1. ~Told(t, c)'
          BY <2>2, <2>3 DEF Told
        <4>2. \A d \in Clients \ {c} : Told(t, d)' => Told(t, d)
          BY ONLY <2>3, <3>00 DEF Told
        <4>3. CASE t # s
          <5>1. data'[t] = data[t]
            BY <2>7, <4>3
          <5> QED
            BY ONLY <3>0, <3>00, <4>1, <4>2, <5>1 DEF PortOk, Mpi
        <4>4. CASE t = s
          <5> SUFFICES ASSUME mode.keep = 1
                       PROVE  /\ \A d \in Clients : ~Told(s, d)'
                              /\ sv[s].pc = "data" /\ Len(q) = 1
            BY <2>7, <3>00, <4>4 DEF PortOk
          <5>1. sv[s].pc = "data" /\ sv[s].peer = c /\ data[s] = <<>>
            BY <2>9
          <5>2. Len(q) = 1
            BY <2>6, <5>1
          <5>3. \A d \in Clients \ {c} : ~Told(s, d)
            BY <1>2, <3>0, <4>4, <5>1 DEF PortOk
          <5> QED
            BY <4>1, <4>2, <4>4, <5>1, <5>2, <5>3
        <4> QED
          BY <4>3, <4>4
      <3>3. AskOk(t, c)'
        <4>1. cl'[c].pc \in Looking =>
                /\ cl[c].pc \in Looking
                /\ \/ cl[c].at < cl'[c].at
                   \/ cl[c].at = cl'[c].at /\ (cl'[c].pc \in {"start", "opened"} => cl[c].pc \in {"start", "opened"})
          BY <1>2, <2>2, <2>3 DEF Looking
        <4>2. cl'[c] \in Procs
          BY <2>2, <2>3
        <4> QED
          BY <1>0, <3>0, <3>00, <4>1, <4>2, AskKept
      <3>4. KeptOk(t, c)'
        <4>0. Living(c) /\ ~Mpi
          BY <1>2 DEF Living
        <4>1. CASE t # s
          <5>1. data'[t] = data[t] /\ (t \in cl'[c].have => t \in cl[c].have)
            BY <2>2, <2>3, <2>7, <4>1
          <5> QED
            BY ONLY <3>0, <3>00, <4>0, <5>1 DEF KeptOk, Served, Mpi
        <4>2. CASE t = s
          <5>1. Served(s, c)'
            BY <2>4, <2>6, <2>7, <3>00, <4>0 DEF Served, Mpi
          <5>2. wire[s][c] = <<>>
            <6>1. AskOk(s, c) /\ cl[c].pc \in Looking /\ cl[c].at <= s
              BY <1>1, <1>2, <3>0, <4>2, LifecycleAssumption DEF Looking, Servers
            <6> QED
              BY ONLY <4>0, <6>1 DEF AskOk
          <5>3. \A i \in DOMAIN wire'[s][c] : wire'[s][c][i] = c
            BY <3>00, <5>2
          <5> QED
            BY ONLY <4>2, <5>1, <5>3 DEF KeptOk
        <4> QED
          BY <4>1, <4>2
      <3> QED
        BY <3>1, <3>2, <3>3, <3>4
    <2>11. \A d \in Clients : JobOk(d)'
      BY <1>2 DEF JobOk, Mpi
    <2>12. CallOk(c)'
      BY <2>2, <2>3 DEF CallOk
    <2>13. /\ wire' \in [Servers -> [Clients -> Seq(Clients \union {"disc", "eof"})]]
           /\ ans' \in [Servers -> SUBSET Clients]
      BY <1>2, ThreadTypeOf
    <2>14. \A t \in Servers : \A i \in DOMAIN data[t] : i \in DOMAIN data'[t] /\ data'[t][i] = data[t][i]
      BY <2>6, <2>7
    <2>15. /\ UNCHANGED <<mode, sv, disp, runs, nc, st>>
           /\ \A t \in Servers : \A x \in Asking \ {c} : ctl'[t][x] = ctl[t][x]
           /\ \A t \in Servers : sv[t].pc \in {"workers", "close", "down"} => data'[t] = data[t]
           /\ \A t \in Servers : \A d \in Clients \ {c} : d \in ans[t] => d \in ans'[t]
           /\ \A t \in Servers : \A d \in Clients \ {c} : ~Mpi => wire'[t][d] = wire[t][d]
      BY <1>2, <2>7, <2>8
    <2> QED
      BY ONLY LifecycleInv, c \in Clients, <1>0, <2>3, <2>7, <2>10, <2>11, <2>12, <2>13, <2>14, <2>15, ClientKeeps
  <1>4. CASE ~sv[s].open /\ cl' = [cl EXCEPT ![c] = Next1(@, {s}, {})] /\ data' = data
    <2>1. PICK r : r = Next1(cl[c], {s}, {})
      OBVIOUS
    <2>2. r \in Procs /\ r.have = cl[c].have /\ r.pc \in {"start", "leave", "run"} /\ (r.pc = "start" => cl[c].at < r.at)
      BY <1>0, <2>1, WithoutOne
    <2>3. cl' \in [Clients -> Procs] /\ cl'[c] = r /\ \A d \in Clients \ {c} : cl'[d] = cl[d]
      <3>1. cl' = [cl EXCEPT ![c] = r]
        BY <1>4, <2>1
      <3> QED
        BY ONLY <1>0, <2>2, <3>1, c \in Clients
    <2>4. Living(c) /\ Living(c)' /\ \A t \in Servers : ~Told(t, c)'
      BY <1>2, <2>2, <2>3 DEF Living, Told
    <2>5. cl'[c].pc \in Looking =>
           /\ cl[c].pc \in Looking
           /\ \/ cl[c].at < cl'[c].at
              \/ cl[c].at = cl'[c].at /\ (cl'[c].pc \in {"start", "opened"} => cl[c].pc \in {"start", "opened"})
      BY <1>2, <2>2, <2>3 DEF Looking
    <2>6. /\ UNCHANGED <<mode, sv, ctl, data, wire, disp, runs, nc, ans, st>>
          /\ cl'[c].pc # "wait" /\ cl'[c].have \subseteq cl[c].have
      BY <1>2, <1>4, <2>2, <2>3
    <2> QED
      BY ONLY LifecycleInv, c \in Clients, <1>0, <2>3, <2>4, <2>5, <2>6, ClientMoves
  <1> QED
    BY <1>1, <1>3, <1>4 DEF ConnectData

\* A client that sends a request, or DISCONNECT, on a connection it keeps.
LEMMA SendKeeps ==
  ASSUME LifecycleInv, NEW c \in Clients, NEW s \in Servers,
         UNCHANGED <<mode, sv, backlog, ctl, data, disp, runs, nc, ans, st>>,
         cl' \in [Clients -> Procs], \A d \in Clients \ {c} : cl'[d] = cl[d],
         wire' \in [Servers -> [Clients -> Seq(Clients \union {"disc", "eof"})]],
         \A t \in Servers \ {s} : wire'[t] = wire[t],
         \A d \in Clients \ {Owner(c)} : wire'[s][d] = wire[s][d],
         \A i \in DOMAIN wire'[s][Owner(c)] :
           \/ wire'[s][Owner(c)][i] = c
           \/ wire'[s][Owner(c)][i] = "disc" /\ (Mpi \/ s \notin cl'[c].have)
           \/ i \in DOMAIN wire[s][Owner(c)] /\ wire'[s][Owner(c)][i] = wire[s][Owner(c)][i],
         Living(c), cl'[c].pc \in {"wait", "barrier", "gone", "leave"}, cl'[c].have \subseteq cl[c].have,
         cl'[c].pc = "wait" => mode.keep = 1 /\ cl'[c].at \in cl'[c].have
  PROVE  LifecycleInv'
  <1> PICK r \in Procs : r = cl'[c]
    OBVIOUS
  <1> PICK o \in Clients : o = Owner(c)
    BY LifecycleAssumption DEF Owner
  <1>0. /\ cl \in [Clients -> Procs] /\ mode \in Modes /\ Root \in Clients
        /\ backlog' \in [Servers -> Seq(Asking)] /\ ctl' \in [Servers -> [Asking -> Lines]]
        /\ data' \in [Servers -> Seq(Arrivals)] /\ ans' \in [Servers -> SUBSET Clients]
    BY TypeOf, ThreadTypeOf, LifecycleAssumption
  <1>1. /\ cl' \in [Clients -> Procs] /\ cl'[c] = r /\ \A d \in Clients \ {c} : cl'[d] = cl[d]
        /\ r.pc \in {"wait", "barrier", "gone", "leave"} /\ r.have \subseteq cl[c].have
        /\ r.pc = "wait" => mode.keep = 1 /\ r.at \in r.have
    OBVIOUS
  <1>2. /\ wire' \in [Servers -> [Clients -> Seq(Clients \union {"disc", "eof"})]]
        /\ \A t \in Servers \ {s} : wire'[t] = wire[t]
        /\ \A d \in Clients \ {o} : wire'[s][d] = wire[s][d]
        /\ \A i \in DOMAIN wire'[s][o] :
             \/ wire'[s][o][i] = c
             \/ wire'[s][o][i] = "disc" /\ (Mpi \/ s \notin r.have)
             \/ i \in DOMAIN wire[s][o] /\ wire'[s][o][i] = wire[s][o][i]
    OBVIOUS
  <1>3. mode' = mode /\ sv' = sv /\ ctl' = ctl /\ data' = data /\ disp' = disp /\ (~Mpi => o = c) /\ (Mpi => o = Root)
    BY DEF Owner
  <1>4. ASSUME NEW t \in Servers PROVE CodeOk(t)' /\ PortOk(t)' /\ AskOk(t, c)' /\ KeptOk(t, c)'
    <2>0. CodeOk(t) /\ PortOk(t) /\ AskOk(t, c) /\ KeptOk(t, c)
      BY DEF LifecycleInv
    <2>1. CodeOk(t)'
      BY ONLY <1>3, <2>0 DEF CodeOk, Code, Mpi
    <2>2. PortOk(t)'
      <3>1. \A d \in Clients : Told(t, d)' => Told(t, d)
        BY <1>1, <1>3 DEF Told
      <3> QED
        BY ONLY <1>3, <2>0, <3>1 DEF PortOk, Mpi
    <2>3. AskOk(t, c)'
      BY <1>1, <1>3, <2>0 DEF AskOk, Looking, Mpi
    <2>4. KeptOk(t, c)'
      <3>1. ASSUME mode.keep = 1, t \in r.have
            PROVE  Served(t, c)' /\ (~Mpi => \A i \in DOMAIN wire'[t][c] : wire'[t][c][i] = c)
        <4>1. Served(t, c) /\ (~Mpi => \A i \in DOMAIN wire[t][c] : wire[t][c][i] = c)
          BY <2>0, <3>1 DEF KeptOk
        <4>2. Served(t, c)'
          BY ONLY <1>3, <4>1 DEF Served, Mpi
        <4>3. ASSUME ~Mpi PROVE \A i \in DOMAIN wire'[t][c] : wire'[t][c][i] = c
          <5>1. CASE t # s
            BY <1>2, <4>1, <4>3, <5>1
          <5>2. CASE t = s
            <6>1. o = c /\ s \in r.have /\ \A i \in DOMAIN wire[s][c] : wire[s][c][i] = c
              BY <1>3, <3>1, <4>1, <4>3, <5>2
            <6>2. \A i \in DOMAIN wire'[s][c] : wire'[s][c][i] = c
              BY ONLY <1>2, <4>3, <6>1
            <6> QED
              BY <5>2, <6>2
          <5> QED
            BY <5>1, <5>2
        <4> QED
          BY <4>2, <4>3
      <3> QED
        BY ONLY <1>1, <1>3, <3>1 DEF KeptOk, Mpi
    <2> QED
      BY <2>1, <2>2, <2>3, <2>4
  <1>5. ASSUME NEW d \in Clients PROVE JobOk(d)'
    <2>0. JobOk(d)
      BY DEF LifecycleInv
    <2>1. Living(d) => Living(d)'
      BY <1>1 DEF Living
    <2>2. ASSUME Mpi, NEW t \in Servers, NEW i \in DOMAIN wire'[t][Root] PROVE wire'[t][Root][i] # "eof"
      <3>0. (\A j \in DOMAIN wire[t][Root] : wire[t][Root][j] # "eof") /\ c # "eof" /\ o = Root
        BY <1>3, <2>0, <2>2, StopIsNoClient DEF JobOk
      <3>1. CASE t # s
        BY <1>2, <3>0, <3>1
      <3>2. CASE t = s
        BY <1>2, <3>0, <3>2
      <3> QED
        BY <3>1, <3>2
    <2> QED
      BY ONLY <1>3, <2>0, <2>1, <2>2 DEF JobOk, Mpi
  <1>6. CallOk(c)'
    BY <1>1, <1>3 DEF CallOk
  <1>7. /\ UNCHANGED <<mode, sv, disp, runs, nc, st>>
        /\ \A t \in Servers : \A x \in Asking \ {c} : ctl'[t][x] = ctl[t][x]
        /\ \A t \in Servers : sv[t].pc \in {"workers", "close", "down"} => data'[t] = data[t]
        /\ \A t \in Servers : \A i \in DOMAIN data[t] : i \in DOMAIN data'[t] /\ data'[t][i] = data[t][i]
        /\ \A t \in Servers : \A d \in Clients \ {c} : d \in ans[t] => d \in ans'[t]
        /\ \A t \in Servers : \A d \in Clients \ {c} : ~Mpi => wire'[t][d] = wire[t][d]
    BY <1>2, <1>3
  <1> QED
    BY ONLY LifecycleInv, c \in Clients, <1>0, <1>1, <1>2, <1>4, <1>5, <1>6, <1>7, ClientKeeps

LEMMA ReadAnswerKeeps == ASSUME LifecycleInv, NEW c \in Clients, ReadAnswer(c) PROVE LifecycleInv'
  <1>0. /\ cl \in [Clients -> Procs] /\ 1 \in Servers /\ ans \in [Servers -> SUBSET Clients]
        /\ backlog' \in [Servers -> Seq(Asking)] /\ ctl' \in [Servers -> [Asking -> Lines]]
        /\ data' \in [Servers -> Seq(Arrivals)]
        /\ wire' \in [Servers -> [Clients -> Seq(Clients \union {"disc", "eof"})]]
    BY TypeOf, ThreadTypeOf, LifecycleAssumption DEF ReadAnswer, Servers
  <1>1. PICK s \in Servers : s = cl[c].at
    BY <1>0 DEF Procs
  <1>2. cl[c].pc = "wait" /\ UNCHANGED <<mode, sv, ctl, data, wire, disp, runs, nc, st>>
    BY DEF ReadAnswer
  <1>3. PICK r : r = [cl[c] EXCEPT !.pc = "run", !.at = 1, !.ops = @ + 1]
    OBVIOUS
  <1>4. cl' = [cl EXCEPT ![c] = r]
    BY <1>3 DEF ReadAnswer
  <1>5. r \in Procs /\ r.pc = "run" /\ r.have = cl[c].have
    <2>1. PICK u \in Procs : u = cl[c]
      BY <1>0
    <2>2. r = [u EXCEPT !.pc = "run", !.at = 1, !.ops = @ + 1]
      BY <1>3, <2>1
    <2>3. PICK n \in Nat : n = u.ops + 1
      <3>1. u.ops \in Nat
        BY DEF Procs
      <3>2. u.ops + 1 \in Nat
        BY ONLY <3>1
      <3> QED
        BY ONLY <3>2
    <2>4. r = [pc |-> "run", at |-> 1, have |-> u.have, bad |-> u.bad, ops |-> n]
      BY ONLY <2>2, <2>3, u \in Procs DEF Procs
    <2> QED
      BY <1>0, <2>1, <2>4 DEF Procs
  <1>6. cl' \in [Clients -> Procs] /\ cl'[c] = r /\ \A d \in Clients \ {c} : cl'[d] = cl[d]
    BY ONLY <1>0, <1>4, <1>5, c \in Clients
  <1>7. ans' \in [Servers -> SUBSET Clients] /\ \A t \in Servers : \A d \in Clients \ {c} : d \in ans[t] => d \in ans'[t]
    <2>1. ans' = [ans EXCEPT ![s] = @ \ {c}]
      BY <1>1 DEF ReadAnswer
    <2> QED
      BY ONLY <1>0, <2>1
  <1>8. mode' = mode /\ sv' = sv /\ ctl' = ctl /\ data' = data /\ disp' = disp /\ wire' = wire
    BY <1>2
  <1>9. ASSUME NEW t \in Servers PROVE CodeOk(t)' /\ PortOk(t)' /\ AskOk(t, c)' /\ KeptOk(t, c)'
    <2>0. CodeOk(t) /\ PortOk(t) /\ AskOk(t, c) /\ KeptOk(t, c)
      BY DEF LifecycleInv
    <2>1. CodeOk(t)'
      BY ONLY <1>8, <2>0 DEF CodeOk, Code, Mpi
    <2>2. PortOk(t)'
      <3>1. \A d \in Clients : Told(t, d)' => Told(t, d)
        BY <1>5, <1>6, <1>8 DEF Told
      <3> QED
        BY ONLY <1>8, <2>0, <3>1 DEF PortOk, Mpi
    <2>3. AskOk(t, c)'
      BY <1>5, <1>6, <1>8, <2>0 DEF AskOk, Looking, Mpi
    <2>4. KeptOk(t, c)'
      <3>1. Living(c) /\ cl'[c].have = cl[c].have
        BY <1>2, <1>5, <1>6 DEF Living
      <3> QED
        BY ONLY <1>8, <2>0, <3>1 DEF KeptOk, Served, Mpi
    <2> QED
      BY <2>1, <2>2, <2>3, <2>4
  <1>10. ASSUME NEW d \in Clients PROVE JobOk(d)'
    <2>0. JobOk(d)
      BY DEF LifecycleInv
    <2>1. Living(d) => Living(d)'
      BY <1>5, <1>6 DEF Living
    <2> QED
      BY ONLY <1>8, <2>0, <2>1 DEF JobOk, Mpi
  <1>11. CallOk(c)'
    BY <1>5, <1>6 DEF CallOk
  <1>12. /\ UNCHANGED <<mode, sv, disp, runs, nc, st>>
         /\ \A t \in Servers : \A x \in Asking \ {c} : ctl'[t][x] = ctl[t][x]
         /\ \A t \in Servers : sv[t].pc \in {"workers", "close", "down"} => data'[t] = data[t]
         /\ \A t \in Servers : \A i \in DOMAIN data[t] : i \in DOMAIN data'[t] /\ data'[t][i] = data[t][i]
         /\ \A t \in Servers : \A d \in Clients \ {c} : ~Mpi => wire'[t][d] = wire[t][d]
    BY <1>2
  <1> QED
    BY ONLY LifecycleInv, c \in Clients, <1>0, <1>6, <1>7, <1>9, <1>10, <1>11, <1>12, ClientKeeps

\* A call: on the connection that is kept, or with one of its own.
LEMMA OperateKeeps == ASSUME LifecycleInv, NEW c \in Clients, Operate(c) PROVE LifecycleInv'
  <1>0. /\ cl \in [Clients -> Procs] /\ cl[c] \in Procs /\ data \in [Servers -> Seq(Arrivals)] /\ Root \in Clients
        /\ wire \in [Servers -> [Clients -> Seq(Clients \union {"disc", "eof"})]]
    BY TypeOf, ThreadTypeOf, LifecycleAssumption
  <1>1. PICK s \in cl[c].have :
          /\ cl[c].pc = "run" /\ UNCHANGED <<mode, sv, backlog, ctl, disp, runs, nc, ans, st>>
          /\ \/ /\ mode.keep = 1
                /\ wire' = [wire EXCEPT ![s][Owner(c)] = Append(@, c)]
                /\ cl' = [cl EXCEPT ![c].pc = "wait", ![c].at = s]
                /\ data' = data
             \/ /\ mode.keep = 0 /\ sv[s].open
                /\ data' = [data EXCEPT ![s] = Append(@, [who |-> c, op |-> TRUE])]
                /\ cl' = [cl EXCEPT ![c].pc = "wait", ![c].at = s]
                /\ wire' = wire
             \/ /\ mode.keep = 0 /\ ~sv[s].open
                /\ cl' = [cl EXCEPT ![c].ops = @ + 1]
                /\ UNCHANGED <<wire, data>>
    BY DEF Operate
  <1>2. s \in Servers
    BY <1>0 DEF Procs
  <1>3. PICK r : r = [cl[c] EXCEPT !.pc = "wait", !.at = s]
    OBVIOUS
  <1>4. r \in Procs /\ r.pc = "wait" /\ r.at = s /\ r.have = cl[c].have
    <2>1. PICK u \in Procs : u = cl[c]
      BY <1>0
    <2>2. r = [u EXCEPT !.pc = "wait", !.at = s]
      BY <1>3, <2>1
    <2>3. r = [pc |-> "wait", at |-> s, have |-> u.have, bad |-> u.bad, ops |-> u.ops]
      BY ONLY <2>2, u \in Procs DEF Procs
    <2> QED
      BY <1>2, <2>1, <2>3 DEF Procs
  <1>5. Living(c) /\ UNCHANGED <<mode, sv, backlog, ctl, disp, runs, nc, ans, st>>
    BY <1>1 DEF Living
  <1>6. CASE /\ mode.keep = 1
             /\ wire' = [wire EXCEPT ![s][Owner(c)] = Append(@, c)]
             /\ cl' = [cl EXCEPT ![c].pc = "wait", ![c].at = s]
             /\ data' = data
    <2>1. PICK o \in Clients : o = Owner(c)
      BY <1>0 DEF Owner
    <2>2. wire' = [wire EXCEPT ![s][o] = Append(@, c)]
      BY <1>6, <2>1
    <2>3. cl' = [cl EXCEPT ![c] = r]
      BY <1>3, <1>6
    <2>4. cl' \in [Clients -> Procs] /\ cl'[c] = r /\ \A d \in Clients \ {c} : cl'[d] = cl[d]
      BY ONLY <1>0, <1>4, <2>3, c \in Clients
    <2>5. PICK w : w = Append(wire[s][o], c)
      OBVIOUS
    <2>6. /\ w \in Seq(Clients \union {"disc", "eof"})
          /\ \A i \in DOMAIN w : w[i] = c \/ (i \in DOMAIN wire[s][o] /\ w[i] = wire[s][o][i])
      <3>1. wire[s][o] \in Seq(Clients \union {"disc", "eof"})
        BY <1>0, <1>2
      <3> QED
        BY ONLY <2>5, <3>1, c \in Clients
    <2>7. PICK h : h = [wire[s] EXCEPT ![o] = w]
      OBVIOUS
    <2>8. wire' = [wire EXCEPT ![s] = h]
      BY ONLY <2>2, <2>5, <2>7
    <2>9. /\ h \in [Clients -> Seq(Clients \union {"disc", "eof"})] /\ h[o] = w
          /\ \A d \in Clients \ {o} : h[d] = wire[s][d]
      BY ONLY <1>0, <1>2, <2>6, <2>7, o \in Clients
    <2>10. /\ wire' \in [Servers -> [Clients -> Seq(Clients \union {"disc", "eof"})]]
           /\ \A t \in Servers \ {s} : wire'[t] = wire[t]
           /\ wire'[s] = h
      BY ONLY <1>0, <1>2, <2>8, <2>9
    <2>11. /\ \A d \in Clients \ {o} : wire'[s][d] = wire[s][d]
           /\ \A i \in DOMAIN wire'[s][o] : wire'[s][o][i] = c \/ (i \in DOMAIN wire[s][o] /\ wire'[s][o][i] = wire[s][o][i])
      BY ONLY <2>6, <2>9, <2>10
    <2>14. /\ \A d \in Clients \ {Owner(c)} : wire'[s][d] = wire[s][d]
           /\ \A i \in DOMAIN wire'[s][Owner(c)] :
                \/ wire'[s][Owner(c)][i] = c
                \/ wire'[s][Owner(c)][i] = "disc" /\ (Mpi \/ s \notin cl'[c].have)
                \/ i \in DOMAIN wire[s][Owner(c)] /\ wire'[s][Owner(c)][i] = wire[s][Owner(c)][i]
      BY ONLY <2>1, <2>11
    <2>12. /\ cl'[c].pc \in {"wait", "barrier", "gone", "leave"} /\ cl'[c].have \subseteq cl[c].have
           /\ cl'[c].pc = "wait" => mode.keep = 1 /\ cl'[c].at \in cl'[c].have
           /\ data' = data
      BY <1>4, <1>6, <2>4
    <2>13. UNCHANGED <<mode, sv, backlog, ctl, data, disp, runs, nc, ans, st>>
      BY <1>5, <2>12
    <2> QED
      BY ONLY LifecycleInv, c \in Clients, <1>2, <1>5, <2>4, <2>10, <2>12, <2>13, <2>14, SendKeeps
  <1>7. CASE /\ mode.keep = 0 /\ sv[s].open
             /\ data' = [data EXCEPT ![s] = Append(@, [who |-> c, op |-> TRUE])]
             /\ cl' = [cl EXCEPT ![c].pc = "wait", ![c].at = s]
             /\ wire' = wire
    <2>1. cl' \in [Clients -> Procs] /\ cl'[c] = r /\ \A d \in Clients \ {c} : cl'[d] = cl[d]
      <3>1. cl' = [cl EXCEPT ![c] = r]
        BY <1>3, <1>7
      <3> QED
        BY ONLY <1>0, <1>4, <3>1, c \in Clients
    <2>2. PICK a : a = [who |-> c, op |-> TRUE]
      OBVIOUS
    <2>3. a \in Arrivals
      BY <2>2 DEF Arrivals
    <2>4. PICK q : q = Append(data[s], a)
      OBVIOUS
    <2>5. /\ q \in Seq(Arrivals) /\ q[Len(q)] = a /\ Len(q) \in DOMAIN q
          /\ \A i \in DOMAIN data[s] : i \in DOMAIN q /\ q[i] = data[s][i]
      <3>1. data[s] \in Seq(Arrivals)
        BY <1>0, <1>2
      <3> QED
        BY ONLY <2>3, <2>4, <3>1
    <2>6. data' \in [Servers -> Seq(Arrivals)] /\ data'[s] = q /\ \A t \in Servers \ {s} : data'[t] = data[t]
      <3>1. data' = [data EXCEPT ![s] = q]
        BY <1>7, <2>2, <2>4
      <3> QED
        BY ONLY <1>0, <1>2, <2>5, <3>1
    <2>7. sv[s].pc \notin {"workers", "close", "down"}
      BY <1>2, <1>7 DEF LifecycleInv, EndOk
    <2>8. mode' = mode /\ sv' = sv /\ ctl' = ctl /\ disp' = disp /\ wire' = wire /\ mode.keep = 0
      BY <1>5, <1>7
    <2>9. ASSUME NEW t \in Servers PROVE CodeOk(t)' /\ PortOk(t)' /\ AskOk(t, c)' /\ KeptOk(t, c)'
      <3>0. CodeOk(t) /\ AskOk(t, c)
        BY DEF LifecycleInv
      <3>1. CodeOk(t)'
        BY ONLY <2>8, <3>0 DEF CodeOk, Code, Mpi
      <3>2. PortOk(t)' /\ KeptOk(t, c)'
        BY <2>8 DEF PortOk, KeptOk
      <3>3. AskOk(t, c)'
        BY <1>4, <2>1, <2>8, <3>0 DEF AskOk, Looking, Mpi
      <3> QED
        BY <3>1, <3>2, <3>3
    <2>10. ASSUME NEW d \in Clients PROVE JobOk(d)'
      <3>0. JobOk(d)
        BY DEF LifecycleInv
      <3>1. Living(d) => Living(d)'
        BY <1>4, <2>1 DEF Living
      <3> QED
        BY ONLY <2>8, <3>0, <3>1 DEF JobOk, Mpi
    <2>11. CallOk(c)'
      <3>1. cl'[c].at = s /\ data'[s] = q /\ q[Len(q)] = [who |-> c, op |-> TRUE] /\ Len(q) \in DOMAIN q
        BY <1>4, <2>1, <2>2, <2>5, <2>6
      <3>2. mode'.keep # 1
        BY <2>8
      <3> QED
        BY ONLY <3>1, <3>2 DEF CallOk
    <2>12. \A t \in Servers : \A i \in DOMAIN data[t] : i \in DOMAIN data'[t] /\ data'[t][i] = data[t][i]
      BY <2>5, <2>6
    <2>13. /\ UNCHANGED <<mode, sv, disp, runs, nc, st>>
           /\ \A t \in Servers : \A x \in Asking \ {c} : ctl'[t][x] = ctl[t][x]
           /\ \A t \in Servers : sv[t].pc \in {"workers", "close", "down"} => data'[t] = data[t]
           /\ \A t \in Servers : \A d \in Clients \ {c} : d \in ans[t] => d \in ans'[t]
           /\ \A t \in Servers : \A d \in Clients \ {c} : ~Mpi => wire'[t][d] = wire[t][d]
      BY <1>5, <2>6, <2>7, <2>8
    <2>14. /\ backlog' \in [Servers -> Seq(Asking)] /\ ctl' \in [Servers -> [Asking -> Lines]]
           /\ wire' \in [Servers -> [Clients -> Seq(Clients \union {"disc", "eof"})]]
           /\ ans' \in [Servers -> SUBSET Clients]
      BY <1>5, <2>8, TypeOf, ThreadTypeOf
    <2> QED
      BY ONLY LifecycleInv, c \in Clients, <2>1, <2>6, <2>9, <2>10, <2>11, <2>12, <2>13, <2>14, ClientKeeps
  <1>8. CASE mode.keep = 0 /\ ~sv[s].open /\ cl' = [cl EXCEPT ![c].ops = @ + 1] /\ UNCHANGED <<wire, data>>
    <2>1. cl' = [cl EXCEPT ![c].ops = @ + 1]
      BY <1>8
    <2>2. /\ cl' \in [Clients -> Procs] /\ cl'[c].pc = cl[c].pc /\ cl'[c].have = cl[c].have
          /\ \A d \in Clients \ {c} : cl'[d] = cl[d]
      <3>1. PICK u \in Procs : u = cl[c]
        BY <1>0
      <3>0. u.ops \in Nat
        BY DEF Procs
      <3>2. u.ops + 1 \in Nat
        BY ONLY <3>0
      <3>3. PICK n \in Nat : n = u.ops + 1
        BY ONLY <3>2
      <3>4. PICK v : v = [u EXCEPT !.ops = n]
        OBVIOUS
      <3>5. v \in Procs /\ v.pc = u.pc /\ v.have = u.have
        BY ONLY <3>4, u \in Procs, n \in Nat DEF Procs
      <3>6. cl' = [cl EXCEPT ![c] = v]
        BY ONLY <2>1, <3>1, <3>3, <3>4
      <3> QED
        BY ONLY <1>0, <3>1, <3>5, <3>6, c \in Clients
    <2>3. Living(c)' /\ (\A t \in Servers : ~Told(t, c)') /\ cl'[c].pc \notin Looking /\ cl'[c].pc # "wait"
      BY <1>1, <2>2 DEF Living, Told, Looking
    <2>4. UNCHANGED <<mode, sv, ctl, data, wire, disp, runs, nc, ans, st>> /\ backlog' \in [Servers -> Seq(Asking)]
      BY <1>5, <1>8, TypeOf
    <2>5. cl'[c].have \subseteq cl[c].have
      BY <2>2
    <2> QED
      BY ONLY LifecycleInv, c \in Clients, <1>5, <2>2, <2>3, <2>4, <2>5, ClientMoves
  <1> QED
    BY <1>1, <1>6, <1>7, <1>8

\* xpn_destroy_servers: the connection is given up with the DISCONNECT.
LEMMA DisconnectKeeps == ASSUME LifecycleInv, NEW c \in Clients, Disconnect(c) PROVE LifecycleInv'
  <1>0. /\ cl \in [Clients -> Procs] /\ cl[c] \in Procs /\ Root \in Clients
        /\ wire \in [Servers -> [Clients -> Seq(Clients \union {"disc", "eof"})]]
    BY TypeOf, ThreadTypeOf, LifecycleAssumption
  <1>1. PICK s \in Servers : s = cl[c].at
    BY <1>0 DEF Procs
  <1>2. cl[c].pc = "leave" /\ UNCHANGED <<mode, sv, backlog, ctl, data, disp, runs, nc, ans, st>> /\ Living(c)
    BY DEF Disconnect, Living
  <1>3. PICK kept \in BOOLEAN : kept = (mode.keep = 1 /\ s \in cl[c].have)
    OBVIOUS
  <1>4. PICK r : r = IF kept /\ Mpi THEN [cl[c] EXCEPT !.pc = "barrier"] ELSE Left(cl[c])
    OBVIOUS
  <1>5. cl' = [cl EXCEPT ![c] = r]
    BY <1>1, <1>3, <1>4 DEF Disconnect
  <1>6. /\ r \in Procs /\ r.pc \in {"barrier", "gone", "leave"} /\ r.have \subseteq cl[c].have
        /\ Mpi \/ s \notin r.have
    <2>1. CASE kept /\ Mpi
      <3>1. r = [cl[c] EXCEPT !.pc = "barrier"]
        BY <1>4, <2>1
      <3>2. r \in Procs /\ r.pc = "barrier" /\ r.have = cl[c].have
        BY ONLY <1>0, <3>1 DEF Procs
      <3> QED
        BY <2>1, <3>2
    <2>2. CASE ~(kept /\ Mpi)
      <3>1. r \in Procs /\ r.have = cl[c].have \ {s} /\ r.pc \in {"gone", "leave"}
        BY <1>0, <1>1, <1>4, <2>2, LeftFacts
      <3> QED
        BY <3>1
    <2> QED
      BY <2>1, <2>2
  <1>7. cl' \in [Clients -> Procs] /\ cl'[c] = r /\ \A d \in Clients \ {c} : cl'[d] = cl[d]
    BY ONLY <1>0, <1>5, <1>6, c \in Clients
  <1>8. CASE kept /\ (Mpi => c = Root)
    <2>1. wire' = [wire EXCEPT ![s][c] = Append(@, "disc")] /\ c = Owner(c)
      BY <1>1, <1>3, <1>8 DEF Disconnect, Owner
    <2>5. PICK w : w = Append(wire[s][c], "disc")
      OBVIOUS
    <2>6. /\ w \in Seq(Clients \union {"disc", "eof"})
          /\ \A i \in DOMAIN w : w[i] = "disc" \/ (i \in DOMAIN wire[s][c] /\ w[i] = wire[s][c][i])
      <3>1. wire[s][c] \in Seq(Clients \union {"disc", "eof"})
        BY <1>0
      <3> QED
        BY ONLY <2>5, <3>1
    <2>7. PICK h : h = [wire[s] EXCEPT ![c] = w]
      OBVIOUS
    <2>8. wire' = [wire EXCEPT ![s] = h]
      BY ONLY <2>1, <2>5, <2>7
    <2>9. /\ h \in [Clients -> Seq(Clients \union {"disc", "eof"})] /\ h[c] = w
          /\ \A d \in Clients \ {c} : h[d] = wire[s][d]
      BY ONLY <1>0, s \in Servers, <2>6, <2>7, c \in Clients
    <2>10. /\ wire' \in [Servers -> [Clients -> Seq(Clients \union {"disc", "eof"})]]
           /\ \A t \in Servers \ {s} : wire'[t] = wire[t]
           /\ wire'[s] = h
      BY ONLY <1>0, s \in Servers, <2>8, <2>9
    <2>11. /\ \A d \in Clients \ {c} : wire'[s][d] = wire[s][d]
           /\ \A i \in DOMAIN wire'[s][c] : wire'[s][c][i] = "disc" \/ (i \in DOMAIN wire[s][c] /\ wire'[s][c][i] = wire[s][c][i])
      BY ONLY <2>6, <2>9, <2>10
    <2>12. /\ \A d \in Clients \ {Owner(c)} : wire'[s][d] = wire[s][d]
           /\ \A i \in DOMAIN wire'[s][Owner(c)] :
                \/ wire'[s][Owner(c)][i] = c
                \/ wire'[s][Owner(c)][i] = "disc" /\ (Mpi \/ s \notin cl'[c].have)
                \/ i \in DOMAIN wire[s][Owner(c)] /\ wire'[s][Owner(c)][i] = wire[s][Owner(c)][i]
      BY ONLY <1>6, <1>7, <2>1, <2>11
    <2>13. /\ cl'[c].pc \in {"wait", "barrier", "gone", "leave"} /\ cl'[c].have \subseteq cl[c].have
           /\ cl'[c].pc # "wait"
      BY <1>6, <1>7
    <2> QED
      BY ONLY LifecycleInv, c \in Clients, s \in Servers, <1>2, <1>7, <2>10, <2>12, <2>13, SendKeeps
  <1>9. CASE ~(kept /\ (Mpi => c = Root))
    <2>1. wire' = wire
      BY <1>1, <1>3, <1>9 DEF Disconnect
    <2>2. Living(c)' /\ (\A t \in Servers : ~Told(t, c)') /\ cl'[c].pc \notin Looking /\ cl'[c].pc # "wait"
      BY <1>6, <1>7 DEF Living, Told, Looking
    <2>3. UNCHANGED <<mode, sv, ctl, data, wire, disp, runs, nc, ans, st>> /\ backlog' \in [Servers -> Seq(Asking)]
      BY <1>2, <2>1, TypeOf
    <2>4. cl'[c].have \subseteq cl[c].have
      BY <1>6, <1>7
    <2> QED
      BY ONLY LifecycleInv, c \in Clients, <1>2, <1>7, <2>2, <2>3, <2>4, ClientMoves
  <1> QED
    BY <1>8, <1>9

\* A client that dies leaves nothing behind that the living need.
LEMMA DieKeeps == ASSUME LifecycleInv, NEW c \in Clients, Die(c) PROVE LifecycleInv'
  <1>0. /\ cl \in [Clients -> Procs] /\ ctl \in [Servers -> [Asking -> Lines]] /\ c \in Asking /\ mode \in Modes
        /\ wire \in [Servers -> [Clients -> Seq(Clients \union {"disc", "eof"})]]
        /\ backlog' \in [Servers -> Seq(Asking)] /\ data' \in [Servers -> Seq(Arrivals)]
        /\ ans' \in [Servers -> SUBSET Clients]
    BY TypeOf, ThreadTypeOf, StopIsNoClient DEF Die
  <1>1. Cardinality(Dead) < mode.deaths /\ UNCHANGED <<mode, sv, data, disp, runs, nc, ans, st>>
    BY DEF Die
  <1>2. ~Mpi
    <2>1. SUFFICES ASSUME Mpi PROVE FALSE
      OBVIOUS
    <2>2. mode.deaths = 0
      BY <1>0, <2>1, LifecycleAssumption DEF Mpi
    <2>3. Dead = {}
      BY <2>1 DEF LifecycleInv, JobOk, Living, Dead
    <2>4. Cardinality(Dead) = 0
      BY <2>3, FS_EmptySet
    <2> QED
      BY <1>1, <2>2, <2>4
  <1>3. PICK pc \in {"dead", "dead_asking"} : cl' = [cl EXCEPT ![c].pc = pc]
    BY DEF Die
  <1>4. /\ cl' \in [Clients -> Procs] /\ cl'[c].pc = pc /\ \A d \in Clients \ {c} : cl'[d] = cl[d]
    <2>1. PICK p \in Procs : p = cl[c]
      BY ONLY <1>0, c \in Clients
    <2>2. PICK e : e = [p EXCEPT !.pc = pc]
      OBVIOUS
    <2>3. e \in Procs /\ e.pc = pc
      BY ONLY <2>2, p \in Procs, pc \in {"dead", "dead_asking"} DEF Procs
    <2>4. cl' = [cl EXCEPT ![c] = e]
      BY ONLY <1>3, <2>1, <2>2
    <2>5. cl \in [Clients -> Procs]
      BY ONLY <1>0
    <2> HIDE DEF Procs
    <2>6. cl' \in [Clients -> Procs] /\ cl'[c] = e /\ \A d \in Clients \ {c} : cl'[d] = cl[d]
      BY ONLY <2>3, <2>4, <2>5, c \in Clients
    <2> QED
      BY ONLY <2>3, <2>6
  <1>5. ASSUME NEW t \in Servers
        PROVE  /\ ctl'[t] \in [Asking -> Lines] /\ \A x \in Asking \ {c} : ctl'[t][x] = ctl[t][x]
               /\ ctl'[t][c].up = (IF ctl[t][c].up = "" THEN "eof" ELSE ctl[t][c].up)
    <2>1. PICK l \in Lines : l = ctl[t][c]
      BY <1>0
    <2>2. PICK v : v = IF l.up = "" THEN "eof" ELSE l.up
      OBVIOUS
    <2>3. PICK m : m = [l EXCEPT !.up = v]
      OBVIOUS
    <2>4. m \in Lines /\ m.up = v
      BY ONLY <2>2, <2>3, l \in Lines DEF Lines
    <2>5. ctl'[t] = [ctl[t] EXCEPT ![c] = m]
      BY <2>1, <2>2, <2>3 DEF Die
    <2>6. ctl[t] \in [Asking -> Lines]
      BY <1>0
    <2>7. ctl'[t] \in [Asking -> Lines] /\ ctl'[t][c] = m /\ \A x \in Asking \ {c} : ctl'[t][x] = ctl[t][x]
      BY ONLY <1>0, <2>4, <2>5, <2>6
    <2> QED
      BY <2>1, <2>2, <2>4, <2>7
  <1>6. ctl' \in [Servers -> [Asking -> Lines]]
    <2>1. ctl' = [t \in Servers |-> ctl'[t]]
      BY DEF Die
    <2> QED
      BY ONLY <1>5, <2>1
  <1>7. ASSUME NEW t \in Servers
        PROVE  /\ wire'[t] \in [Clients -> Seq(Clients \union {"disc", "eof"})]
               /\ \A d \in Clients \ {c} : wire'[t][d] = wire[t][d]
    <2>1. PICK w : w = IF mode.keep = 1 /\ t \in cl[c].have THEN Append(wire[t][c], "eof") ELSE wire[t][c]
      OBVIOUS
    <2>2. wire[t][c] \in Seq(Clients \union {"disc", "eof"}) /\ wire[t] \in [Clients -> Seq(Clients \union {"disc", "eof"})]
      BY <1>0
    <2>3. w \in Seq(Clients \union {"disc", "eof"})
      <3>1. Append(wire[t][c], "eof") \in Seq(Clients \union {"disc", "eof"})
        <4>1. PICK q : q = wire[t][c]
          OBVIOUS
        <4>2. q \in Seq(Clients \union {"disc", "eof"}) /\ "eof" \in Clients \union {"disc", "eof"}
          BY ONLY <2>2, <4>1
        <4>3. Append(q, "eof") \in Seq(Clients \union {"disc", "eof"})
          BY ONLY <4>2, AppendProperties
        <4> QED
          BY ONLY <4>1, <4>3
      <3> QED
        BY ONLY <2>1, <2>2, <3>1
    <2>4. wire'[t] = [wire[t] EXCEPT ![c] = w]
      BY <2>1 DEF Die
    <2> QED
      BY ONLY <2>2, <2>3, <2>4, c \in Clients
  <1>8. wire' \in [Servers -> [Clients -> Seq(Clients \union {"disc", "eof"})]]
    <2>1. wire' = [t \in Servers |-> wire'[t]]
      BY DEF Die
    <2> QED
      BY ONLY <1>7, <2>1
  <1>9. ASSUME NEW t \in Servers PROVE CodeOk(t)' /\ PortOk(t)' /\ AskOk(t, c)' /\ KeptOk(t, c)'
    <2>0. CodeOk(t) /\ PortOk(t) /\ sv[t].peer \in Asking
      BY TypeOf DEF LifecycleInv, Loops
    <2>00. mode' = mode /\ sv' = sv /\ data' = data /\ Code' = Code
      BY <1>1 DEF Code, Mpi
    <2>1. CodeOk(t)'
      <3>1. \A d \in Clients : ctl'[t][d].up \in {"", "eof", Code}
        BY <1>0, <1>5, <2>0, StopIsNoClient DEF CodeOk
      <3>2. ctl'[t][Stop] = ctl[t][Stop]
        BY <1>5, StopIsNoClient
      <3>3. \A x \in Asking : ctl[t][x].up # "" => ctl'[t][x].up # ""
        BY <1>5
      <3> QED
        BY ONLY <2>0, <2>00, <3>1, <3>2, <3>3 DEF CodeOk
    <2>2. PortOk(t)'
      <3>1. ~Told(t, c)'
        BY <1>4 DEF Told
      <3>2. \A d \in Clients \ {c} : ctl'[t][d] = ctl[t][d] /\ cl'[d] = cl[d]
        BY <1>4, <1>5, StopIsNoClient
      <3>3. \A d \in Clients \ {c} : Told(t, d)' => Told(t, d)
        BY ONLY <3>2 DEF Told
      <3> QED
        BY ONLY <2>0, <2>00, <3>1, <3>3 DEF PortOk, Mpi
    <2>3. AskOk(t, c)'
      <3>1. cl'[c].pc \notin Looking /\ ctl'[t][c].up # ""
        BY <1>4, <1>5 DEF Looking
      <3> QED
        BY ONLY <3>1 DEF AskOk
    <2>4. KeptOk(t, c)'
      BY <1>4 DEF KeptOk, Living
    <2> QED
      BY <2>1, <2>2, <2>3, <2>4
  <1>10. (\A d \in Clients : JobOk(d)') /\ CallOk(c)'
    BY <1>1, <1>2, <1>4 DEF JobOk, CallOk, Mpi
  <1>11. /\ UNCHANGED <<mode, sv, disp, runs, nc, st>>
         /\ \A t \in Servers : \A x \in Asking \ {c} : ctl'[t][x] = ctl[t][x]
         /\ \A t \in Servers : sv[t].pc \in {"workers", "close", "down"} => data'[t] = data[t]
         /\ \A t \in Servers : \A i \in DOMAIN data[t] : i \in DOMAIN data'[t] /\ data'[t][i] = data[t][i]
         /\ \A t \in Servers : \A d \in Clients \ {c} : d \in ans[t] => d \in ans'[t]
         /\ \A t \in Servers : \A d \in Clients \ {c} : ~Mpi => wire'[t][d] = wire[t][d]
    BY <1>1, <1>5, <1>7
  <1> QED
    BY ONLY LifecycleInv, c \in Clients, <1>0, <1>4, <1>6, <1>8, <1>9, <1>10, <1>11, ClientKeeps

-----------------------------------------------------------------------------
(* The job of MPI, and the stop *)

\* All the ranks of the job connect, and all of them disconnect.
LEMMA CommConnectKeeps == ASSUME LifecycleInv, NEW s \in Servers, CommConnect(s) PROVE LifecycleInv'
  <1>0. /\ cl \in [Clients -> Procs] /\ sv \in [Servers -> Loops] /\ Root \in Clients
        /\ disp \in [Servers -> [Clients -> {"none", "read", "run", "bye", "lost", "ended"}]]
    BY TypeOf, ThreadTypeOf, LifecycleAssumption
  <1>1. /\ Mpi /\ sv[s].pc = "data" /\ \A c \in Clients : cl[c].pc = "connect" /\ cl[c].at = s
        /\ UNCHANGED <<mode, backlog, ctl, data, wire, runs, nc, ans, bc, st>>
    BY DEF CommConnect, At, Order
  <1>2. PICK h : h = [disp[s] EXCEPT ![Root] = "read"]
    OBVIOUS
  <1>3. disp' = [disp EXCEPT ![s] = h]
    BY <1>2 DEF CommConnect
  <1>4. h \in [Clients -> {"none", "read", "run", "bye", "lost", "ended"}] /\ h[Root] = "read"
    BY ONLY <1>0, <1>2, s \in Servers
  <1>5. /\ disp' \in [Servers -> [Clients -> {"none", "read", "run", "bye", "lost", "ended"}]]
        /\ disp'[s][Root] = "read" /\ \A t \in Servers \ {s} : disp'[t] = disp[t]
    BY ONLY <1>0, <1>3, <1>4, s \in Servers
  <1>6. PICK pc \in {"accept", "inline"} : pc = AfterLaunch
    BY DEF AfterLaunch
  <1>7. sv' = [sv EXCEPT ![s].pc = pc, ![s].comm = Root]
    BY <1>6 DEF CommConnect
  <1>8. sv' \in [Servers -> Loops]
    <2>1. ASSUME NEW t \in Servers PROVE sv'[t] \in Loops
      <3>1. sv[t] \in Loops /\ Root \in Clients
        BY ONLY <1>0, t \in Servers
      <3>2. sv'[t] = IF t = s THEN [sv[t] EXCEPT !.pc = pc, !.comm = Root] ELSE sv[t]
        BY ONLY <1>0, <1>7, t \in Servers
      <3>3. PICK l \in Loops : l = sv[t]
        BY ONLY <3>1
      <3>4. [l EXCEPT !.pc = pc, !.comm = Root] \in Loops
        BY ONLY <3>1, l \in Loops, pc \in {"accept", "inline"} DEF Loops
      <3> QED
        BY ONLY <3>2, <3>3, <3>4
    <2>2. sv' = [t \in Servers |-> sv'[t]]
      BY <1>0, <1>7
    <2> QED
      BY <2>1, <2>2
  <1>9. /\ sv'[s].pc = pc /\ sv'[s].code = sv[s].code /\ sv'[s].peer = sv[s].peer
        /\ \A t \in Servers \ {s} : sv'[t] = sv[t]
    BY <1>0, <1>7 DEF Loops
  <1>10. ASSUME NEW c \in Clients
         PROVE  /\ cl'[c] \in Procs /\ cl'[c].have = cl[c].have \union {s} /\ cl'[c].pc \in {"start", "leave", "run"}
                /\ cl'[c].pc = "start" => cl[c].at < cl'[c].at
    <2>1. cl'[c] = Next1(cl[c], {}, {s}) /\ cl[c] \in Procs
      BY <1>0 DEF CommConnect
    <2> QED
      BY <2>1, WithOne
  <1>11. cl' \in [Clients -> Procs]
    <2>1. cl' = [c \in Clients |-> cl'[c]]
      BY DEF CommConnect
    <2> QED
      BY ONLY <1>10, <2>1
  <1>12. LifecycleType'
    BY <1>1, <1>5, <1>8, <1>11 DEF LifecycleInv, LifecycleType
  <1>13. ASSUME NEW t \in Servers PROVE CodeOk(t)' /\ PortOk(t)' /\ EndOk(t)'
    <2>0. CodeOk(t) /\ EndOk(t)
      BY DEF LifecycleInv
    <2>1. CodeOk(t)'
      BY <1>1, <1>9, <2>0 DEF CodeOk, Code, Mpi
    <2>2. PortOk(t)'
      BY <1>1 DEF PortOk, Mpi
    <2>3. EndOk(t)'
      <3>1. CASE t # s
        BY <1>1, <1>5, <1>9, <2>0, <3>1 DEF EndOk, WorkersEnded
      <3>2. CASE t = s
        BY <1>1, <1>9, <2>0, <3>2 DEF EndOk
      <3> QED
        BY <3>1, <3>2
    <2> QED
      BY <2>1, <2>2, <2>3
  <1>14. ASSUME NEW t \in Servers, NEW c \in Clients PROVE AskOk(t, c)' /\ KeptOk(t, c)'
    <2>0. AskOk(t, c) /\ KeptOk(t, c)
      BY DEF LifecycleInv
    <2>1. AskOk(t, c)'
      <3>1. cl'[c].pc \in Looking =>
              /\ cl[c].pc \in Looking
              /\ \/ cl[c].at < cl'[c].at
                 \/ cl[c].at = cl'[c].at /\ (cl'[c].pc \in {"start", "opened"} => cl[c].pc \in {"start", "opened"})
        BY <1>1, <1>10 DEF Looking
      <3>2. cl[c] \in Procs /\ cl'[c] \in Procs
        BY <1>0, <1>10
      <3> QED
        BY <1>1, <2>0, <3>1, <3>2, AskKept
    <2>2. KeptOk(t, c)'
      <3>1. CASE t # s
        <4>01. cl'[c].have = cl[c].have \union {s}
          BY <1>10
        <4>02. disp'[t] = disp[t] /\ mode' = mode /\ Mpi /\ Living(c)
          BY <1>1, <1>5, <3>1 DEF Living
        <4>1. disp'[t] = disp[t] /\ mode' = mode /\ Mpi /\ Living(c) /\ (t \in cl'[c].have => t \in cl[c].have)
          BY ONLY <3>1, <4>01, <4>02
        <4>2. Served(t, c) => Served(t, c)'
          BY ONLY <4>1 DEF Served, Mpi
        <4> QED
          BY ONLY <2>0, <4>1, <4>2 DEF KeptOk, Mpi
      <3>2. CASE t = s
        BY <1>1, <1>5, <3>2 DEF KeptOk, Served, Mpi
      <3> QED
        BY <3>1, <3>2
    <2> QED
      BY <2>1, <2>2
  <1>15. ASSUME NEW c \in Clients PROVE JobOk(c)' /\ CallOk(c)'
    <2>0. JobOk(c)
      BY DEF LifecycleInv
    <2>1. Living(c)' /\ cl'[c].pc # "wait"
      BY <1>10 DEF Living
    <2> QED
      BY <1>1, <2>0, <2>1 DEF JobOk, CallOk, Mpi
  <1>16. StopInv'
    BY <1>1 DEF LifecycleInv, StopInv, Hosts
  <1> QED
    BY <1>12, <1>13, <1>14, <1>15, <1>16 DEF LifecycleInv

LEMMA CommDisconnectKeeps == ASSUME LifecycleInv, NEW s \in Servers, CommDisconnect(s) PROVE LifecycleInv'
  <1>0. /\ cl \in [Clients -> Procs] /\ Root \in Clients
        /\ disp \in [Servers -> [Clients -> {"none", "read", "run", "bye", "lost", "ended"}]]
    BY TypeOf, ThreadTypeOf, LifecycleAssumption
  <1>1. /\ Mpi /\ disp[s][Root] = "bye" /\ \A c \in Clients : cl[c].pc = "barrier" /\ cl[c].at = s
        /\ UNCHANGED <<mode, sv, backlog, ctl, data, wire, runs, nc, ans, bc, st>>
    BY DEF CommDisconnect
  <1>2. PICK h : h = [disp[s] EXCEPT ![Root] = "ended"]
    OBVIOUS
  <1>3. disp' = [disp EXCEPT ![s] = h]
    BY <1>2 DEF CommDisconnect
  <1>4. h \in [Clients -> {"none", "read", "run", "bye", "lost", "ended"}]
    BY ONLY <1>0, <1>2, s \in Servers
  <1>5. /\ disp' \in [Servers -> [Clients -> {"none", "read", "run", "bye", "lost", "ended"}]]
        /\ \A t \in Servers \ {s} : disp'[t] = disp[t]
    BY ONLY <1>0, <1>3, <1>4, s \in Servers
  <1>10. ASSUME NEW c \in Clients
         PROVE  cl'[c] \in Procs /\ cl'[c].have = cl[c].have \ {s} /\ cl'[c].pc \in {"gone", "leave"}
    <2>1. cl'[c] = Left(cl[c]) /\ cl[c] \in Procs /\ cl[c].at = s
      BY <1>0, <1>1 DEF CommDisconnect
    <2> QED
      BY <2>1, LeftFacts
  <1>11. cl' \in [Clients -> Procs]
    <2>1. cl' = [c \in Clients |-> cl'[c]]
      BY DEF CommDisconnect
    <2> QED
      BY ONLY <1>10, <2>1
  <1>12. LifecycleType'
    BY <1>1, <1>5, <1>11 DEF LifecycleInv, LifecycleType
  <1>13. ASSUME NEW t \in Servers PROVE CodeOk(t)' /\ PortOk(t)' /\ EndOk(t)'
    <2>0. CodeOk(t) /\ EndOk(t)
      BY DEF LifecycleInv
    <2>1. CodeOk(t)'
      BY <1>1, <2>0 DEF CodeOk, Code, Mpi
    <2>2. PortOk(t)'
      BY <1>1 DEF PortOk, Mpi
    <2>3. EndOk(t)'
      <3>1. CASE t # s
        BY <1>1, <1>5, <2>0, <3>1 DEF EndOk, WorkersEnded
      <3>2. CASE t = s
        <4>1. ~WorkersEnded(s)
          BY <1>0, <1>1 DEF WorkersEnded
        <4> QED
          BY <1>1, <2>0, <3>2, <4>1 DEF EndOk
      <3> QED
        BY <3>1, <3>2
    <2> QED
      BY <2>1, <2>2, <2>3
  <1>14. ASSUME NEW t \in Servers, NEW c \in Clients PROVE AskOk(t, c)' /\ KeptOk(t, c)'
    <2>0. AskOk(t, c) /\ KeptOk(t, c)
      BY DEF LifecycleInv
    <2>1. AskOk(t, c)'
      <3>1. cl'[c].pc \notin Looking
        BY <1>10 DEF Looking
      <3> QED
        BY <1>1, <2>0, <3>1 DEF AskOk
    <2>2. KeptOk(t, c)'
      <3>1. CASE t # s
        <4>1. disp'[t] = disp[t] /\ mode' = mode /\ Mpi /\ Living(c) /\ (t \in cl'[c].have => t \in cl[c].have)
          BY <1>1, <1>5, <1>10, <3>1 DEF Living
        <4> QED
          BY ONLY <2>0, <4>1 DEF KeptOk, Served, Mpi
      <3>2. CASE t = s
        BY <1>10, <3>2 DEF KeptOk
      <3> QED
        BY <3>1, <3>2
    <2> QED
      BY <2>1, <2>2
  <1>15. ASSUME NEW c \in Clients PROVE JobOk(c)' /\ CallOk(c)'
    <2>0. JobOk(c)
      BY DEF LifecycleInv
    <2>1. Living(c)' /\ cl'[c].pc # "wait"
      BY <1>10 DEF Living
    <2> QED
      BY <1>1, <2>0, <2>1 DEF JobOk, CallOk, Mpi
  <1>16. StopInv'
    BY <1>1 DEF LifecycleInv, StopInv, Hosts
  <1> QED
    BY <1>12, <1>13, <1>14, <1>15, <1>16 DEF LifecycleInv

\* A step of xpn_stop_server: it adds its own request to a control socket and no more.
LEMMA StopStepKeeps ==
  ASSUME LifecycleInv, UNCHANGED <<mode, sv, data, wire, disp, runs, nc, ans, cl>>,
         backlog' \in [Servers -> Seq(Asking)], ctl' \in [Servers -> [Asking -> Lines]],
         st' \in [pc : {"idle", "send", "await", "done", "stuck"}, i : Servers \union {NServers + 1},
                  sockets : Seq(Servers)],
         \A t \in Servers : /\ ctl'[t][Stop].down = ctl[t][Stop].down
                            /\ ctl'[t][Stop].up = ctl[t][Stop].up \/ ctl'[t][Stop].up \in Finish
                            /\ \A c \in Clients : ctl'[t][c] = ctl[t][c],
         StopInv'
  PROVE  LifecycleInv'
  <1>0. mode' = mode /\ sv' = sv /\ data' = data /\ wire' = wire /\ disp' = disp /\ runs' = runs /\ nc' = nc
        /\ ans' = ans /\ cl' = cl
    OBVIOUS
  <1>1. LifecycleType'
    BY DEF LifecycleInv, LifecycleType
  <1>2. ASSUME NEW t \in Servers PROVE CodeOk(t)' /\ PortOk(t)' /\ EndOk(t)'
    <2>0. CodeOk(t) /\ PortOk(t) /\ EndOk(t) /\ sv[t].peer \in Asking
      BY TypeOf DEF LifecycleInv, Loops
    <2>00. /\ ctl'[t][Stop].down = ctl[t][Stop].down
           /\ ctl'[t][Stop].up = ctl[t][Stop].up \/ ctl'[t][Stop].up \in Finish
           /\ \A c \in Clients : ctl'[t][c] = ctl[t][c]
      OBVIOUS
    <2>1. CodeOk(t)'
      <3>1. \A x \in Asking : ctl[t][x].up # "" => ctl'[t][x].up # ""
        BY ONLY <2>00 DEF Asking, Finish
      <3> QED
        BY ONLY <1>0, <2>0, <2>00, <3>1 DEF CodeOk, Code, Mpi
    <2>2. PortOk(t)'
      BY ONLY <1>0, <2>0, <2>00 DEF PortOk, Told, Mpi
    <2>3. EndOk(t)'
      BY ONLY <1>0, <2>0, <2>00 DEF EndOk, WorkersEnded
    <2> QED
      BY <2>1, <2>2, <2>3
  <1>3. ASSUME NEW t \in Servers, NEW c \in Clients PROVE AskOk(t, c)' /\ KeptOk(t, c)'
    <2>0. AskOk(t, c) /\ KeptOk(t, c) /\ ctl'[t][c] = ctl[t][c]
      BY DEF LifecycleInv
    <2> QED
      BY ONLY <1>0, <2>0 DEF AskOk, KeptOk, Served, Living, Mpi
  <1>4. ASSUME NEW c \in Clients PROVE JobOk(c)' /\ CallOk(c)'
    <2>0. JobOk(c) /\ CallOk(c)
      BY DEF LifecycleInv
    <2> QED
      BY ONLY <1>0, <2>0 DEF JobOk, CallOk, Living, Mpi
  <1> QED
    BY <1>1, <1>2, <1>3, <1>4 DEF LifecycleInv

LEMMA StopMainKeeps == ASSUME LifecycleInv, StopMain PROVE LifecycleInv'
  <1>0. /\ st \in [pc : {"idle", "send", "await", "done", "stuck"}, i : Servers \union {NServers + 1},
                   sockets : Seq(Servers)]
        /\ mode \in Modes /\ StopInv
    BY DEF LifecycleInv, LifecycleType
  <1>1. st.pc = "idle" /\ UNCHANGED <<mode, sv, backlog, ctl, data, wire, disp, runs, nc, ans, cl>>
    BY DEF StopMain
  <1>2. st' = [st EXCEPT !.pc = "send"]
    BY DEF StopMain
  <1>3. /\ st' \in [pc : {"idle", "send", "await", "done", "stuck"}, i : Servers \union {NServers + 1},
                    sockets : Seq(Servers)]
        /\ st'.pc = "send" /\ st'.i = st.i /\ st'.sockets = st.sockets
    BY ONLY <1>0, <1>2
  <1>4. st.i = 1 /\ st.sockets = <<>> /\ 1 <= Hosts
    BY <1>0, <1>1, LifecycleAssumption DEF StopInv, Hosts
  <1>5. StopInv'
    <2>1. Len(st'.sockets) = 0 /\ st'.i = 1 /\ Hosts' = Hosts
      BY <1>1, <1>3, <1>4 DEF Hosts
    <2> QED
      BY <1>3, <1>4, <2>1, LifecycleAssumption DEF StopInv
  <1>6. backlog' \in [Servers -> Seq(Asking)] /\ ctl' \in [Servers -> [Asking -> Lines]]
    BY <1>1, TypeOf
  <1> QED
    BY ONLY LifecycleInv, <1>1, <1>3, <1>5, <1>6, StopStepKeeps

\* The sockets that xpn_server_down opens are fewer than the servers it has tried.
LEMMA SendFinishKeeps == ASSUME LifecycleInv, SendFinish PROVE LifecycleInv'
  <1>0. /\ st \in [pc : {"idle", "send", "await", "done", "stuck"}, i : Servers \union {NServers + 1},
                   sockets : Seq(Servers)]
        /\ mode \in Modes /\ StopInv /\ ctl \in [Servers -> [Asking -> Lines]] /\ backlog \in [Servers -> Seq(Asking)]
    BY DEF LifecycleInv, LifecycleType
  <1>1. st.pc = "send" /\ UNCHANGED <<mode, sv, data, wire, disp, runs, nc, ans, cl>>
    BY DEF SendFinish
  <1>2. Hosts \in Servers /\ NServers \in Nat \ {0}
    BY LifecycleAssumption DEF Hosts, Servers
  <1>3. PICK s \in Servers : s = st.i /\ s <= Hosts /\ Len(st.sockets) < s
    <2>1. st.i <= Hosts /\ Len(st.sockets) < st.i
      BY <1>0, <1>1 DEF StopInv
    <2>2. st.i \in Servers
      BY <1>0, <1>2, <2>1 DEF Servers
    <2> QED
      BY <2>1, <2>2
  <1>4. PICK reached \in BOOLEAN : reached = Listens(s)
    BY DEF Listens
  <1>5. PICK next : next = IF s < Hosts THEN "send" ELSE IF mode.stop = "await" THEN "await" ELSE "done"
    OBVIOUS
  <1>6. PICK q : q = IF reached THEN Append(st.sockets, s) ELSE st.sockets
    OBVIOUS
  <1>7. q \in Seq(Servers) /\ Len(q) <= Len(st.sockets) + 1 /\ Len(q) \in Nat
    <2>1. PICK z \in Seq(Servers) : z = st.sockets
      BY <1>0
    <2>2. Append(z, s) \in Seq(Servers) /\ Len(Append(z, s)) = Len(z) + 1 /\ Len(z) \in Nat
      OBVIOUS
    <2> QED
      BY ONLY <1>6, <2>1, <2>2, z \in Seq(Servers)
  <1>8. PICK i : i = IF next = "send" THEN s + 1 ELSE 1
    OBVIOUS
  <1>9. st' = [st EXCEPT !.i = i, !.pc = next, !.sockets = q]
    BY <1>3, <1>4, <1>5, <1>6, <1>8 DEF SendFinish
  <1>10. st' = [pc |-> next, i |-> i, sockets |-> q]
    BY ONLY <1>0, <1>9
  <1>11. i \in Servers /\ (next = "send" => i = s + 1 /\ i <= Hosts) /\ (next # "send" => i = 1)
    BY <1>2, <1>3, <1>5, <1>8 DEF Servers
  <1>12. st' \in [pc : {"idle", "send", "await", "done", "stuck"}, i : Servers \union {NServers + 1},
                  sockets : Seq(Servers)]
    BY <1>5, <1>7, <1>10, <1>11
  <1>13. StopInv'
    <2>0. Hosts' = Hosts /\ mode' = mode
      BY <1>1 DEF Hosts
    <2>1. Len(q) <= s /\ s <= NServers /\ s \in Nat
      <3>1. s \in Nat /\ s <= NServers
        BY <1>2 DEF Servers
      <3>2. Len(st.sockets) \in Nat
        BY <1>0
      <3> QED
        BY ONLY <1>3, <1>7, <3>1, <3>2
    <2>2. next = "send" => i <= Hosts /\ Len(q) < i
      BY <1>7, <1>11, <2>1
    <2>3. Len(q) <= NServers
      BY <1>2, <1>7, <2>1
    <2>4. next = "await" => i <= NServers /\ \A j \in 1 .. Len(q) : ~(j < i)
      BY <1>2, <1>7, <1>11
    <2>5. next = "done" => mode.stop # "await"
      BY <1>5
    <2>6. st'.pc = next /\ st'.i = i /\ st'.sockets = q /\ next # "idle"
      BY <1>5, <1>10
    <2> QED
      BY ONLY <2>0, <2>2, <2>3, <2>4, <2>5, <2>6 DEF StopInv
  <1>14. backlog' \in [Servers -> Seq(Asking)]
    <2>1. CASE reached
      <3>1. backlog' = [backlog EXCEPT ![s] = Append(@, Stop)]
        BY <1>3, <1>4, <2>1 DEF SendFinish
      <3>2. Append(backlog[s], Stop) \in Seq(Asking)
        BY <1>0, StopIsNoClient
      <3> QED
        BY ONLY <1>0, <3>1, <3>2
    <2>2. CASE ~reached
      BY <1>0, <1>3, <1>4, <2>2 DEF SendFinish
    <2> QED
      BY <2>1, <2>2
  <1>15. /\ ctl' \in [Servers -> [Asking -> Lines]]
         /\ \A t \in Servers : /\ ctl'[t][Stop].down = ctl[t][Stop].down
                               /\ ctl'[t][Stop].up = ctl[t][Stop].up \/ ctl'[t][Stop].up \in Finish
                               /\ \A c \in Clients : ctl'[t][c] = ctl[t][c]
    <2>1. CASE reached
      <3>0. PICK v \in Finish : v = IF mode.stop = "await" THEN "FINISH_AWAIT" ELSE "FINISH"
        BY DEF Finish
      <3>1. ctl' = [ctl EXCEPT ![s][Stop].up = v]
        BY <1>3, <1>4, <2>1, <3>0 DEF SendFinish
      <3>2. PICK l \in Lines : l = ctl[s][Stop]
        BY <1>0, StopIsNoClient
      <3>3. PICK m : m = [l EXCEPT !.up = v]
        OBVIOUS
      <3>4. m \in Lines /\ m.up = v /\ m.down = l.down
        BY ONLY <3>3, l \in Lines, v \in Finish DEF Lines, Finish
      <3>5. PICK h : h = [ctl[s] EXCEPT ![Stop] = m]
        OBVIOUS
      <3>6. h \in [Asking -> Lines] /\ h[Stop] = m /\ \A r \in Asking \ {Stop} : h[r] = ctl[s][r]
        BY <1>0, <3>4, <3>5, StopIsNoClient
      <3>7. ctl' = [ctl EXCEPT ![s] = h]
        BY ONLY <3>1, <3>2, <3>3, <3>5
      <3>8. ctl' \in [Servers -> [Asking -> Lines]] /\ ctl'[s] = h /\ \A t \in Servers \ {s} : ctl'[t] = ctl[t]
        BY ONLY <1>0, <3>6, <3>7, s \in Servers
      <3>9. \A c \in Clients : c \in Asking \ {Stop}
        BY StopIsNoClient
      <3> QED
        BY ONLY <3>2, <3>4, <3>6, <3>8, <3>9, v \in Finish
    <2>2. CASE ~reached
      <3>1. ctl' = ctl
        BY <1>3, <1>4, <2>2 DEF SendFinish
      <3> QED
        BY <1>0, <3>1
    <2> QED
      BY <2>1, <2>2
  <1> QED
    BY ONLY LifecycleInv, <1>1, <1>12, <1>13, <1>14, <1>15, StopStepKeeps

\* An answer that xpn_server_down reads, or what it reads past the sockets it opened.
LEMMA RecvAnswerKeeps == ASSUME LifecycleInv, RecvAnswer PROVE LifecycleInv'
  <1>0. /\ st \in [pc : {"idle", "send", "await", "done", "stuck"}, i : Servers \union {NServers + 1},
                   sockets : Seq(Servers)]
        /\ mode \in Modes /\ StopInv /\ NServers \in Nat \ {0}
    BY LifecycleAssumption DEF LifecycleInv, LifecycleType
  <1>1. /\ st.pc = "await" /\ Answered(st.i) /\ UNCHANGED <<mode, sv, backlog, ctl, data, wire, disp, runs, nc, ans, cl>>
    BY DEF RecvAnswer
  <1>2. PICK i \in Servers : i = st.i
    <2>1. st.i <= NServers /\ st.i \in Servers \union {NServers + 1}
      BY <1>0, <1>1 DEF StopInv
    <2> QED
      BY <1>0, <2>1 DEF Servers
  <1>3. PICK n, pc : /\ st' = [st EXCEPT !.i = n, !.pc = pc]
                     /\ \/ n = i + 1 /\ pc = (IF i < NServers THEN "await" ELSE "done")
                        \/ n = i /\ pc = "stuck"
    <2>1. CASE st' = [st EXCEPT !.i = @ + 1, !.pc = IF st.i < NServers THEN "await" ELSE "done"]
      <3>1. PICK n, pc : n = i + 1 /\ pc = (IF i < NServers THEN "await" ELSE "done")
        OBVIOUS
      <3>2. st' = [st EXCEPT !.i = n, !.pc = pc]
        BY <1>2, <2>1, <3>1
      <3> QED
        BY <3>1, <3>2
    <2>2. CASE st' = [st EXCEPT !.pc = "stuck"]
      <3>1. st' = [st EXCEPT !.i = i, !.pc = "stuck"]
        BY <1>0, <1>2, <2>2
      <3> QED
        BY <3>1
    <2> QED
      BY <2>1, <2>2 DEF RecvAnswer
  <1>4. st' = [pc |-> pc, i |-> n, sockets |-> st.sockets]
    BY ONLY <1>0, <1>3
  <1>5. n \in Servers \union {NServers + 1} /\ pc \in {"await", "done", "stuck"}
    BY <1>0, <1>3 DEF Servers
  <1>6. st' \in [pc : {"idle", "send", "await", "done", "stuck"}, i : Servers \union {NServers + 1},
                 sockets : Seq(Servers)]
    BY <1>0, <1>4, <1>5
  <1>7. StopInv'
    <2>0. Hosts' = Hosts /\ mode' = mode /\ ctl' = ctl /\ i \in Nat /\ Len(st.sockets) \in Nat
      BY <1>0, <1>1 DEF Hosts, Servers
    <2>1. /\ Len(st.sockets) <= NServers
          /\ \A j \in 1 .. Len(st.sockets) : j < i => ctl[st.sockets[j]][Stop].down # ""
      BY <1>0, <1>1, <1>2 DEF StopInv
    <2>2. i <= Len(st.sockets) => ctl[st.sockets[i]][Stop].down # ""
      BY <1>1, <1>2 DEF Answered
    <2>3. \A j \in 1 .. Len(st.sockets) : j < i + 1 => ctl[st.sockets[j]][Stop].down # ""
      <3> TAKE j \in 1 .. Len(st.sockets)
      <3>1. j < i + 1 => j < i \/ j = i
        BY ONLY <2>0, j \in 1 .. Len(st.sockets)
      <3>2. j = i => i <= Len(st.sockets)
        BY ONLY <2>0, j \in 1 .. Len(st.sockets)
      <3> QED
        BY <2>1, <2>2, <3>1, <3>2
    <2>4. pc = "await" => n <= NServers /\ n = i + 1
      BY <1>0, <1>3, <2>0
    <2>5. ASSUME pc = "done", NEW j \in 1 .. Len(st.sockets) PROVE j < i + 1
      <3>1. i \in Nat /\ NServers \in Nat /\ Len(st.sockets) \in Nat /\ Len(st.sockets) <= NServers
        BY <1>0, <2>0, <2>1
      <3>2. ~(i < NServers)
        BY ONLY <1>3, <2>5
      <3> QED
        BY ONLY <3>1, <3>2, j \in 1 .. Len(st.sockets)
    <2>6. st'.pc = pc /\ st'.i = n /\ st'.sockets = st.sockets
      BY <1>4
    <2> QED
      BY ONLY <1>5, <2>0, <2>1, <2>3, <2>4, <2>5, <2>6 DEF StopInv
  <1>8. /\ backlog' \in [Servers -> Seq(Asking)] /\ ctl' \in [Servers -> [Asking -> Lines]]
        /\ \A t \in Servers : /\ ctl'[t][Stop].down = ctl[t][Stop].down
                              /\ ctl'[t][Stop].up = ctl[t][Stop].up \/ ctl'[t][Stop].up \in Finish
                              /\ \A c \in Clients : ctl'[t][c] = ctl[t][c]
    BY <1>1, TypeOf
  <1> QED
    BY ONLY LifecycleInv, <1>1, <1>6, <1>7, <1>8, StopStepKeeps

-----------------------------------------------------------------------------
(* Every step, and what follows *)

LEMMA NextLifecycleInv == LifecycleInv /\ [Next]_vars => LifecycleInv'
  <1> SUFFICES ASSUME LifecycleInv, [Next]_vars PROVE LifecycleInv'
    OBVIOUS
  <1>1. ASSUME NEW s \in Servers, Server(s) PROVE LifecycleInv'
    <2>1. CASE AcceptControl(s)
      BY <2>1, AcceptControlKeeps
    <2>2. CASE RecvCode(s)
      BY <2>2, RecvCodeKeeps
    <2>3. CASE SendPort(s)
      BY <2>3, SendPortKeeps
    <2>4. CASE UnknownCode(s)
      BY <2>4, UnknownCodeKeeps
    <2>5. CASE AcceptData(s)
      BY <2>5, AcceptDataKeeps
    <2>6. CASE DispatcherReturns(s) \/ WorkersDestroy(s)
      BY <2>6, LoopReturnsKeeps
    <2>7. CASE CommDestroy(s)
      BY <2>7, CommDestroyKeeps
    <2>8. CASE Up(s)
      BY <2>8, UpKeeps
    <2> QED
      BY <1>1, <2>1, <2>2, <2>3, <2>4, <2>5, <2>6, <2>7, <2>8 DEF Server
  <1>2. ASSUME NEW s \in Servers, Threads(s) PROVE LifecycleInv'
    <2>1. ASSUME NEW o \in Clients, Dispatcher(s, o) PROVE LifecycleInv'
      BY <2>1, DispatcherKeeps
    <2>2. ASSUME NEW o \in Clients, RunOperation(s, o) PROVE LifecycleInv'
      BY <2>2, RunOperationKeeps
    <2>3. CASE Connectionless(s)
      BY <2>3, ConnectionlessKeeps
    <2>4. CASE ConnectionlessRun(s) \/ ConnectionlessEnds(s)
      BY <2>4, ConnectionlessRunKeeps
    <2> QED
      BY <1>2, <2>1, <2>2, <2>3, <2>4 DEF Threads
  <1>3. ASSUME NEW s \in Servers, Start(s) \/ StartFails(s) PROVE LifecycleInv'
    BY <1>3, StartKeeps
  <1>4. ASSUME NEW s \in Servers, CommConnect(s) PROVE LifecycleInv'
    BY <1>4, CommConnectKeeps
  <1>5. ASSUME NEW s \in Servers, CommDisconnect(s) PROVE LifecycleInv'
    BY <1>5, CommDisconnectKeeps
  <1>6. ASSUME NEW s \in Servers, NEW o \in Clients, LostDispatcherEnds(s, o) PROVE LifecycleInv'
    BY <1>6, LostDispatcherEndsKeeps
  <1>7. ASSUME NEW c \in Clients, Client(c) PROVE LifecycleInv'
    <2>1. CASE Lookup(c)
      BY <2>1, LookupKeeps
    <2>2. CASE SendCode(c)
      BY <2>2, SendCodeKeeps
    <2>3. CASE ReadPort(c) \/ Bcast(c)
      BY <2>3, ReadPortKeeps
    <2>4. CASE ConnectData(c)
      BY <2>4, ConnectDataKeeps
    <2>5. CASE ReadAnswer(c)
      BY <2>5, ReadAnswerKeeps
    <2>6. CASE Leave(c)
      BY <2>6, LeaveKeeps
    <2>7. CASE Disconnect(c)
      BY <2>7, DisconnectKeeps
    <2> QED
      BY <1>7, <2>1, <2>2, <2>3, <2>4, <2>5, <2>6, <2>7 DEF Client, Connecting
  <1>8. ASSUME NEW c \in Clients, Operate(c) PROVE LifecycleInv'
    BY <1>8, OperateKeeps
  <1>9. ASSUME NEW c \in Clients, Die(c) PROVE LifecycleInv'
    BY <1>9, DieKeeps
  <1>10. CASE StopMain
    BY <1>10, StopMainKeeps
  <1>11. CASE StopStep
    BY <1>11, SendFinishKeeps, RecvAnswerKeeps DEF StopStep
  <1>12. CASE UNCHANGED vars
    <2>1. /\ mode' = mode /\ sv' = sv /\ backlog' = backlog /\ ctl' = ctl /\ data' = data /\ wire' = wire
          /\ disp' = disp /\ runs' = runs /\ nc' = nc /\ ans' = ans /\ cl' = cl /\ st' = st
      BY <1>12 DEF vars
    <2>2. LifecycleType'
      BY ONLY LifecycleInv, <2>1 DEF LifecycleInv, LifecycleType
    <2>3. StopInv'
      BY ONLY LifecycleInv, <2>1 DEF LifecycleInv, StopInv, Hosts
    <2>4. ASSUME NEW s \in Servers PROVE CodeOk(s)' /\ PortOk(s)' /\ EndOk(s)'
      <3>1. CodeOk(s) /\ PortOk(s) /\ EndOk(s)
        BY DEF LifecycleInv
      <3>2. CodeOk(s)'
        BY ONLY <2>1, <3>1 DEF CodeOk, Code, Mpi
      <3>3. PortOk(s)'
        BY ONLY <2>1, <3>1 DEF PortOk, Told, Mpi, Code
      <3>4. EndOk(s)'
        BY ONLY <2>1, <3>1 DEF EndOk, WorkersEnded
      <3> QED
        BY <3>2, <3>3, <3>4
    <2>5. ASSUME NEW s \in Servers, NEW c \in Clients PROVE AskOk(s, c)' /\ KeptOk(s, c)'
      <3>1. AskOk(s, c) /\ KeptOk(s, c)
        BY DEF LifecycleInv
      <3>2. AskOk(s, c)'
        BY ONLY <2>1, <3>1 DEF AskOk, Mpi
      <3>3. KeptOk(s, c)'
        BY ONLY <2>1, <3>1 DEF KeptOk, Served, Living, Mpi
      <3> QED
        BY <3>2, <3>3
    <2>6. \A c \in Clients : JobOk(c)' /\ CallOk(c)'
      BY ONLY LifecycleInv, <2>1 DEF LifecycleInv, JobOk, CallOk, Living, Mpi
    <2> QED
      BY ONLY <2>2, <2>3, <2>4, <2>5, <2>6 DEF LifecycleInv
  <1> QED
    BY <1>1, <1>2, <1>3, <1>4, <1>5, <1>6, <1>7, <1>8, <1>9, <1>10, <1>11, <1>12 DEF Next

LEMMA AlwaysLifecycleInv == Spec => []LifecycleInv
  BY InitLifecycleInv, NextLifecycleInv, PTL DEF Spec

\* A connection that is kept keeps a dispatcher, or waits for one: the server has not ended.
LEMMA KeptKeepsServer ==
  ASSUME LifecycleInv, NEW s \in Servers, NEW c \in Clients, mode.keep = 1, Living(c), s \in cl[c].have
  PROVE  sv[s].pc # "down"
  <1>1. KeptOk(s, c) /\ EndOk(s) /\ Root \in Clients
    BY LifecycleAssumption DEF LifecycleInv
  <1>2. Served(s, c)
    BY <1>1 DEF KeptOk
  <1>3. sv[s].pc = "down" => WorkersEnded(s) /\ data[s] = <<>>
    BY <1>1 DEF EndOk
  <1> QED
    BY <1>1, <1>2, <1>3 DEF Served, WorkersEnded

(* A server ends only when no living client holds a connection it keeps,  *)
(* whatever the clients, the servers, the mode and the way of the stop:    *)
(* xpn_server_finish waits for the dispatchers, and the loop that hands    *)
(* out a port waits for that connection before it reads another code.      *)
THEOREM LifecycleNoClientLeftBehind == Spec => []NoClientLeftBehind
  <1>1. LifecycleInv => NoClientLeftBehind
    <2> SUFFICES ASSUME LifecycleInv, NEW s \in Servers, sv[s].pc = "down", mode.keep = 1,
                        NEW c \in Clients \ Dead
                 PROVE  s \notin cl[c].have
      BY DEF NoClientLeftBehind
    <2>1. Living(c) /\ c \in Clients
      BY DEF Dead, Living
    <2> QED
      BY <2>1, KeptKeepsServer
  <1> QED
    BY <1>1, AlwaysLifecycleInv, PTL

(* The awaited stop of xpn_stop_server: when its second loop is through,   *)
(* every server it reached has ended with nothing left to run, and no      *)
(* client waits for an answer that is not there, whatever the number of    *)
(* servers and which of them could not be reached.                         *)
THEOREM LifecycleAwaitedStop == Spec => []AwaitedStop
  <1>1. LifecycleInv => AwaitedStop
    <2> SUFFICES ASSUME LifecycleInv, mode.stop = "await", st.pc = "done", NEW j \in 1 .. Len(st.sockets),
                        NEW s, s = st.sockets[j]
                 PROVE  /\ sv[s].pc = "down" /\ runs[s] = {} /\ nc[s].pc # "run"
                        /\ \A c \in Clients : cl[c].pc = "wait" /\ cl[c].at = s => c \in ans[s]
      BY DEF AwaitedStop
    <2>1. st.sockets \in Seq(Servers) /\ StopInv
      BY DEF LifecycleInv, LifecycleType
    <2>2. s \in Servers
      BY ONLY <2>1, j \in 1 .. Len(st.sockets), s = st.sockets[j]
    <2>3. ctl[s][Stop].down # ""
      BY <2>1 DEF StopInv
    <2>4. sv[s].pc = "down" /\ WorkersEnded(s) /\ data[s] = <<>>
      BY <2>2, <2>3 DEF LifecycleInv, EndOk
    <2>5. ASSUME NEW c \in Clients, cl[c].pc = "wait", cl[c].at = s PROVE c \in ans[s]
      <3>0. CallOk(c) /\ Living(c)
        BY <2>5 DEF LifecycleInv, Living
      <3>1. mode.keep # 1
        BY <2>2, <2>4, <2>5, <3>0, KeptKeepsServer DEF CallOk
      <3>2. nc[s].pc # "run"
        BY <2>4 DEF WorkersEnded
      <3> QED
        BY <2>4, <2>5, <3>0, <3>1, <3>2 DEF CallOk
    <2> QED
      BY <2>4, <2>5 DEF WorkersEnded
  <1> QED
    BY <1>1, AlwaysLifecycleInv, PTL

=============================================================================
