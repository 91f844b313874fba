-------------------------- MODULE ServerLifecycle --------------------------
(***************************************************************************)
(* How an xpn_server starts, takes in clients and stops: xpn_server_up     *)
(* with its one accept loop, the dispatchers it launches, the end of the   *)
(* server in xpn_server_finish, xpn_server_down and xpn_terminate_server,  *)
(* which ask for it, and on the other side the connection of the clients   *)
(* to every server in turn and their leave.                                *)
(*                                                                         *)
(* Sockets and MPI are two modes of the same loop.  With sockets every     *)
(* client is a process of its own.  With MPI the clients are the ranks of  *)
(* one job: Root asks for the port, the connection is made and ended by    *)
(* all the ranks together, and one dispatcher serves them all.             *)
(* What the operations carry is the subject of ServerSession.              *)
(***************************************************************************)
EXTENDS Integers, Sequences, FiniteSets

CONSTANTS Clients,      \* client processes, or the ranks of the job
          Root,         \* the rank 0 of the job
          NServers,     \* the servers of the partition, in the order of the conf
          Replication,  \* replication_level: servers that may be missing
          MaxOps,       \* bound on the operations of a client
          Modes         \* the modes of the programs that are explored

ASSUME LifecycleAssumption ==
  /\ Root \in Clients /\ NServers \in Nat \ {0}
  /\ Clients \intersect {"disc", "eof", "xpn_stop_server"} = {}
  /\ Replication \in Nat /\ MaxOps \in Nat
  /\ Modes \subseteq [type : {"SCK", "MPI"}, threads : BOOLEAN, keep : {0, 1},
                      stop : {"down", "await", "terminate"}, deaths : 0 .. 1]
  /\ \A m \in Modes : m.type = "MPI" => m.keep = 1 /\ m.deaths = 0

Servers == 1 .. NServers
Stop    == "xpn_stop_server"
Asking  == Clients \union {Stop}

VARIABLES mode,     \* server_type, thread_mode_connections # TH_NOT, XPN_CONNECTED,
                    \* how the servers are stopped, bound on the clients that die
          sv,       \* server -> its accept loop
          backlog,  \* server -> control connections it has not accepted yet
          ctl,      \* server -> asking process -> what is on its control connection
          data,     \* server -> connections to its data port, not accepted yet
          wire,     \* server -> client -> requests on their way on its connection
          disp,     \* server -> client -> the dispatcher of its connection
          runs,     \* server -> clients whose operation is being run
          nc,       \* server -> the connectionless dispatcher
          ans,      \* server -> clients with an answer, or an end, to read
          cl,       \* client -> the process
          bc,       \* server -> what Root has broadcast about its port
          st        \* the process that stops the servers

vars == <<mode, sv, backlog, ctl, data, wire, disp, runs, nc, ans, cl, bc, st>>

Mpi == mode.type = "MPI"
Owner(c) == IF Mpi THEN Root ELSE c

NoLoop == [pc |-> "off", peer |-> Stop, code |-> "0", comm |-> Root, open |-> FALSE]
Quiet  == [up |-> "", down |-> ""]

Init ==
  /\ mode \in Modes
  /\ sv = [s \in Servers |-> NoLoop]
  /\ backlog = [s \in Servers |-> <<>>]
  /\ ctl = [s \in Servers |-> [r \in Asking |-> Quiet]]
  /\ data = [s \in Servers |-> <<>>]
  /\ wire = [s \in Servers |-> [c \in Clients |-> <<>>]]
  /\ disp = [s \in Servers |-> [c \in Clients |-> "none"]]
  /\ runs = [s \in Servers |-> {}]
  /\ nc = [s \in Servers |-> [pc |-> "none", who |-> Root]]
  /\ ans = [s \in Servers |-> {}]
  /\ cl = [c \in Clients |-> [pc |-> "start", at |-> 1, have |-> {}, bad |-> {}, ops |-> 0]]
  /\ bc = [s \in Servers |-> "none"]
  /\ st = [pc |-> "idle", i |-> 1, sockets |-> <<>>]

-----------------------------------------------------------------------------
(* The server. *)

Deployed    == \A s \in Servers : sv[s].pc # "off"
Listens(s)  == sv[s].pc \notin {"off", "failed", "down"}
Dead        == {c \in Clients : cl[c].pc \in {"dead", "dead_asking"}}

(* xpn_server_init, then the control socket.  Any of it may fail, and then *)
(* main returns.  The connectionless dispatcher exists with sockets only.  *)
(* Bound: the servers are started one after another, before the clients.   *)
Start(s) ==
  /\ sv[s].pc = "off" /\ \A t \in 1 .. s - 1 : sv[t].pc # "off"
  /\ sv' = [sv EXCEPT ![s].pc = "accept", ![s].open = TRUE]
  /\ nc' = [nc EXCEPT ![s].pc = IF Mpi THEN "none" ELSE "accept"]
  /\ UNCHANGED <<mode, backlog, ctl, data, wire, disp, runs, ans, cl, bc, st>>

StartFails(s) ==
  /\ sv[s].pc = "off" /\ \A t \in 1 .. s - 1 : sv[t].pc # "off"
  /\ sv' = [sv EXCEPT ![s].pc = "failed"]
  /\ UNCHANGED <<mode, backlog, ctl, data, wire, disp, runs, nc, ans, cl, bc, st>>

(* socket_server_accept on the control socket. *)
AcceptControl(s) ==
  /\ sv[s].pc = "accept" /\ backlog[s] # <<>>
  /\ sv' = [sv EXCEPT ![s].pc = "recv", ![s].peer = Head(backlog[s])]
  /\ backlog' = [backlog EXCEPT ![s] = Tail(@)]
  /\ UNCHANGED <<mode, ctl, data, wire, disp, runs, nc, ans, cl, bc, st>>

(* socket_recv of the code.  A process that died before it sent one is an  *)
(* error, or an end of file, which returns 0 and leaves recv_code alone.   *)
RecvCode(s) ==
  LET up == ctl[s][sv[s].peer].up IN
  /\ sv[s].pc = "recv" /\ up # ""
  /\ \/ up # "eof" /\ sv' = [sv EXCEPT ![s].pc = "switch", ![s].code = up]
     \/ up = "eof" /\ sv' = [sv EXCEPT ![s].pc = "switch"]
     \/ up = "eof" /\ sv' = [sv EXCEPT ![s].pc = "accept"]
  /\ UNCHANGED <<mode, backlog, ctl, data, wire, disp, runs, nc, ans, cl, bc, st>>

(* Whether the process at the other end of the control connection is gone. *)
PeerGone(s) == sv[s].peer \in Dead

(* The cases that tell the asking process a port: for a connection that is *)
(* to be kept the loop then waits for it in xpn_server_comm_accept.  The   *)
(* send to a process that is gone may fail, and then the loop goes on.     *)
SendPort(s) ==
  /\ sv[s].pc = "switch" /\ sv[s].code \in {"MPI", "SCK_CONN", "SCK_NO_CONN"}
  /\ ctl' = [ctl EXCEPT ![s][sv[s].peer].down = "port"]
  /\ \/ sv' = [sv EXCEPT ![s].pc = IF sv[s].code = "SCK_NO_CONN" THEN "accept" ELSE "data"]
     \/ PeerGone(s) /\ sv' = [sv EXCEPT ![s].pc = "accept"]
  /\ UNCHANGED <<mode, backlog, data, wire, disp, runs, nc, ans, cl, bc, st>>

(* A code the loop does not know: nothing but the close of the connection. *)
UnknownCode(s) ==
  /\ sv[s].pc = "switch" /\ sv[s].code = "0"
  /\ sv' = [sv EXCEPT ![s].pc = "accept"]
  /\ ctl' = [ctl EXCEPT ![s][sv[s].peer].down = "eof"]
  /\ UNCHANGED <<mode, backlog, data, wire, disp, runs, nc, ans, cl, bc, st>>

(* Without threads the dispatcher runs in the loop itself. *)
AfterLaunch == IF mode.threads THEN "accept" ELSE "inline"

(* sck_server_comm_accept and the launch of xpn_server_dispatcher.  The    *)
(* loop takes whoever comes first, not the process it sent the port to.    *)
AcceptData(s) ==
  /\ ~Mpi /\ sv[s].pc = "data" /\ data[s] # <<>>
  /\ LET c == Head(data[s]).who
     IN  /\ disp' = [disp EXCEPT ![s][c] = "read"]
         /\ sv' = [sv EXCEPT ![s].pc = AfterLaunch, ![s].comm = c]
  /\ data' = [data EXCEPT ![s] = Tail(@)]
  /\ UNCHANGED <<mode, backlog, ctl, wire, runs, nc, ans, cl, bc, st>>

DispatcherReturns(s) ==
  /\ sv[s].pc = "inline" /\ disp[s][sv[s].comm] = "ended"
  /\ sv' = [sv EXCEPT ![s].pc = "accept"]
  /\ UNCHANGED <<mode, backlog, ctl, data, wire, disp, runs, nc, ans, cl, bc, st>>

(* xpn_server_dispatcher: the next operation is launched on worker2, which *)
(* has threads only with MPI; a DISCONNECT ends the dispatcher, with MPI   *)
(* in MPI_Comm_disconnect.  The end of the stream is taken for one more of *)
(* the last operation, again and again.  (FINALIZE, which would end the    *)
(* dispatcher and set the_end, is sent by nobody.)                         *)
Concurrent == Mpi /\ mode.threads
ReadOperation(s, o) == Head(wire[s][o])
AfterDisconnect == IF Mpi THEN "bye" ELSE "ended"
Dispatcher(s, o) ==
  /\ disp[s][o] = "read" /\ wire[s][o] # <<>>
  /\ LET m == ReadOperation(s, o)
     IN  /\ disp' = [disp EXCEPT ![s][o] =
                       CASE m = "disc" -> AfterDisconnect
                         [] m = "eof"  -> "lost"
                         [] OTHER      -> IF Concurrent THEN "read" ELSE "run"]
         /\ runs' = [runs EXCEPT ![s] = @ \union ({m} \intersect Clients)]
  /\ wire' = [wire EXCEPT ![s][o] = Tail(@)]
  /\ UNCHANGED <<mode, sv, backlog, ctl, data, nc, ans, cl, bc, st>>

(* xpn_server_run has run the operation of c and answered. *)
RunOperation(s, c) ==
  /\ c \in runs[s]
  /\ runs' = [runs EXCEPT ![s] = @ \ {c}]
  /\ ans' = [ans EXCEPT ![s] = @ \union {c}]
  /\ disp' = [disp EXCEPT ![s][Owner(c)] = IF @ = "run" THEN "read" ELSE @]
  /\ UNCHANGED <<mode, sv, backlog, ctl, data, wire, nc, cl, bc, st>>

(* The dispatcher of a dead client may meet the EPIPE after which          *)
(* xpn_server_run closes the connection: the next read then fails.         *)
LostDispatcherEnds(s, o) ==
  /\ disp[s][o] = "lost"
  /\ disp' = [disp EXCEPT ![s][o] = "ended"]
  /\ UNCHANGED <<mode, sv, backlog, ctl, data, wire, runs, nc, ans, cl, bc, st>>

(* xpn_server_dispatcher_connectionless: a connection without a request is *)
(* closed, one with a request is run to its end.  Once the port is shut    *)
(* down accept fails, and the_end has been set before.                     *)
Connectionless(s) ==
  /\ nc[s].pc = "accept" /\ mode.keep = 0 /\ data[s] # <<>>
  /\ nc' = [nc EXCEPT ![s] = IF Head(data[s]).op THEN [pc |-> "run", who |-> Head(data[s]).who]
                                                 ELSE @]
  /\ data' = [data EXCEPT ![s] = Tail(@)]
  /\ UNCHANGED <<mode, sv, backlog, ctl, wire, disp, runs, ans, cl, bc, st>>

ConnectionlessRun(s) ==
  /\ nc[s].pc = "run"
  /\ nc' = [nc EXCEPT ![s].pc = "accept"]
  /\ ans' = [ans EXCEPT ![s] = @ \union {nc[s].who}]
  /\ UNCHANGED <<mode, sv, backlog, ctl, data, wire, disp, runs, cl, bc, st>>

ConnectionlessEnds(s) ==
  /\ nc[s].pc = "accept" /\ ~sv[s].open
  /\ nc' = [nc EXCEPT ![s].pc = "end"]
  /\ UNCHANGED <<mode, sv, backlog, ctl, data, wire, disp, runs, ans, cl, bc, st>>

(* SOCKET_FINISH_CODE and SOCKET_FINISH_CODE_AWAIT: xpn_server_finish.     *)
(* With MPI the communication is destroyed first by MPI_Finalize, which    *)
(* waits for the processes that are still connected.  With sockets the two *)
(* data ports are shut down, and a connection nobody has accepted is cut.  *)
Connected(s) == \E o \in Clients : disp[s][o] \in {"read", "run", "bye"}
CommDestroyUnshut(s) ==
  /\ sv[s].pc = "switch" /\ sv[s].code \in {"FINISH", "FINISH_AWAIT"}
  /\ sv' = [sv EXCEPT ![s].pc = "workers"]
  /\ UNCHANGED <<mode, backlog, ctl, data, wire, disp, runs, nc, ans, cl, bc, st>>
CommDestroy(s) ==
  /\ sv[s].pc = "switch" /\ sv[s].code \in {"FINISH", "FINISH_AWAIT"}
  /\ Mpi => ~Connected(s)
  /\ sv' = [sv EXCEPT ![s].pc = "workers", ![s].open = FALSE]
  /\ ans' = [ans EXCEPT ![s] = @ \union {data[s][i].who : i \in {j \in 1 .. Len(data[s]) : data[s][j].op}}]
  /\ data' = [data EXCEPT ![s] = <<>>]
  /\ UNCHANGED <<mode, backlog, ctl, wire, disp, runs, nc, cl, bc, st>>

(* base_workers_destroy of worker1, worker2 and worker3 waits for the      *)
(* dispatchers, for the operations and for the connectionless dispatcher;  *)
(* none of them starts again, so the three waits are one.                  *)
WorkersEndedUnwaited(s) == nc[s].pc \in {"none", "end"}
WorkersEnded(s) ==
  /\ \A o \in Clients : disp[s][o] \in {"none", "ended"}
  /\ runs[s] = {}
  /\ nc[s].pc \in {"none", "end"}
WorkersDestroy(s) ==
  /\ sv[s].pc = "workers" /\ WorkersEnded(s)
  /\ sv' = [sv EXCEPT ![s].pc = "close"]
  /\ UNCHANGED <<mode, backlog, ctl, data, wire, disp, runs, nc, ans, cl, bc, st>>

(* The control socket is closed, which cuts the connections that are still *)
(* waiting there, then a process that awaits the stop gets its code back.  *)
Up(s) ==
  /\ sv[s].pc = "close"
  /\ sv' = [sv EXCEPT ![s].pc = "down"]
  /\ backlog' = [backlog EXCEPT ![s] = <<>>]
  /\ ctl' = [ctl EXCEPT ![s] = [r \in Asking |->
               CASE r \in {backlog[s][i] : i \in 1 .. Len(backlog[s])} -> [ctl[s][r] EXCEPT !.down = "eof"]
                 [] r = sv[s].peer /\ sv[s].code = "FINISH_AWAIT" -> [ctl[s][r] EXCEPT !.down = "code"]
                 [] OTHER -> ctl[s][r]]]
  /\ UNCHANGED <<mode, data, wire, disp, runs, nc, ans, cl, bc, st>>

-----------------------------------------------------------------------------
(* The clients. *)

(* xpn_init_partition goes through the servers in the order of the conf; a *)
(* server that cannot be reached is marked, and too many of them end it.   *)
OrderByClient(c, i) == IF c = Root THEN i ELSE NServers + 1 - i
Order(c, i) == i
At(c) == Order(c, cl[c].at)
Next1(r, bad, have) ==
  LET last == r.at = NServers
      give_up == Cardinality(r.bad \union bad) > Replication
  IN  [r EXCEPT !.bad = @ \union bad, !.have = @ \union have,
                !.at = IF last THEN 1 ELSE @ + 1,
                !.pc = IF ~last THEN "start" ELSE IF give_up THEN "leave" ELSE "run"]

(* What Root tells the other ranks about the port of server s. *)
Tell(s, c, what) == IF Mpi /\ c = Root THEN [bc EXCEPT ![s] = what] ELSE bc

Code == IF Mpi THEN "MPI" ELSE IF mode.keep = 1 THEN "SCK_CONN" ELSE "SCK_NO_CONN"

(* The control connection of the look-up of the port. *)
Lookup(c) ==
  LET s == At(c) IN
  /\ cl[c].pc = "start" /\ (Mpi => c = Root) /\ Deployed
  /\ \/ /\ Listens(s)
        /\ backlog' = [backlog EXCEPT ![s] = Append(@, c)]
        /\ cl' = [cl EXCEPT ![c].pc = "opened"]
        /\ bc' = bc
     \/ /\ ~Listens(s)
        /\ cl' = [cl EXCEPT ![c] = Next1(@, {s}, {})]
        /\ bc' = Tell(s, c, "err")
        /\ backlog' = backlog
  /\ UNCHANGED <<mode, sv, ctl, data, wire, disp, runs, nc, ans, st>>

SendCode(c) ==
  /\ cl[c].pc = "opened"
  /\ ctl' = [ctl EXCEPT ![At(c)][c].up = Code]
  /\ cl' = [cl EXCEPT ![c].pc = "asked"]
  /\ UNCHANGED <<mode, sv, backlog, data, wire, disp, runs, nc, ans, bc, st>>

(* An end of file instead of the port is taken for an empty port name, to  *)
(* which no connection can be made.                                        *)
ReadPort(c) ==
  LET s == At(c)
      told == ctl[s][c].down
  IN
  /\ cl[c].pc = "asked" /\ told # ""
  /\ cl' = [cl EXCEPT ![c] = IF told = "port" THEN [@ EXCEPT !.pc = "connect"]
                                              ELSE Next1(@, {s}, {})]
  /\ bc' = Tell(s, c, IF told = "port" THEN "ok" ELSE "err")
  /\ UNCHANGED <<mode, sv, backlog, ctl, data, wire, disp, runs, nc, ans, st>>

(* socket_client_connect_with_retries.  A client that does not keep its    *)
(* connections closes this one at the end of nfi_xpn_server_init.          *)
ConnectData(c) ==
  LET s == At(c) IN
  /\ ~Mpi /\ cl[c].pc = "connect"
  /\ \/ /\ sv[s].open
        /\ data' = [data EXCEPT ![s] = Append(@, [who |-> c, op |-> FALSE])]
        /\ cl' = [cl EXCEPT ![c] = Next1(@, {}, {s})]
     \/ /\ ~sv[s].open
        /\ cl' = [cl EXCEPT ![c] = Next1(@, {s}, {})]
        /\ data' = data
  /\ UNCHANGED <<mode, sv, backlog, ctl, wire, disp, runs, nc, ans, bc, st>>

(* MPI_Bcast of err and of the port name to a rank that is not Root. *)
Bcast(c) ==
  LET s == At(c) IN
  /\ Mpi /\ c # Root /\ cl[c].pc = "start" /\ bc[s] # "none"
  /\ cl' = [cl EXCEPT ![c] = IF bc[s] = "ok" THEN [@ EXCEPT !.pc = "connect"]
                                               ELSE Next1(@, {s}, {})]
  /\ UNCHANGED <<mode, sv, backlog, ctl, data, wire, disp, runs, nc, ans, bc, st>>

(* MPI_Comm_connect is made by all the ranks, with MPI_Comm_accept of the  *)
(* server, which stays in it once it has told the port.                    *)
CommConnect(s) ==
  /\ Mpi /\ \A c \in Clients : cl[c].pc = "connect" /\ At(c) = s
  /\ sv[s].pc = "data"
  /\ disp' = [disp EXCEPT ![s][Root] = "read"]
  /\ sv' = [sv EXCEPT ![s].pc = AfterLaunch, ![s].comm = Root]
  /\ cl' = [c \in Clients |-> Next1(cl[c], {}, {s})]
  /\ UNCHANGED <<mode, backlog, ctl, data, wire, runs, nc, ans, bc, st>>

(* A call: on a kept connection the request follows the others, else it    *)
(* goes with a connection of its own, which the server may refuse.         *)
Operate(c) ==
  \E s \in cl[c].have :
    /\ cl[c].pc = "run" /\ cl[c].ops < MaxOps
    /\ \/ /\ mode.keep = 1
          /\ wire' = [wire EXCEPT ![s][Owner(c)] = Append(@, c)]
          /\ cl' = [cl EXCEPT ![c].pc = "wait", ![c].at = s]
          /\ data' = data
       \/ /\ mode.keep = 0 /\ sv[s].open
          /\ data' = [data EXCEPT ![s] = Append(@, [who |-> c, op |-> TRUE])]
          /\ cl' = [cl EXCEPT ![c].pc = "wait", ![c].at = s]
          /\ wire' = wire
       \/ /\ mode.keep = 0 /\ ~sv[s].open
          /\ cl' = [cl EXCEPT ![c].ops = @ + 1]
          /\ UNCHANGED <<wire, data>>
    /\ UNCHANGED <<mode, sv, backlog, ctl, disp, runs, nc, ans, bc, st>>

ReadAnswer(c) ==
  LET s == cl[c].at IN
  /\ cl[c].pc = "wait" /\ c \in ans[s]
  /\ ans' = [ans EXCEPT ![s] = @ \ {c}]
  /\ cl' = [cl EXCEPT ![c].pc = "run", ![c].at = 1, ![c].ops = @ + 1]
  /\ UNCHANGED <<mode, sv, backlog, ctl, data, wire, disp, runs, nc, bc, st>>

(* xpn_destroy, which the program calls between two of its operations. *)
Leave(c) ==
  /\ cl[c].pc = "run"
  /\ cl' = [cl EXCEPT ![c].pc = "leave"]
  /\ UNCHANGED <<mode, sv, backlog, ctl, data, wire, disp, runs, nc, ans, bc, st>>

Left(r) == [r EXCEPT !.at = IF @ = NServers THEN 1 ELSE @ + 1,
                     !.pc = IF r.at = NServers THEN "gone" ELSE "leave",
                     !.have = @ \ {r.at}]

(* xpn_destroy_servers: DISCONNECT and the close of a kept connection.     *)
(* With MPI Root sends the DISCONNECT and only then meets the other ranks  *)
(* in the barrier before MPI_Comm_disconnect.                              *)
Disconnect(c) ==
  LET s == cl[c].at
      kept == mode.keep = 1 /\ s \in cl[c].have
  IN
  /\ cl[c].pc = "leave"
  /\ wire' = IF kept /\ (Mpi => c = Root) THEN [wire EXCEPT ![s][c] = Append(@, "disc")] ELSE wire
  /\ cl' = [cl EXCEPT ![c] = IF kept /\ Mpi THEN [@ EXCEPT !.pc = "barrier"] ELSE Left(@)]
  /\ UNCHANGED <<mode, sv, backlog, ctl, data, disp, runs, nc, ans, bc, st>>

CommDisconnect(s) ==
  /\ Mpi /\ disp[s][Root] = "bye"
  /\ \A c \in Clients : cl[c].pc = "barrier" /\ cl[c].at = s
  /\ disp' = [disp EXCEPT ![s][Root] = "ended"]
  /\ cl' = [c \in Clients |-> Left(cl[c])]
  /\ UNCHANGED <<mode, sv, backlog, ctl, data, wire, runs, nc, ans, bc, st>>

(* A client process ends without a disconnect: its streams end. *)
Die(c) ==
  /\ c \notin Dead /\ cl[c].pc # "gone" /\ Cardinality(Dead) < mode.deaths
  /\ cl' = [cl EXCEPT ![c].pc = IF @ \in {"opened", "asked", "connect"} THEN "dead_asking"
                                                                        ELSE "dead"]
  /\ ctl' = [s \in Servers |-> [ctl[s] EXCEPT ![c].up = IF @ = "" THEN "eof" ELSE @]]
  /\ wire' = [s \in Servers |-> [wire[s] EXCEPT ![c] = IF mode.keep = 1 /\ s \in cl[c].have
                                                       THEN Append(@, "eof") ELSE @]]
  /\ UNCHANGED <<mode, sv, backlog, data, disp, runs, nc, ans, bc, st>>

-----------------------------------------------------------------------------
(* The stop. *)

(* main of xpn_stop_server, with or without await_stop, and of             *)
(* xpn_terminate_server, which sends SOCKET_FINISH_CODE to one server.     *)
StopMain ==
  /\ st.pc = "idle" /\ Deployed
  /\ st' = [st EXCEPT !.pc = "send"]
  /\ UNCHANGED <<mode, sv, backlog, ctl, data, wire, disp, runs, nc, ans, cl, bc>>

(* The first loop of xpn_server_down.  The sockets it opens are packed: a  *)
(* server it cannot reach has no entry.                                    *)
Hosts == IF mode.stop = "terminate" THEN 1 ELSE NServers
SendFinish ==
  LET s == st.i
      reached == Listens(s)
      next == IF s < Hosts THEN "send" ELSE IF mode.stop = "await" THEN "await" ELSE "done"
  IN
  /\ st.pc = "send"
  /\ st' = [st EXCEPT !.i = IF next = "send" THEN s + 1 ELSE 1, !.pc = next,
                      !.sockets = IF reached THEN Append(@, s) ELSE @]
  /\ backlog' = IF reached THEN [backlog EXCEPT ![s] = Append(@, Stop)] ELSE backlog
  /\ ctl' = IF reached THEN [ctl EXCEPT ![s][Stop].up =
                               IF mode.stop = "await" THEN "FINISH_AWAIT" ELSE "FINISH"] ELSE ctl
  /\ UNCHANGED <<mode, sv, data, wire, disp, runs, nc, ans, cl, bc>>

(* The second loop goes through as many entries as there are hosts: past   *)
(* the sockets it reads from a descriptor that was never set, which is an  *)
(* error or, when something else has that number, never returns.           *)
AnsweredFirst(i) == TRUE
Answered(i) == i <= Len(st.sockets) => ctl[st.sockets[i]][Stop].down # ""
RecvAnswer ==
  /\ st.pc = "await" /\ Answered(st.i)
  /\ \/ st' = [st EXCEPT !.i = @ + 1, !.pc = IF st.i < NServers THEN "await" ELSE "done"]
     \/ st.i > Len(st.sockets) /\ st' = [st EXCEPT !.pc = "stuck"]
  /\ UNCHANGED <<mode, sv, backlog, ctl, data, wire, disp, runs, nc, ans, cl, bc>>

-----------------------------------------------------------------------------
Server(s) ==
  \/ AcceptControl(s) \/ RecvCode(s) \/ SendPort(s) \/ UnknownCode(s)
  \/ AcceptData(s) \/ DispatcherReturns(s) \/ CommDestroy(s)
  \/ WorkersDestroy(s) \/ Up(s)
Threads(s) ==
  \/ \E o \in Clients : Dispatcher(s, o) \/ RunOperation(s, o)
  \/ Connectionless(s) \/ ConnectionlessRun(s) \/ ConnectionlessEnds(s)
Connecting(c) ==
  Lookup(c) \/ SendCode(c) \/ ReadPort(c) \/ ConnectData(c) \/ Bcast(c)
Client(c) == Connecting(c) \/ ReadAnswer(c) \/ Leave(c) \/ Disconnect(c)
StopStep == SendFinish \/ RecvAnswer

Next ==
  \/ \E s \in Servers : \/ Start(s) \/ StartFails(s) \/ Server(s) \/ Threads(s)
                        \/ CommConnect(s) \/ CommDisconnect(s)
                        \/ \E o \in Clients : LostDispatcherEnds(s, o)
  \/ \E c \in Clients : Client(c) \/ Operate(c) \/ Die(c)
  \/ StopMain \/ StopStep

(* Threads and processes are scheduled fairly, and a program that uses the *)
(* file system calls xpn_destroy in the end.  Nobody has to start a        *)
(* server, issue a call, stop the servers or die.                          *)
Fairness ==
  /\ \A s \in Servers :
       /\ WF_vars(Server(s)) /\ WF_vars(CommConnect(s) \/ CommDisconnect(s))
       /\ WF_vars(Connectionless(s) \/ ConnectionlessRun(s) \/ ConnectionlessEnds(s))
       /\ \A o \in Clients : WF_vars(Dispatcher(s, o) \/ RunOperation(s, o))
  /\ \A c \in Clients : WF_vars(Client(c))
  /\ WF_vars(StopStep)

Spec == Init /\ [][Next]_vars /\ Fairness

-----------------------------------------------------------------------------
(* The clients whose death the accept loop does not survive: it waits in   *)
(* comm_accept for one that died after it had asked for a port, also when  *)
(* the code it acts on is the one of the connection before, and without    *)
(* threads it stays in the dispatcher of one that died connected.          *)
BlocksLoop(c) ==
  /\ mode.keep = 1
  /\ \/ cl[c].pc = "dead_asking"
     \/ cl[c].pc = "dead" /\ ~mode.threads /\ cl[c].have # {}
(* The clients whose death the end of a server does not survive either.    *)
BlocksStop(c) == mode.keep = 1 /\ (cl[c].pc = "dead_asking" \/ (cl[c].pc = "dead" /\ cl[c].have # {}))

(* Rank 0 of a job sends its DISCONNECT before it waits for the others: an *)
(* operation of another rank that comes later to that server is read by    *)
(* nobody.                                                                 *)
CutOff(c) == Mpi /\ cl[c].pc = "wait" /\ cl[Root].pc = "barrier" /\ cl[c].at = cl[Root].at

(* xpn_stop_server that awaits the stop returns only when every server it  *)
(* could reach has ended, with no operation or dispatcher left and with no *)
(* client that still counts on an answer: the second loop of               *)
(* xpn_server_down reads the packed sockets past those it could not open.  *)
AwaitedStop ==
  mode.stop = "await" /\ st.pc = "done" =>
    \A i \in 1 .. Len(st.sockets) :
      LET s == st.sockets[i]
      IN  /\ sv[s].pc = "down" /\ runs[s] = {} /\ nc[s].pc # "run"
          /\ \A c \in Clients : cl[c].pc = "wait" /\ cl[c].at = s => c \in ans[s]

(* A server ends, whatever way it was stopped, only when no living client  *)
(* holds a connection it keeps: xpn_server_finish waits for the            *)
(* dispatchers, and no connection is lost between the look-up of the port, *)
(* the accept and the end.                                                 *)
NoClientLeftBehind ==
  \A s \in Servers : sv[s].pc = "down" /\ mode.keep = 1 =>
    \A c \in Clients \ Dead : s \notin cl[c].have

(* A client that goes through the servers gets through: every look-up is   *)
(* answered or cut, every connection it is told to make is made or         *)
(* refused, and the ranks of a job stay together, although one thread      *)
(* hands out the ports and waits for the connections, and servers end      *)
(* while clients connect.                                                  *)
ConnectEnds ==
  \A c \in Clients :
    (Deployed /\ cl[c].pc \in {"start", "opened", "asked", "connect"})
      ~> (cl[c].pc \in {"run", "wait", "leave"} \/ \E d \in Dead : d = c \/ BlocksLoop(d) \/ BlocksStop(d))

(* A server that has been told to finish ends: the loop gets to the code,  *)
(* the connectionless dispatcher leaves its accept, and the clients that   *)
(* the end waits for do not wait for this server.                          *)
StopEnds ==
  \A s \in Servers :
    (ctl[s][Stop].up # "") ~> (sv[s].pc = "down" \/ \E d \in Clients : BlocksStop(d) \/ CutOff(d))

(* A call that was sent to a server returns, also when the server ends in  *)
(* the meantime, unless rank 0 of its job has left before.                 *)
OperationAnswered ==
  \A c \in Clients :
    (cl[c].pc = "wait") ~> (cl[c].pc # "wait" \/ CutOff(c))

(* A client gets through its connections and its calls. *)
ClientsGetThrough == ConnectEnds /\ OperationAnswered

=============================================================================
