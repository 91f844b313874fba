-------------------------------- MODULE Proxy --------------------------------
(***************************************************************************)
(* The proxy: clients without Expand send each call of the API to a        *)
(* process that makes it for them.  A call is one connection: request,     *)
(* tails of long paths, status, and what else the call sends or gets.  The *)
(* main thread of the proxy accepts connections and queues them under      *)
(* queue_mutex; worker threads serve one connection at a time.  SIGINT     *)
(* sets do_exit, without the mutex.                                        *)
(*                                                                         *)
(* What the API answers is left open; of its state there are the handles   *)
(* (descriptors and directories), which live in the proxy.                 *)
(***************************************************************************)
EXTENDS Integers, Sequences, FiniteSets

CONSTANTS
    Clients, Workers,
    MaxConns,           \* bound: connections at a time
    Nobody,             \* no client, no connection
    MaxFiles, MaxDirs,  \* bound: descriptors and directories open at a time
    MaxCalls,           \* bound: calls in a behaviour
    MaxFailures,        \* bound: deaths of clients, failed allocations and SIGINT
    Opened,             \* handle -> client it was opened for before, the possible ones
    Makes,              \* client -> types of its requests
    LongPaths           \* types that are also made with paths beyond XPN_PATH_MAX

ASSUME ProxyAssumption ==
    /\ IsFiniteSet(Clients) /\ IsFiniteSet(Workers) /\ Nobody \notin Clients
    /\ DOMAIN Makes = Clients
    /\ Opened \subseteq [1..MaxFiles + MaxDirs -> Clients \cup {Nobody}]
    /\ {MaxConns, MaxFiles, MaxDirs, MaxCalls, MaxFailures} \subseteq Nat

VARIABLES
    call,               \* client -> the call it is in; told: whether the last result was true
    held,               \* client -> handles it was given and has not given back
    conn,               \* connection -> its two streams and ends
    backlog, client_q,  \* connections before and after accept
    main,               \* where main is
    worker,             \* worker -> where it is
    do_exit,
    handle,             \* handle -> client it was opened for
    calls, failures,    \* calls made and failures so far
    ghost               \* missed: the signal came between the test of do_exit and accept
                        \* lost: handles no client was told of; null: opendir gave NULL
vars == <<call, held, conn, backlog, client_q, main, worker, do_exit, handle, calls, failures, ghost>>

NoConn == 0
Conns == 1..MaxConns
FileHandles == 1..MaxFiles
DirHandles == MaxFiles + 1..MaxFiles + MaxDirs
Handles == FileHandles \cup DirHandles
Free == [client |-> Nobody, up |-> <<>>, down |-> <<>>, cl |-> FALSE, sv |-> FALSE, ran |-> <<>>]
Idle == [pc |-> "done", conn |-> NoConn, req |-> <<>>, ret |-> 0, told |-> TRUE]
AtLoop == [pc |-> "lock", conn |-> NoConn, req |-> <<>>, ret |-> 0]
Running == main \notin {"ended", "crashed"}

Init ==
    /\ call = [c \in Clients |-> Idle]
    /\ handle \in Opened
    /\ held = [c \in Clients |-> {h \in Handles : handle[h] = c}]
    /\ conn = [i \in Conns |-> Free]
    /\ backlog = <<>> /\ client_q = <<>>
    /\ main = "test"
    /\ worker = [w \in Workers |-> AtLoop]
    /\ do_exit = FALSE
    /\ calls = 0 /\ failures = 0
    /\ ghost = [missed |-> FALSE, lost |-> {}, null |-> FALSE]

server == <<backlog, client_q, main, worker, do_exit>>

-----------------------------------------------------------------------------
(* The client. *)

\* A request, the handle it is about and the number of path tails that follow it.
Request(type, h, tails) == [type |-> type, h |-> h, tails |-> tails]
Tails(type, most) == {0} \cup (IF type \in LongPaths THEN 1..most ELSE {})

Call(c, req) ==
    /\ call[c].pc = "done" /\ calls < MaxCalls /\ req.type \in Makes[c]
    /\ call' = [call EXCEPT ![c] = [Idle EXCEPT !.pc = "connect", !.req = req]]
    /\ calls' = calls + 1
    /\ UNCHANGED <<held, server, conn, handle, failures, ghost>>
PathCall(c, type) == \E t \in Tails(type, 1) : Call(c, Request(type, 0, t))
HandleCall(c, type, H) == \E h \in held[c] \cap H : Call(c, Request(type, h, 0))

xpn_open(c) == PathCall(c, "OPEN")
xpn_creat(c) == PathCall(c, "CREAT")
xpn_unlink(c) == PathCall(c, "RM")
xpn_stat(c) == PathCall(c, "GETATTR")
xpn_mkdir(c) == PathCall(c, "MKDIR")
xpn_rmdir(c) == PathCall(c, "RMDIR")
xpn_opendir(c) == PathCall(c, "OPENDIR")
xpn_rename(c) == \E t \in Tails("RENAME", 2) : Call(c, Request("RENAME", 0, t))
xpn_read(c) == HandleCall(c, "READ", FileHandles)
xpn_write(c) == HandleCall(c, "WRITE", FileHandles)
xpn_readdir(c) == HandleCall(c, "READDIR", DirHandles)
xpn_close(c) == HandleCall(c, "CLOSE", FileHandles)
xpn_closedir(c) == HandleCall(c, "CLOSEDIR", DirHandles)

\* The connection of the call of c, and the end of an end of it.
K(c) == conn[call[c].conn]
HalfClosed(k, end) ==
    LET d == [k EXCEPT ![end] = FALSE] IN IF d.cl \/ d.sv THEN d ELSE Free

\* d_close and the return of the call.  A call that opens returns a handle of the proxy.
Opens == {"OPEN", "CREAT", "OPENDIR"}
Closes == {"CLOSE", "CLOSEDIR"}
Return(c, ret) ==
    /\ call' = [call EXCEPT ![c] = [Idle EXCEPT !.told = ret = -1 \/ K(c).ran = <<ret>>]]
    /\ conn' = [conn EXCEPT ![call[c].conn] = HalfClosed(@, "cl")]
    /\ held' = [held EXCEPT ![c] = 
         IF call[c].req.type \in Opens /\ ret > 0 THEN @ \cup {ret}
         ELSE IF call[c].req.type \in Closes /\ ret = 0 THEN @ \ {call[c].req.h} ELSE @]

\* d_send_receive and d_send_receive_rn: connect and send the request and the path tails,
\* then receive the status.
d_connect(c) ==
    /\ call[c].pc = "connect"
    /\ \/ /\ Running
          /\ \E i \in Conns :
               /\ conn[i] = Free /\ \A j \in Conns : j < i => conn[j] # Free
               /\ conn' = [conn EXCEPT ![i] = [Free EXCEPT !.client = c, !.cl = TRUE, !.sv = TRUE,
                                                         !.up = <<call[c].req>>]]
               /\ call' = [call EXCEPT ![c].conn = i, ![c].pc = IF call[c].req.tails = 0 THEN "status" ELSE "tails"]
               /\ backlog' = Append(backlog, i)
       \/ /\ ~Running
          /\ call' = [call EXCEPT ![c] = Idle]
          /\ UNCHANGED <<conn, backlog>>
    /\ UNCHANGED <<held, client_q, main, worker, do_exit, handle, calls, failures, ghost>>
d_send(c) ==
    /\ call[c].pc = "tails"
    /\ conn' = [conn EXCEPT ![call[c].conn].up = @ \o [t \in 1..call[c].req.tails |-> "tail"]]
    /\ call' = [call EXCEPT ![c].pc = "status"]
    /\ UNCHANGED <<held, server, handle, calls, failures, ghost>>

\* read_n_bytes: the next item of the stream, or -1 at its end.
Arrived(c) == K(c).down # <<>>
Ended(c) == ~K(c).sv /\ K(c).down = <<>>
Taken(c, pc, ret) ==
    /\ call' = [call EXCEPT ![c].pc = pc, ![c].ret = ret]
    /\ conn' = [conn EXCEPT ![call[c].conn].down = Tail(@)]
    /\ UNCHANGED held

\* What a call does with the status: xpn_read asks for as many bytes as it says, which
\* read_n_bytes refuses for 0 and awaits in vain for -1; xpn_write goes on in any case;
\* xpn_stat, xpn_opendir and xpn_readdir go on after 0; the others are done.
AfterStatus(c, type, v) ==
    CASE type = "READ" -> IF v = 0 THEN Return(c, -1) ELSE Taken(c, "data", v)
      [] type = "WRITE" -> Taken(c, "send", v)
      [] type \in {"GETATTR", "OPENDIR", "READDIR"} -> IF v # 0 THEN Return(c, v) ELSE Taken(c, "more", v)
      [] OTHER -> Return(c, v)
d_receive(c) ==
    /\ call[c].pc = "status"
    /\ \/ Arrived(c) /\ Head(K(c).down).k = "status" /\ AfterStatus(c, call[c].req.type, Head(K(c).down).v)
       \/ Ended(c) /\ Return(c, -1)
    /\ UNCHANGED <<server, handle, calls, failures, ghost>>

\* The rest of xpn_read.
read_data(c) ==
    /\ call[c].pc = "data"
    /\ \/ Arrived(c) /\ Return(c, call[c].ret)
       \/ Ended(c) /\ Return(c, -1)
    /\ UNCHANGED <<server, handle, calls, failures, ghost>>

\* The rest of xpn_write: the data, and status (2/2), or no connection any more.
write_data(c) ==
    /\ call[c].pc = "send"
    /\ conn' = [conn EXCEPT ![call[c].conn].up = IF @ = <<>> /\ K(c).sv THEN <<"data">> ELSE @]
    /\ call' = [call EXCEPT ![c].pc = "status2"]
    /\ UNCHANGED <<held, server, handle, calls, failures, ghost>>
write_status(c) ==
    /\ call[c].pc = "status2"
    /\ \/ Arrived(c) /\ Return(c, Head(K(c).down).v)
       \/ Ended(c) /\ Return(c, -1)
    /\ UNCHANGED <<server, handle, calls, failures, ghost>>

\* The structure of xpn_stat, xpn_opendir and xpn_readdir.  xpn_opendir may find no memory
\* for its DIR, and then leaves the connection open.
get_struct(c) ==
    /\ call[c].pc = "more"
    /\ \/ /\ Arrived(c) /\ Return(c, Head(K(c).down).v)
          /\ UNCHANGED <<failures, ghost>>
       \/ /\ Ended(c) /\ Return(c, -1)
          /\ UNCHANGED <<failures, ghost>>
       \/ /\ Arrived(c) /\ call[c].req.type = "OPENDIR" /\ failures < MaxFailures
          /\ failures' = failures + 1
          /\ ghost' = [ghost EXCEPT !.lost = @ \cup {Head(K(c).down).v}]
          /\ call' = [call EXCEPT ![c] = Idle]
          /\ UNCHANGED <<conn, held>>
    /\ UNCHANGED <<server, handle, calls>>

\* The process of the client ends, maybe before it sent the request, or of SIGPIPE when it
\* writes to a connection that the proxy has closed.
DiesConnected(c) ==
    /\ call[c].pc = "connect" /\ Running /\ failures < MaxFailures
    /\ call' = [call EXCEPT ![c] = [Idle EXCEPT !.pc = "dead"]]
    /\ held' = [held EXCEPT ![c] = {}]
    /\ \E i \in Conns :
         /\ conn[i] = Free /\ \A j \in Conns : j < i => conn[j] # Free
         /\ conn' = [conn EXCEPT ![i] = [Free EXCEPT !.client = c, !.sv = TRUE]]
         /\ backlog' = Append(backlog, i)
    /\ failures' = failures + 1
    /\ UNCHANGED <<client_q, main, worker, do_exit, handle, calls, ghost>>
Dies(c) ==
    /\ call[c].pc # "dead" /\ failures < MaxFailures
    /\ call' = [call EXCEPT ![c] = [Idle EXCEPT !.pc = "dead"]]
    /\ held' = [held EXCEPT ![c] = {}]
    /\ conn' = [i \in Conns |-> IF conn[i].client = c THEN HalfClosed(conn[i], "cl") ELSE conn[i]]
    /\ failures' = failures + 1
    /\ UNCHANGED <<server, handle, calls, ghost>>

-----------------------------------------------------------------------------
(* The main thread of the proxy. *)

mainly == <<call, held, worker, handle, calls, failures>>
TheEnd(how) ==
    /\ main' = how
    /\ conn' = [i \in Conns |-> HalfClosed(conn[i], "sv")]
    /\ backlog' = <<>> /\ client_q' = <<>>
    /\ handle' = [h \in Handles |-> Nobody]

\* while (do_exit == 0)
main_test ==
    /\ main = "test"
    /\ main' = IF do_exit THEN "notify" ELSE "accept"
    /\ UNCHANGED <<mainly, conn, backlog, client_q, do_exit, ghost>>

\* accept and the queue, under queue_mutex: one of the workers that wait is woken.
MutexFree == \A w \in Workers : worker[w].pc # "towait"
Woken(S) == [w \in Workers |-> IF w \in S THEN AtLoop ELSE worker[w]]
Waiting == {w \in Workers : worker[w].pc = "waiting"}
cond_signal == IF Waiting = {} THEN worker' = worker ELSE \E w \in Waiting : worker' = Woken({w})
no_signal == worker' = worker
wakes == cond_signal
main_accept ==
    /\ main = "accept" /\ backlog # <<>> /\ MutexFree
    /\ \/ /\ client_q' = Append(client_q, Head(backlog))
          /\ wakes
          /\ UNCHANGED <<conn, failures>>
       \/ /\ failures < MaxFailures /\ failures' = failures + 1      \* malloc
          /\ conn' = [conn EXCEPT ![Head(backlog)] = HalfClosed(@, "sv")]
          /\ UNCHANGED <<client_q, worker>>
    /\ backlog' = Tail(backlog) /\ main' = "test"
    /\ UNCHANGED <<call, held, do_exit, handle, calls, ghost>>

\* After the loop.
cond_broadcast == worker' = Woken(Waiting)
main_notify ==
    /\ main = "notify" /\ MutexFree
    /\ cond_broadcast /\ main' = "join"
    /\ UNCHANGED <<call, held, conn, backlog, client_q, do_exit, handle, calls, failures, ghost>>
main_join ==
    /\ main = "join" /\ \A w \in Workers : worker[w].pc = "exited"
    /\ TheEnd("ended")
    /\ UNCHANGED <<call, held, worker, do_exit, calls, failures, ghost>>

\* SIGINT, once, taken by the main thread: it ends an accept that waits, but not one that
\* main has yet to enter.
sigHandler ==
    /\ Running /\ ~do_exit /\ failures < MaxFailures
    /\ do_exit' = TRUE /\ failures' = failures + 1
    /\ worker' = Woken(Waiting)
    /\ \/ main = "accept" /\ backlog = <<>> /\ main' = "test" /\ UNCHANGED ghost
       \/ main' = main /\ ghost' = [ghost EXCEPT !.missed = main = "accept"]
    /\ UNCHANGED <<call, held, conn, backlog, client_q, handle, calls>>

-----------------------------------------------------------------------------
(* worker_thread and handle_petition. *)

At(w, pc) == Running /\ worker[w].pc = pc
C(w) == conn[worker[w].conn]
workerly == <<call, held, backlog, main, do_exit, calls>>

\* read_n_bytes of the proxy.
Came(k) == k.up # <<>>
Gone(k) == ~k.cl /\ k.up = <<>>

\* A worker takes a connection off the queue and reads the request, which the client sends
\* with the connection, or finds that the client is gone.
read_request(w, i) ==
    \/ /\ Came(conn[i])
       /\ worker' = [worker EXCEPT ![w] = [pc |-> "serve", conn |-> i, req |-> Head(conn[i].up),
                                          ret |-> Head(conn[i].up).tails]]
       /\ conn' = [conn EXCEPT ![i].up = Tail(@)]
    \/ /\ Gone(conn[i])
       /\ conn' = [conn EXCEPT ![i] = HalfClosed(@, "sv")]
       /\ UNCHANGED worker
worker_lock(w) ==
    /\ At(w, "lock") /\ MutexFree
    /\ IF do_exit THEN worker' = [worker EXCEPT ![w].pc = "exited"] /\ UNCHANGED <<client_q, conn>>
       ELSE IF client_q = <<>> THEN worker' = [worker EXCEPT ![w].pc = "towait"] /\ UNCHANGED <<client_q, conn>>
       ELSE client_q' = Tail(client_q) /\ read_request(w, Head(client_q))
    /\ UNCHANGED <<workerly, handle, failures, ghost>>
worker_wait(w) ==
    /\ At(w, "towait")
    /\ worker' = [worker EXCEPT ![w].pc = "waiting"]
    /\ UNCHANGED <<workerly, client_q, conn, handle, failures, ghost>>

\* xpn_proxy_server_read_fullpath.  Nobody looks at its result: without a tail the call is
\* made with an empty path.  worker.ret counts the tails to come.
xpn_proxy_server_read_fullpath(w) ==
    /\ At(w, "serve") /\ worker[w].ret > 0
    /\ worker' = [worker EXCEPT ![w].ret = @ - 1]
    /\ \/ Came(C(w)) /\ conn' = [conn EXCEPT ![worker[w].conn].up = Tail(@)]
       \/ Gone(C(w)) /\ UNCHANGED conn
    /\ UNCHANGED <<workerly, client_q, handle, failures, ghost>>

Serves(w, type) == At(w, "serve") /\ worker[w].ret = 0 /\ worker[w].req.type = type

\* write_n_bytes, and after the last one the end of worker_thread's turn, which closes the
\* connection.  To a connection the client has left it may raise SIGPIPE, which ends the
\* proxy.  "ran" records the results of the API for the request.
Item(k, v) == [k |-> k, v |-> v]
Send(w, item, ran, next, ret) ==
    LET k == [C(w) EXCEPT !.down = Append(@, item), !.ran = @ \o ran]
    IN  /\ conn' = [conn EXCEPT ![worker[w].conn] = IF next = "close" THEN HalfClosed(k, "sv") ELSE k]
        /\ worker' = [worker EXCEPT ![w] = IF next = "close" THEN AtLoop ELSE [@ EXCEPT !.pc = next, !.ret = ret]]
SIGPIPE(w) ==
    /\ Running /\ worker[w].pc \in {"serve", "more", "answer"} /\ ~C(w).cl
    /\ worker[w].pc = "serve" => worker[w].ret = 0
    /\ TheEnd("crashed")
    /\ UNCHANGED <<call, held, worker, do_exit, calls, failures, ghost>>

Status(w, v, next) == Send(w, Item("status", v), <<v>>, next, v)
servely == <<workerly, client_q>>

\* A call of the API that gives a handle of the proxy, the first that is free, or -1.
FreeHandles(H) == {h \in H : handle[h] = Nobody /\ \A g \in H : g < h => handle[g] # Nobody}
OpenHandle(w, next) ==
    \/ /\ \E h \in FreeHandles(FileHandles) :
            /\ handle' = [handle EXCEPT ![h] = C(w).client]
            /\ Status(w, h, next)
       /\ UNCHANGED ghost
    \/ Status(w, -1, next) /\ UNCHANGED <<handle, ghost>>
\* A call of the API that gives a handle back.
DropHandle(w) ==
    /\ handle' = [handle EXCEPT ![worker[w].req.h] = Nobody]
    /\ Status(w, IF handle[worker[w].req.h] = Nobody THEN -1 ELSE 0, "close")
KeepHandle(w) == Status(w, 0, "close") /\ UNCHANGED handle
\* Any other call: 0 or -1.
Answer(w, next) == \E v \in {0, -1} : Status(w, v, IF v = 0 THEN next ELSE "close")

serve_open(w) == Serves(w, "OPEN") /\ OpenHandle(w, "close") /\ UNCHANGED <<servely, failures>>
serve_creat(w) == Serves(w, "CREAT") /\ OpenHandle(w, "close") /\ UNCHANGED <<servely, failures>>
serve_close_kept(w) == Serves(w, "CLOSE") /\ KeepHandle(w) /\ UNCHANGED <<servely, failures, ghost>>
serve_close(w) == Serves(w, "CLOSE") /\ DropHandle(w) /\ UNCHANGED <<servely, failures, ghost>>
serve_closedir(w) == Serves(w, "CLOSEDIR") /\ DropHandle(w) /\ UNCHANGED <<servely, failures, ghost>>
serve_rm(w) == Serves(w, "RM") /\ Answer(w, "close") /\ UNCHANGED <<servely, handle, failures, ghost>>
serve_rename(w) == Serves(w, "RENAME") /\ Answer(w, "close") /\ UNCHANGED <<servely, handle, failures, ghost>>
serve_mkdir(w) == Serves(w, "MKDIR") /\ Answer(w, "close") /\ UNCHANGED <<servely, handle, failures, ghost>>
serve_rmdir(w) == Serves(w, "RMDIR") /\ Answer(w, "close") /\ UNCHANGED <<servely, handle, failures, ghost>>
serve_stat(w) == Serves(w, "GETATTR") /\ Answer(w, "more") /\ UNCHANGED <<servely, handle, failures, ghost>>
serve_readdir(w) == Serves(w, "READDIR") /\ Answer(w, "more") /\ UNCHANGED <<servely, handle, failures, ghost>>

\* READ and WRITE allocate a buffer first.
NoBuffer(w) ==
    /\ Serves(w, "READ") \/ Serves(w, "WRITE")
    /\ failures < MaxFailures /\ failures' = failures + 1
    /\ Send(w, Item("status", -1), <<>>, "close", -1)
    /\ UNCHANGED <<servely, handle, ghost>>
serve_read(w) ==
    /\ Serves(w, "READ")
    /\ \E v \in {-1, 0, 1} : Status(w, v, IF v > 0 THEN "more" ELSE "close")
    /\ UNCHANGED <<servely, handle, failures, ghost>>
serve_write(w) ==
    /\ Serves(w, "WRITE") /\ Send(w, Item("status", 0), <<>>, "body", 0)
    /\ UNCHANGED <<servely, handle, failures, ghost>>
write_body(w) ==
    /\ At(w, "body")
    /\ \/ /\ Came(C(w))
          /\ \E v \in {-1, 1} :
               /\ worker' = [worker EXCEPT ![w].pc = "answer", ![w].ret = v]
               /\ conn' = [conn EXCEPT ![worker[w].conn].up = Tail(@), ![worker[w].conn].ran = Append(@, v)]
       \/ /\ Gone(C(w))
          /\ worker' = [worker EXCEPT ![w].pc = "answer", ![w].ret = -1]
          /\ UNCHANGED conn
    /\ UNCHANGED <<servely, handle, failures, ghost>>
answer_received(w) ==
    /\ At(w, "answer") /\ Send(w, Item("status", 1), <<>>, "close", 0)
    /\ UNCHANGED <<servely, handle, failures, ghost>>
write_answer(w) ==
    /\ At(w, "answer") /\ Send(w, Item("status", worker[w].ret), <<>>, "close", 0)
    /\ UNCHANGED <<servely, handle, failures, ghost>>

\* OPENDIR sends the status 0 in any case, and then uses the DIR it may not have.
serve_opendir(w) ==
    /\ Serves(w, "OPENDIR")
    /\ \/ /\ \E h \in FreeHandles(DirHandles) :
               /\ handle' = [handle EXCEPT ![h] = C(w).client]
               /\ Send(w, Item("status", 0), <<h>>, "more", h)
          /\ UNCHANGED <<main, backlog, client_q, ghost>>
       \/ /\ ghost' = [ghost EXCEPT !.null = TRUE]
          /\ TheEnd("crashed") /\ UNCHANGED worker
    /\ UNCHANGED <<call, held, do_exit, calls, failures>>

\* The data of READ, or the structure of GETATTR, READDIR or OPENDIR.
send_more(w) ==
    /\ At(w, "more") /\ Send(w, Item("more", worker[w].ret), <<>>, "close", 0)
    /\ UNCHANGED <<servely, handle, failures, ghost>>

-----------------------------------------------------------------------------
Calls(c) == \/ xpn_open(c) \/ xpn_creat(c) \/ xpn_unlink(c) \/ xpn_stat(c) \/ xpn_mkdir(c) \/ xpn_rmdir(c)
            \/ xpn_opendir(c) \/ xpn_rename(c) \/ xpn_read(c) \/ xpn_write(c) \/ xpn_readdir(c)
            \/ xpn_close(c) \/ xpn_closedir(c)
ClientStep(c) == \/ d_connect(c) \/ d_send(c) \/ d_receive(c) \/ read_data(c) \/ write_data(c)
                 \/ write_status(c) \/ get_struct(c)
MainStep == \/ main_test \/ main_accept \/ main_notify \/ main_join
handle_petition(w) ==
    \/ xpn_proxy_server_read_fullpath(w)
    \/ serve_open(w) \/ serve_creat(w) \/ serve_close(w) \/ serve_closedir(w) \/ serve_rm(w)
    \/ serve_rename(w) \/ serve_mkdir(w) \/ serve_rmdir(w) \/ serve_stat(w) \/ serve_readdir(w)
    \/ NoBuffer(w) \/ serve_read(w) \/ serve_write(w) \/ write_body(w) \/ write_answer(w)
    \/ serve_opendir(w) \/ send_more(w) \/ SIGPIPE(w)
WorkerStep(w) == worker_lock(w) \/ worker_wait(w) \/ handle_petition(w)

Next == \/ \E c \in Clients : Calls(c) \/ ClientStep(c) \/ Dies(c) \/ DiesConnected(c)
        \/ MainStep \/ sigHandler
        \/ \E w \in Workers : WorkerStep(w)

\* Threads of the proxy and clients in a call go on; nobody has to call, die or signal.
Spec == /\ Init /\ [][Next]_vars
        /\ WF_vars(MainStep)
        /\ \A w \in Workers : SF_vars(worker_lock(w)) /\ WF_vars(WorkerStep(w))
        /\ \A c \in Clients : WF_vars(ClientStep(c))

-----------------------------------------------------------------------------
Crashed == main = "crashed"

\* The result a call returns is what the API answered to its request in the proxy, made
\* once; -1 also stands for a proxy that is not there and, of xpn_read, for the end of the
\* file (read_n_bytes refuses to read 0 bytes).
ToldTheTruth ==
    \A c \in Clients : call[c].told

\* While the proxy runs, each open handle is held by the client it was opened for, or the
\* client is in a call, unless the client has died or had no memory for its DIR; and no
\* client holds a handle that is not its own.
HandlesAccountedFor ==
    Running =>
        /\ \A h \in Handles : handle[h] # Nobody /\ h \notin ghost.lost =>
             \/ h \in held[handle[h]]
             \/ call[handle[h]].pc # "done"
        /\ \A c \in Clients : \A h \in held[c] : call[c].pc = "done" => handle[h] = c

\* Only a client that died, or an opendir that failed, takes the proxy down.
CrashHasCause == Crashed => ghost.null \/ \E c \in Clients : call[c].pc = "dead"

\* The only things that cost the others something are the death of a client and an
\* opendir that fails.
DamageHasCause == HandlesAccountedFor /\ CrashHasCause

\* A call returns, if the signal does not fall between the test of do_exit and accept.
CallsReturn ==
    \A c \in Clients : call[c].pc \notin {"done", "dead"} ~> call[c].pc \in {"done", "dead"} \/ ghost.missed

\* SIGINT ends the proxy, with the same exception.
StopEnds == do_exit ~> ~Running \/ ghost.missed

\* Calls return and the proxy ends when it is told to.
ProxyGoesOn == CallsReturn /\ StopEnds

=============================================================================
