----------------------------- MODULE ProxyProofs -----------------------------
(***************************************************************************)
(* Proofs about the proxy, for any number of clients, workers, connections *)
(* and handles: a call returns what the API answered to its own request,   *)
(* handles stay with the clients they were opened for, and what takes the  *)
(* proxy down is a client that died or an opendir that failed.             *)
(***************************************************************************)
EXTENDS Proxy, SequenceTheorems, TLAPS

-----------------------------------------------------------------------------
(* Types *)

Types == UNION {Makes[c] : c \in Clients}
Requests == [type : Types, h : Handles \cup {0}, tails : 0..2]
Items == [k : {"status", "more"}, v : Int]

First == {"tails", "status"}
Busy == First \cup {"data", "send", "status2", "more"}
Serving == {"serve", "body", "answer", "more"}

CallRecs == [pc : Busy \cup {"done", "connect", "dead"}, conn : Conns \cup {NoConn},
             req : Requests \cup {<<>>}, ret : Int, told : BOOLEAN]
ConnRecs == [client : Clients \cup {Nobody}, up : Seq(Requests \cup {"tail", "data"}), down : Seq(Items),
             cl : BOOLEAN, sv : BOOLEAN, ran : Seq(Int)]
WorkerRecs == [pc : Serving \cup {"lock", "towait", "waiting", "exited"}, conn : Conns \cup {NoConn},
               req : Requests \cup {<<>>}, ret : Int]

ProxyType ==
    /\ call \in [Clients -> CallRecs] /\ held \in [Clients -> SUBSET Handles]
    /\ conn \in [Conns -> ConnRecs]
    /\ backlog \in Seq(Conns) /\ client_q \in Seq(Conns)
    /\ main \in {"test", "accept", "notify", "join", "ended", "crashed"}
    /\ worker \in [Workers -> WorkerRecs]
    /\ handle \in [Handles -> Clients \cup {Nobody}]
    /\ do_exit \in BOOLEAN /\ calls \in Nat /\ failures \in Nat
    /\ ghost \in [missed : BOOLEAN, lost : SUBSET Int, null : BOOLEAN]

-----------------------------------------------------------------------------
(* One connection, seen from the records of its two ends.  a is the call  *)
(* of a client, b the place of a worker, k the connection.                *)

\* v may be returned for a: it is what the API answered, or stands for a failed allocation.
Truth(a, k, v) == k.ran = <<v>> \/ (v = -1 /\ a.req.type \in {"READ", "WRITE"})

\* The connection of a call, and what is on its way to the client.
Talk(c, a, k) ==
    /\ k.cl = TRUE /\ k.client = c
    /\ a.pc = "data" => a.req.type = "READ" /\ Truth(a, k, a.ret)
    /\ a.pc \in {"send", "status2"} => a.req.type = "WRITE"
    /\ a.pc = "more" => a.req.type \in {"GETATTR", "OPENDIR", "READDIR"}
    /\ \A n \in DOMAIN k.down :
         IF n = 1 /\ a.pc \in First /\ a.req.type \in {"WRITE", "OPENDIR"}
         THEN k.down[n].v = 0 \/ (a.req.type = "WRITE" /\ k.down[n].v = -1)
         ELSE a.pc # "data" => Truth(a, k, k.down[n].v)
    /\ a.req.type \in Closes => k.ran \in {<<>>, << 0 >>}
    /\ a.req.type \in Opens => k.ran = <<>> \/ \E h \in Handles \cup {-1} : k.ran = <<h>>

\* While the proxy runs, no answer about a handle is lost.
Answers(a, k) ==
    ~k.sv /\ k.ran # <<>> =>
      /\ a.req.type \in (Opens \cup Closes) => k.down # <<>>
      /\ a.req.type = "OPENDIR" /\ a.pc \in First => Len(k.down) > 1

\* A request nobody has carried out.
Fresh(k, a, r, hd) ==
    /\ k.down = <<>> /\ k.ran = <<>>
    /\ r \in Requests
    /\ a.pc # "dead" => a.pc \in First /\ r = a.req
    /\ r.type \in Closes => r.h \in Handles /\ hd[r.h] = k.client

\* A request in the hands of a worker.
Turn(b, k, a, hd) ==
    /\ b.pc = "serve" => Fresh(k, a, b.req, hd) /\ b.ret \in Nat
    /\ b.pc # "serve" => b.req \in Requests /\ (a.pc # "dead" => b.req = a.req)
    /\ b.pc \in {"body", "answer"} =>
         /\ b.req.type = "WRITE"
         /\ b.pc = "body" => k.ran = <<>>
         /\ b.pc = "answer" => k.ran = <<b.ret>> \/ b.ret = -1
         /\ a.pc # "dead" => \/ a.pc \in First /\ Len(k.down) = 1
                             \/ a.pc \in {"send", "status2"} /\ k.down = <<>>
    /\ b.pc = "more" =>
         /\ b.req.type \in {"READ", "GETATTR", "READDIR", "OPENDIR"} /\ k.ran = <<b.ret>>
         /\ a.pc # "dead" => \/ a.pc \in First /\ Len(k.down) = 1
                                /\ k.down[1].v = IF b.req.type = "READ" THEN 1 ELSE 0
                             \/ a.pc \in {"data", "more"} /\ k.down = <<>>

-----------------------------------------------------------------------------
(* The whole *)

CallOk(c) ==
    /\ call[c].pc \in Busy \cup {"connect"} =>
         call[c].req \in Requests /\ (call[c].req.type \in Closes => call[c].req.h \in held[c])
    /\ call[c].pc \in Busy =>
         /\ call[c].conn \in Conns
         /\ Talk(c, call[c], K(c))
         /\ Running => Answers(call[c], K(c))
    /\ call[c].pc = "dead" => held[c] = {}
    /\ call[c].told = TRUE

\* The proxy serves the call a client is in, or that it died in.
ConnOk(i) ==
    conn[i].sv = TRUE =>
      /\ Running /\ conn[i].client \in Clients
      /\ LET a == call[conn[i].client] IN a.pc = "dead" \/ (a.pc \in Busy /\ a.conn = i)
      /\ \A j \in Conns : conn[j].sv = TRUE /\ conn[j].client = conn[i].client => j = i

QueuedOk(i) ==
    /\ conn[i].sv = TRUE /\ conn[i].down = <<>> /\ conn[i].ran = <<>>
    /\ conn[i].cl = TRUE => conn[i].up # <<>>
    /\ conn[i].up # <<>> => Fresh(conn[i], call[conn[i].client], Head(conn[i].up), handle)

WorkerOk(w) ==
    Running /\ worker[w].pc \in Serving =>
      /\ worker[w].conn \in Conns /\ C(w).sv = TRUE
      /\ Turn(worker[w], C(w), call[C(w).client], handle)

Queued(i) == (\E m \in DOMAIN backlog : backlog[m] = i) \/ \E m \in DOMAIN client_q : client_q[m] = i
ServedBy(w, i) == Running /\ worker[w].pc \in Serving /\ worker[w].conn = i

\* A connection is in one place of the proxy.
PlacesOk ==
    /\ \A m, n \in DOMAIN backlog : backlog[m] = backlog[n] => m = n
    /\ \A m, n \in DOMAIN client_q : client_q[m] = client_q[n] => m = n
    /\ \A m \in DOMAIN backlog, n \in DOMAIN client_q : backlog[m] # client_q[n]
    /\ \A w \in Workers, i \in Conns : ServedBy(w, i) =>
         ~Queued(i) /\ \A v \in Workers : ServedBy(v, i) => v = w
    /\ \A i \in Conns : conn[i].sv = TRUE => Queued(i) \/ \E w \in Workers : ServedBy(w, i)

\* Where the handles are.
Closed(c, h) ==
    call[c].pc \in Busy /\ call[c].req.type \in Closes /\ call[c].req.h = h /\ K(c).ran # <<>>
Gets(c, h) == call[c].pc \in Busy /\ call[c].req.type \in Opens /\ K(c).ran = <<h>>
OwnsOk(c) ==
    Running /\ call[c].pc # "dead" => \A h \in Handles :
      /\ handle[h] = c /\ h \notin ghost.lost => (h \in held[c] /\ ~Closed(c, h)) \/ Gets(c, h)
      /\ h \in held[c] => handle[h] = c \/ Closed(c, h)
      /\ Gets(c, h) => handle[h] = c

ProxyInv ==
    /\ ProxyType /\ PlacesOk /\ CrashHasCause
    /\ \A c \in Clients : CallOk(c) /\ OwnsOk(c)
    /\ \A i \in Conns : ConnOk(i) /\ (Queued(i) => QueuedOk(i))
    /\ \A w \in Workers : WorkerOk(w)

-----------------------------------------------------------------------------
(* The records *)

LEMMA HandlesAre == Handles = 1..(MaxFiles + MaxDirs) /\ Handles \subseteq Nat \ {0}
  BY ProxyAssumption DEF Handles, FileHandles, DirHandles

LEMMA FreeIsConn == Free \in ConnRecs /\ Free.sv = FALSE /\ Free.cl = FALSE /\ Free.client = Nobody
                    /\ Free.up = <<>> /\ Free.down = <<>> /\ Free.ran = <<>>
  <1>1. /\ <<>> \in Seq(Requests \cup {"tail", "data"}) /\ <<>> \in Seq(Items) /\ <<>> \in Seq(Int)
    OBVIOUS
  <1> QED
    BY <1>1 DEF Free, ConnRecs

LEMMA IdleIsCall == Idle \in CallRecs /\ Idle.pc = "done" /\ Idle.told = TRUE
  BY DEF Idle, CallRecs

LEMMA LoopIsWorker == AtLoop \in WorkerRecs /\ AtLoop.pc = "lock" /\ AtLoop.conn = NoConn
  BY DEF AtLoop, WorkerRecs

\* What is left of a connection when one end is closed.
LEMMA ServerEndClosed ==
    ASSUME NEW k \in ConnRecs, NEW d, d = HalfClosed(k, "sv")
    PROVE  /\ d \in ConnRecs /\ d.sv = FALSE
           /\ k.cl = TRUE => /\ d.cl = TRUE /\ d.client = k.client /\ d.up = k.up /\ d.down = k.down
                             /\ d.ran = k.ran
           /\ k.cl # TRUE => d = Free
  <1>1. PICK e : e = [k EXCEPT !["sv"] = FALSE]
    OBVIOUS
  <1>2. e = [client |-> k.client, up |-> k.up, down |-> k.down, cl |-> k.cl, sv |-> FALSE, ran |-> k.ran]
    BY <1>1 DEF ConnRecs
  <1>3. e \in ConnRecs
    BY <1>2 DEF ConnRecs
  <1>4. d = IF k.cl = TRUE THEN e ELSE Free
    BY <1>1, <1>2 DEF HalfClosed, ConnRecs
  <1> QED
    BY ONLY <1>2, <1>3, <1>4, FreeIsConn

LEMMA ClientEndClosed ==
    ASSUME NEW k \in ConnRecs, NEW d, d = HalfClosed(k, "cl")
    PROVE  /\ d \in ConnRecs /\ d.cl = FALSE
           /\ k.sv = TRUE => /\ d.sv = TRUE /\ d.client = k.client /\ d.up = k.up /\ d.down = k.down
                             /\ d.ran = k.ran
           /\ k.sv # TRUE => d = Free
  <1>1. PICK e : e = [k EXCEPT !["cl"] = FALSE]
    OBVIOUS
  <1>2. e = [client |-> k.client, up |-> k.up, down |-> k.down, cl |-> FALSE, sv |-> k.sv, ran |-> k.ran]
    BY <1>1 DEF ConnRecs
  <1>3. e \in ConnRecs
    BY <1>2 DEF ConnRecs
  <1>4. d = IF k.sv = TRUE THEN e ELSE Free
    BY <1>1, <1>2 DEF HalfClosed, ConnRecs
  <1> QED
    BY ONLY <1>2, <1>3, <1>4, FreeIsConn

-----------------------------------------------------------------------------
(* A step that changes the call of c and the connection i, which is c's,  *)
(* or no connection; what the proxy has closed of c may go as well.       *)

Frame(c, i) ==
    /\ \A d \in Clients \ {c} : call'[d] = call[d] /\ held'[d] = held[d]
    /\ \A j \in Conns \ {i} : \/ conn'[j] = conn[j]
                              \/ conn[j].client = c /\ conn[j].sv # TRUE /\ conn'[j].sv # TRUE
    /\ \A h \in Handles, d \in Clients \ {c} : handle'[h] = d <=> handle[h] = d
    /\ ghost.lost \subseteq ghost'.lost /\ (Running' <=> Running)
    /\ i \in Conns => conn[i].client \in {c, Nobody} /\ (conn'[i].sv = TRUE => conn'[i].client = c)
    /\ \A j \in Conns \ {i} : conn[j].sv = TRUE => conn[j].client # c

\* The proxy serves one connection of a client.
LEMMA OneServed ==
    ASSUME ProxyInv, NEW c \in Clients, NEW i \in Conns,
           conn[i].sv = TRUE \/ (call[c].pc \in Busy /\ call[c].conn = i), conn[i].client = c
    PROVE  \A j \in Conns \ {i} : conn[j].sv = TRUE => conn[j].client # c
  <1> SUFFICES ASSUME NEW j \in Conns, j # i, conn[j].sv = TRUE, conn[j].client = c PROVE FALSE
    OBVIOUS
  <1>1. ConnOk(j)
    BY DEF ProxyInv
  <1>2. CASE conn[i].sv = TRUE
    BY <1>1, <1>2 DEF ConnOk
  <1>3. CASE call[c].pc \in Busy /\ call[c].conn = i
    BY <1>1, <1>3 DEF ConnOk, Busy, First
  <1> QED
    BY <1>2, <1>3

LEMMA FrameKeeps ==
    ASSUME ProxyInv, NEW c \in Clients, NEW i, Frame(c, i)
    PROVE  /\ \A d \in Clients \ {c} : CallOk(d)' /\ OwnsOk(d)'
           /\ \A j \in Conns \ {i} : ConnOk(j)' /\ (Queued(j) => QueuedOk(j)')
           /\ \A w \in Workers :
                worker'[w] = worker[w] /\ (worker[w].conn # i \/ worker[w].pc \notin Serving) => WorkerOk(w)'
  <1>1. ASSUME NEW d \in Clients, d # c PROVE CallOk(d)' /\ OwnsOk(d)'
    <2>1. /\ call'[d] = call[d] /\ held'[d] = held[d] /\ CallOk(d) /\ OwnsOk(d) /\ (Running' <=> Running)
          /\ \A h \in Handles : handle'[h] = d <=> handle[h] = d
          /\ ghost.lost \subseteq ghost'.lost
      BY <1>1 DEF Frame, ProxyInv
    <2>2. call[d].pc \in Busy => conn'[call[d].conn] = conn[call[d].conn]
      <3>1. call[d].pc \in Busy => call[d].conn \in Conns /\ conn[call[d].conn].client = d
        BY <2>1 DEF CallOk, Talk, K
      <3>2. d # Nobody
        BY ProxyAssumption
      <3> QED
        BY <1>1, <3>1, <3>2 DEF Frame
    <2>3. CallOk(d)'
      BY ONLY <2>1, <2>2 DEF CallOk, K
    <2>4. OwnsOk(d)'
      BY ONLY <2>1, <2>2 DEF OwnsOk, Closed, Gets, K
    <2> QED
      BY <2>3, <2>4
  <1>2. ASSUME NEW j \in Conns, j # i, conn[j].sv = TRUE
        PROVE  /\ conn'[j] = conn[j] /\ conn[j].client \in Clients \ {c}
               /\ call'[conn[j].client] = call[conn[j].client]
               /\ \A h \in Handles : handle[h] = conn[j].client => handle'[h] = conn[j].client
    <2>1. conn[j].client \in Clients /\ conn[j].client # c
      BY <1>2 DEF ProxyInv, ConnOk, Frame
    <2> QED
      BY <1>2, <2>1 DEF Frame
  <1>3. ASSUME NEW j \in Conns, j # i PROVE ConnOk(j)'
    <2> SUFFICES ASSUME conn'[j].sv = TRUE PROVE ConnOk(j)'
      BY DEF ConnOk
    <2>1. conn'[j] = conn[j] /\ (Running' <=> Running) /\ ConnOk(j) /\ conn[j].sv = TRUE
      BY <1>3 DEF Frame, ProxyInv
    <2>2. /\ conn[j].client \in Clients \ {c} /\ call'[conn[j].client] = call[conn[j].client]
      BY <1>2, <1>3, <2>1
    <2>3. ASSUME NEW m \in Conns, conn'[m].sv = TRUE, conn'[m].client = conn'[j].client PROVE m = j
      <3>1. m # i
        BY <2>1, <2>2, <2>3 DEF Frame
      <3>2. conn'[m] = conn[m]
        BY <2>3, <3>1 DEF Frame
      <3> QED
        BY <2>1, <2>3, <3>2 DEF ConnOk
    <2> QED
      BY ONLY <2>1, <2>2, <2>3 DEF ConnOk
  <1>4. ASSUME NEW j \in Conns, j # i, Queued(j) PROVE QueuedOk(j)'
    <2>1. QueuedOk(j) /\ conn[j].sv = TRUE
      BY <1>4 DEF ProxyInv, QueuedOk
    <2>2. /\ conn'[j] = conn[j] /\ call'[conn[j].client] = call[conn[j].client]
          /\ \A h \in Handles : handle[h] = conn[j].client => handle'[h] = conn[j].client
          /\ conn[j].client \in Clients
      BY <1>2, <1>4, <2>1
    <2>3. ASSUME NEW r, Fresh(conn[j], call[conn[j].client], r, handle)
          PROVE  Fresh(conn'[j], call'[conn'[j].client], r, handle')
      BY <2>2, <2>3 DEF Fresh
    <2> QED
      BY <2>1, <2>2, <2>3 DEF QueuedOk
  <1>5. ASSUME NEW w \in Workers, worker'[w] = worker[w], worker[w].conn # i \/ worker[w].pc \notin Serving
        PROVE  WorkerOk(w)'
    <2> SUFFICES ASSUME Running, worker[w].pc \in Serving
                 PROVE  /\ worker[w].conn \in Conns /\ C(w)'.sv = TRUE
                        /\ Turn(worker[w], C(w)', call'[C(w)'.client], handle')
      BY <1>5 DEF WorkerOk, Frame
    <2>1. PICK j \in Conns : j = worker[w].conn /\ j # i /\ conn[j].sv = TRUE
      BY <1>5 DEF ProxyInv, WorkerOk, C
    <2>2. Turn(worker[w], conn[j], call[conn[j].client], handle)
      BY <2>1 DEF ProxyInv, WorkerOk, C
    <2>3. /\ conn'[j] = conn[j] /\ call'[conn[j].client] = call[conn[j].client]
          /\ \A h \in Handles : handle[h] = conn[j].client => handle'[h] = conn[j].client
      BY <1>2, <2>1
    <2>4. C(w)' = conn'[j]
      BY <1>5, <2>1 DEF C
    <2>5. Turn(worker[w], conn[j], call[conn[j].client], handle')
      BY ONLY <2>2, <2>3 DEF Turn, Fresh
    <2> QED
      BY <2>1, <2>3, <2>4, <2>5
  <1> QED
    BY <1>1, <1>3, <1>4, <1>5
-----------------------------------------------------------------------------
(* The client *)

\* c is in a call: its connection is its own.
LEMMA InCall ==
    ASSUME ProxyInv, NEW c \in Clients, call[c].pc \in Busy
    PROVE  /\ call[c].conn \in Conns /\ call[c] \in CallRecs /\ K(c) \in ConnRecs
           /\ K(c) = conn[call[c].conn] /\ K(c).client = c /\ K(c).cl = TRUE
           /\ call[c].req \in Requests /\ Talk(c, call[c], K(c)) /\ (Running => Answers(call[c], K(c)))
           /\ call[c].req.type \in Closes => call[c].req.h \in held[c]
           /\ \A j \in Conns \ {call[c].conn} : conn[j].sv = TRUE => conn[j].client # c
  <1>1. /\ call[c].conn \in Conns /\ call[c].req \in Requests /\ Talk(c, call[c], K(c))
        /\ (Running => Answers(call[c], K(c)))
        /\ call[c].req.type \in Closes => call[c].req.h \in held[c]
    BY DEF ProxyInv, CallOk
  <1>2. K(c).client = c /\ K(c).cl = TRUE /\ K(c) = conn[call[c].conn]
    BY <1>1 DEF Talk, K
  <1>3. call[c] \in CallRecs /\ conn[call[c].conn] \in ConnRecs
    BY <1>1 DEF ProxyInv, ProxyType
  <1>4. \A j \in Conns \ {call[c].conn} : conn[j].sv = TRUE => conn[j].client # c
    BY <1>1, <1>2, OneServed
  <1> QED
    BY <1>1, <1>2, <1>3, <1>4

\* Queues and workers that stay where they are.
LEMMA PlacesStay ==
    ASSUME ProxyInv, backlog' = backlog, client_q' = client_q, Running' <=> Running,
           \A i \in Conns : conn'[i].sv = TRUE => conn[i].sv = TRUE,
           \A w \in Workers :
             /\ worker'[w].pc \in Serving => worker[w].pc \in Serving /\ worker'[w].conn = worker[w].conn
             /\ worker[w].pc \in Serving /\ conn'[worker[w].conn].sv = TRUE => worker'[w].pc \in Serving
    PROVE  PlacesOk' /\ \A i \in Conns : Queued(i)' <=> Queued(i)
  <1>1. \A i : Queued(i)' <=> Queued(i)
    BY DEF Queued
  <1>2. \A w \in Workers, i \in Conns : ServedBy(w, i)' => ServedBy(w, i)
    BY DEF ServedBy
  <1>3. PlacesOk
    BY DEF ProxyInv
  <1>4. ASSUME NEW i \in Conns, conn'[i].sv = TRUE PROVE Queued(i)' \/ \E w \in Workers : ServedBy(w, i)'
    <2>1. \A w \in Workers : ServedBy(w, i) => ServedBy(w, i)'
      BY <1>4 DEF ServedBy
    <2> QED
      BY <1>1, <1>3, <1>4, <2>1 DEF PlacesOk
  <1> QED
    BY <1>1, <1>2, <1>3, <1>4 DEF PlacesOk

\* A step of a client inside its call.
LEMMA ClientMoves ==
    ASSUME ProxyInv, NEW c \in Clients, NEW i \in Conns, call[c].pc \in Busy, call[c].conn = i,
           call' \in [Clients -> CallRecs], \A d \in Clients \ {c} : call'[d] = call[d],
           conn' \in [Conns -> ConnRecs], \A j \in Conns \ {i} : conn'[j] = conn[j],
           call'[c].pc \in Busy, call'[c].conn = i, call'[c].req = call[c].req, call'[c].told = TRUE,
           conn'[i].client = c, conn'[i].cl = TRUE, conn'[i].sv = conn[i].sv, conn'[i].ran = conn[i].ran,
           Talk(c, call'[c], conn'[i]), Running => Answers(call'[c], conn'[i]),
           \A b \in WorkerRecs : b.pc \in Serving /\ Turn(b, conn[i], call[c], handle) =>
               Turn(b, conn'[i], call'[c], handle),
           conn[i].sv = TRUE /\ QueuedOk(i) =>
             /\ call'[c].pc \in First /\ conn'[i].down = <<>> /\ conn'[i].up # <<>>
             /\ Head(conn'[i].up) = Head(conn[i].up),
           UNCHANGED <<held, backlog, client_q, main, worker, do_exit, handle, calls, failures, ghost>>
    PROVE  ProxyInv'
  <1>1. /\ held' = held /\ handle' = handle /\ worker' = worker /\ (Running' <=> Running) /\ ghost' = ghost
        /\ main' = main
    BY DEF Running
  <1>2. /\ conn[i].client = c /\ conn[i].cl = TRUE /\ K(c) = conn[i] /\ K(c)' = conn'[i]
        /\ \A j \in Conns \ {i} : conn[j].sv = TRUE => conn[j].client # c
        /\ CallOk(c) /\ OwnsOk(c) /\ ConnOk(i)
    BY InCall DEF K, ProxyInv
  <1>3. Frame(c, i)
    BY <1>1, <1>2 DEF Frame
  <1>4. CallOk(c)'
    BY <1>1, <1>2 DEF CallOk, Busy, First
  <1>5. OwnsOk(c)'
    <2>1. call[c].pc # "dead" /\ call'[c].pc # "dead"
      BY DEF Busy, First
    <2>2. \A h : (Closed(c, h)' <=> Closed(c, h)) /\ (Gets(c, h)' <=> Gets(c, h))
      BY <1>2 DEF Closed, Gets
    <2> QED
      BY ONLY <1>1, <1>2, <2>1, <2>2 DEF OwnsOk
  <1>6. ConnOk(i)'
    BY <1>1, <1>2 DEF ConnOk
  <1>7. Queued(i) => QueuedOk(i)'
    <2> SUFFICES ASSUME Queued(i) PROVE QueuedOk(i)'
      OBVIOUS
    <2>1. QueuedOk(i)
      BY DEF ProxyInv
    <2>2. /\ conn[i].sv = TRUE /\ conn[i].up # <<>> /\ conn[i].ran = <<>>
          /\ Fresh(conn[i], call[c], Head(conn[i].up), handle)
      BY <1>2, <2>1 DEF QueuedOk
    <2>3. Fresh(conn'[i], call'[c], Head(conn'[i].up), handle')
      <3>1. /\ call'[c].pc \in First /\ conn'[i].down = <<>> /\ Head(conn'[i].up) = Head(conn[i].up)
            /\ call'[c].req = call[c].req /\ call[c].pc # "dead" /\ conn'[i].ran = conn[i].ran
            /\ conn'[i].client = conn[i].client /\ handle' = handle
        BY <1>1, <1>2, <2>1, <2>2 DEF Busy, First
      <3> QED
        BY ONLY <2>2, <3>1 DEF Fresh
    <2>4. /\ conn'[i].sv = TRUE /\ conn'[i].up # <<>> /\ conn'[i].down = <<>> /\ conn'[i].ran = <<>>
          /\ call'[conn'[i].client] = call'[c]
      BY <2>1, <2>2
    <2> QED
      BY ONLY <2>3, <2>4 DEF QueuedOk
  <1>8. ASSUME NEW w \in Workers PROVE WorkerOk(w)'
    <2>1. CASE worker[w].conn # i
      BY <1>1, <1>3, <2>1, FrameKeeps
    <2>2. CASE worker[w].conn = i
      <3>1. WorkerOk(w) /\ worker[w] \in WorkerRecs /\ C(w) = conn[i] /\ C(w)' = conn'[i]
        BY <1>1, <2>2 DEF ProxyInv, ProxyType, C
      <3> QED
        BY <1>1, <1>2, <3>1 DEF WorkerOk
    <2> QED
      BY <2>1, <2>2
  <1>9. PlacesOk' /\ \A j \in Conns : Queued(j)' <=> Queued(j)
    <2>1. \A j \in Conns : conn'[j].sv = TRUE => conn[j].sv = TRUE
      OBVIOUS
    <2> QED
      BY <1>1, <2>1, PlacesStay
  <1>10. ProxyType'
    BY DEF ProxyInv, ProxyType
  <1>11. CrashHasCause'
    BY <1>1 DEF ProxyInv, CrashHasCause, Crashed, Busy, First
  <1> QED
    BY <1>3, <1>4, <1>5, <1>6, <1>7, <1>8, <1>9, <1>10, <1>11, FrameKeeps DEF ProxyInv

\* A call returns: the proxy has closed its end before.
LEMMA ReturnKeeps ==
    ASSUME ProxyInv, NEW c \in Clients, NEW ret \in Int, call[c].pc \in Busy, K(c).sv = FALSE,
           Return(c, ret), ret = -1 \/ K(c).ran = <<ret>>,
           Running /\ call[c].req.type \in Opens \cup Closes =>
             K(c).ran = <<ret>> \/ (K(c).ran = <<>> /\ ret = -1),
           UNCHANGED <<backlog, client_q, main, worker, do_exit, handle, calls, failures, ghost>>
    PROVE  ProxyInv'
  <1>0. PICK i \in Conns, k \in ConnRecs : i = call[c].conn /\ k = conn[i] /\ k = K(c)
    BY ZenonT(60), InCall
  <1>1. /\ handle' = handle /\ worker' = worker /\ (Running' <=> Running) /\ ghost' = ghost /\ main' = main
    BY DEF Running
  <1>2. /\ k.client = c /\ k.sv = FALSE /\ call[c] \in CallRecs /\ Talk(c, call[c], k)
        /\ \A j \in Conns \ {i} : conn[j].sv = TRUE => conn[j].client # c
        /\ call[c].req.type \in Closes => call[c].req.h \in held[c]
        /\ OwnsOk(c) /\ call \in [Clients -> CallRecs] /\ conn \in [Conns -> ConnRecs]
        /\ held \in [Clients -> SUBSET Handles]
    BY <1>0, InCall DEF ProxyInv, ProxyType
  <1>3. conn' = [conn EXCEPT ![i] = Free]
    <2>1. HalfClosed(k, "cl") = Free
      BY <1>2, ClientEndClosed
    <2> QED
      BY <1>0, <2>1 DEF Return
  <1>4. PICK a \in CallRecs : call' = [call EXCEPT ![c] = a] /\ a.pc = "done" /\ a.told = TRUE
    <2>1. PICK a : a = [Idle EXCEPT !.told = ret = -1 \/ K(c).ran = <<ret>>]
      OBVIOUS
    <2>2. a = [Idle EXCEPT !.told = TRUE]
      BY <2>1
    <2>3. a \in CallRecs /\ a.pc = "done" /\ a.told = TRUE
      <3>1. a = Idle
        BY ONLY <2>2 DEF Idle
      <3> QED
        BY ONLY <3>1, IdleIsCall
    <2> QED
      BY <2>1, <2>3 DEF Return
  <1>5. conn' \in [Conns -> ConnRecs] /\ conn'[i] = Free /\ \A j \in Conns \ {i} : conn'[j] = conn[j]
    BY ONLY <1>2, <1>3, FreeIsConn
  <1>6. call' \in [Clients -> CallRecs] /\ call'[c] = a /\ \A d \in Clients \ {c} : call'[d] = call[d]
    BY ONLY <1>2, <1>4
  <1>7. PICK H \in SUBSET Handles :
          /\ held' = [held EXCEPT ![c] = H]
          /\ H = IF call[c].req.type \in Opens /\ ret > 0 THEN held[c] \cup {ret}
                 ELSE IF call[c].req.type \in Closes /\ ret = 0 THEN held[c] \ {call[c].req.h} ELSE held[c]
    <2>1. call[c].req.type \in Opens /\ ret > 0 => ret \in Handles
      <3> SUFFICES ASSUME call[c].req.type \in Opens, ret > 0 PROVE ret \in Handles
        OBVIOUS
      <3>1. k.ran = <<>> \/ \E h \in Handles \cup {-1} : k.ran = <<h>>
        BY <1>2 DEF Talk
      <3>2. k.ran = <<ret>>
        BY <1>0
      <3>3. PICK h \in Handles \cup {-1} : <<ret>> = <<h>>
        BY ONLY <3>1, <3>2
      <3> QED
        BY <3>3
    <2> QED
      BY <1>2, <2>1 DEF Return
  <1>8. held' \in [Clients -> SUBSET Handles] /\ held'[c] = H /\ \A d \in Clients \ {c} : held'[d] = held[d]
    BY ONLY <1>2, <1>7
  <1>9. Frame(c, i)
    BY <1>0, <1>1, <1>2, <1>5, <1>6, <1>8, FreeIsConn DEF Frame
  <1>10. CallOk(c)'
    BY <1>4, <1>6 DEF CallOk, Busy, First
  <1>11. OwnsOk(c)'
    <2> SUFFICES ASSUME Running, NEW h \in Handles
                 PROVE  /\ handle[h] = c /\ h \notin ghost.lost => h \in H
                        /\ h \in H => handle[h] = c
      BY <1>1, <1>4, <1>6, <1>8 DEF OwnsOk, Closed, Gets, Busy, First
    <2>1. /\ handle[h] = c /\ h \notin ghost.lost => (h \in held[c] /\ ~Closed(c, h)) \/ Gets(c, h)
          /\ h \in held[c] => handle[h] = c \/ Closed(c, h)
          /\ Gets(c, h) => handle[h] = c
      BY <1>2 DEF OwnsOk, Busy, First
    <2>2. /\ Closed(c, h) <=> call[c].req.type \in Closes /\ call[c].req.h = h /\ k.ran # <<>>
          /\ Gets(c, h) <=> call[c].req.type \in Opens /\ k.ran = <<h>>
      BY <1>0 DEF Closed, Gets
    <2>3. Opens \cap Closes = {}
      BY DEF Opens, Closes
    <2>4. h \in Nat /\ h > 0
      BY HandlesAre
    <2>5. CASE call[c].req.type \in Opens
      <3>1. k.ran = <<ret>> \/ (k.ran = <<>> /\ ret = -1)
        BY <1>0, <2>5
      <3>2. ret > 0 \/ ret = -1
        <4>1. k.ran = <<>> \/ \E g \in Handles \cup {-1} : k.ran = <<g>>
          BY <1>2, <2>5 DEF Talk
        <4>2. CASE k.ran = <<ret>>
          <5>1. PICK g \in Handles \cup {-1} : <<ret>> = <<g>>
            BY ONLY <4>1, <4>2
          <5>2. ret \in Handles \cup {-1}
            BY ONLY <5>1
          <5> QED
            BY ONLY <5>2, HandlesAre
        <4> QED
          BY <3>1, <4>2
      <3>3. ~Closed(c, h) /\ H = (IF ret > 0 THEN held[c] \cup {ret} ELSE held[c])
        BY <1>7, <2>2, <2>3, <2>5
      <3>4. Gets(c, h) <=> ret = h
        BY <2>2, <2>4, <2>5, <3>1
      <3> QED
        BY ONLY <2>1, <2>4, <3>2, <3>3, <3>4
    <2>6. CASE call[c].req.type \in Closes
      <3>1. k.ran = <<ret>> \/ (k.ran = <<>> /\ ret = -1)
        BY <1>0, <2>6
      <3>2. k.ran \in {<<>>, << 0 >>}
        BY <1>2, <2>6 DEF Talk
      <3>3. (k.ran = << 0 >> /\ ret = 0) \/ (k.ran = <<>> /\ ret = -1)
        BY SMTT(40), <3>1, <3>2
      <3>4. ~Gets(c, h) /\ H = (IF ret = 0 THEN held[c] \ {call[c].req.h} ELSE held[c])
        BY <1>7, <2>2, <2>3, <2>6
      <3> QED
        BY <2>1, <2>2, <2>6, <3>3, <3>4
    <2>7. CASE call[c].req.type \notin Opens \cup Closes
      BY <1>7, <2>1, <2>2, <2>7
    <2> QED
      BY <2>5, <2>6, <2>7
  <1>12. ConnOk(i)'
    BY <1>5, FreeIsConn DEF ConnOk
  <1>13. ~Queued(i)
    BY <1>0, <1>2 DEF ProxyInv, QueuedOk
  <1>14. ASSUME NEW w \in Workers PROVE WorkerOk(w)'
    <2>1. CASE worker[w].conn # i
      BY <1>1, <1>9, <2>1, FrameKeeps
    <2>2. CASE worker[w].conn = i
      <3>1. WorkerOk(w) /\ C(w) = conn[i]
        BY <2>2 DEF ProxyInv, C
      <3>2. ~(Running /\ worker[w].pc \in Serving)
        BY <1>0, <1>2, <3>1 DEF WorkerOk
      <3> QED
        BY <1>1, <3>2 DEF WorkerOk
    <2> QED
      BY <2>1, <2>2
  <1>15. PlacesOk' /\ \A j \in Conns : Queued(j)' <=> Queued(j)
    <2>1. \A j \in Conns : conn'[j].sv = TRUE => conn[j].sv = TRUE
      BY <1>5, FreeIsConn
    <2> QED
      BY <1>1, <2>1, PlacesStay
  <1>16. ProxyType'
    BY <1>5, <1>6, <1>8 DEF ProxyInv, ProxyType
  <1>17. CrashHasCause'
    BY <1>1, <1>6 DEF ProxyInv, CrashHasCause, Crashed, Busy, First
  <1> QED
    BY <1>9, <1>10, <1>11, <1>12, <1>13, <1>14, <1>15, <1>16, <1>17, FrameKeeps DEF ProxyInv

\* While the proxy is at work on a call, what has come is its first status.
LEMMA ServedCall ==
    ASSUME ProxyInv, NEW c \in Clients, call[c].pc \in Busy, K(c).sv = TRUE, K(c).down # <<>>
    PROVE  /\ call[c].pc \in First /\ Len(K(c).down) = 1
           /\ call[c].req.type \in {"WRITE", "READ", "GETATTR", "READDIR", "OPENDIR"}
           /\ call[c].req.type = "READ" => K(c).down[1].v = 1
           /\ call[c].req.type \in {"GETATTR", "READDIR", "OPENDIR"} => K(c).down[1].v = 0
  <1>0. PICK i \in Conns : i = call[c].conn /\ conn[i] = K(c) /\ conn[i].client = c
    <2>1. call[c].conn \in Conns /\ K(c) = conn[call[c].conn] /\ K(c).client = c
      BY InCall
    <2> QED
      BY <2>1
  <1>1. ~Queued(i)
    BY <1>0 DEF ProxyInv, QueuedOk
  <1>2. PICK w \in Workers : ServedBy(w, i)
    BY <1>0, <1>1 DEF ProxyInv, PlacesOk
  <1>3. worker[w].pc \in Serving /\ Turn(worker[w], K(c), call[c], handle)
    BY <1>0, <1>2 DEF ProxyInv, WorkerOk, ServedBy, C
  <1>4. worker[w].pc # "serve"
    BY <1>3 DEF Turn, Fresh
  <1>5. call[c].pc # "dead" /\ worker[w].req = call[c].req
    BY <1>3, <1>4 DEF Turn, Busy, First
  <1> QED
    BY <1>3, <1>4, <1>5 DEF Turn, Serving

\* An item of the stream is taken and the call goes on.
LEMMA TakenKeeps ==
    ASSUME ProxyInv, NEW c \in Clients, NEW pc \in {"data", "send", "more"}, call[c].pc = "status",
           Arrived(c), Taken(c, pc, Head(K(c).down).v),
           pc = "data" <=> call[c].req.type = "READ", pc = "send" <=> call[c].req.type = "WRITE",
           pc = "more" => call[c].req.type \in {"GETATTR", "OPENDIR", "READDIR"},
           UNCHANGED <<backlog, client_q, main, worker, do_exit, handle, calls, failures, ghost>>
    PROVE  ProxyInv'
  <1>0. call[c].pc \in Busy /\ call[c].pc \in First /\ call[c].pc # "dead"
    BY DEF Busy, First
  <1>1. PICK i \in Conns, k \in ConnRecs, a \in CallRecs :
          /\ i = call[c].conn /\ k = conn[i] /\ k = K(c) /\ a = call[c]
          /\ k.client = c /\ k.cl = TRUE /\ Talk(c, a, k) /\ (Running => Answers(a, k))
    BY <1>0, InCall
  <1>2. k.down \in Seq(Items) /\ k.down # <<>> /\ k.ran \in Seq(Int) /\ a.pc = "status"
    BY <1>1 DEF ConnRecs, Arrived
  <1>3. PICK v \in Int, q \in Seq(Items) :
          /\ v = Head(k.down).v /\ v = k.down[1].v /\ q = Tail(k.down)
          /\ Len(q) = Len(k.down) - 1 /\ \A n \in 1..Len(q) : q[n] = k.down[n + 1]
    <2>1. Head(k.down) \in Items /\ Head(k.down) = k.down[1] /\ Tail(k.down) \in Seq(Items)
      BY ONLY <1>2
    <2>2. Len(Tail(k.down)) = Len(k.down) - 1 /\ \A n \in 1..Len(Tail(k.down)) : Tail(k.down)[n] = k.down[n + 1]
      BY ONLY <1>2
    <2> QED
      BY <2>1, <2>2 DEF Items
  <1>4. PICK k2 \in ConnRecs :
          /\ k2 = [client |-> c, up |-> k.up, down |-> q, cl |-> TRUE, sv |-> k.sv, ran |-> k.ran]
          /\ conn' = [conn EXCEPT ![i] = k2]
    <2>1. PICK k2 : k2 = [k EXCEPT !.down = Tail(@)]
      OBVIOUS
    <2>2. k2 = [client |-> c, up |-> k.up, down |-> q, cl |-> TRUE, sv |-> k.sv, ran |-> k.ran]
      BY <1>1, <1>3, <2>1 DEF ConnRecs
    <2>3. k2 \in ConnRecs
      BY <1>1, <1>3, <2>2 DEF ConnRecs
    <2> QED
      BY <1>1, <2>1, <2>2, <2>3 DEF Taken
  <1>5. PICK b \in CallRecs :
          /\ b = [pc |-> pc, conn |-> i, req |-> a.req, ret |-> v, told |-> a.told]
          /\ call' = [call EXCEPT ![c] = b]
    <2>1. PICK b : b = [a EXCEPT !.pc = pc, !.ret = v]
      OBVIOUS
    <2>2. b = [pc |-> pc, conn |-> i, req |-> a.req, ret |-> v, told |-> a.told]
      BY <1>1, <2>1 DEF CallRecs
    <2>3. b \in CallRecs
      BY <1>1, <1>3, <2>2 DEF CallRecs, Busy
    <2>4. call' = [call EXCEPT ![c].pc = pc, ![c].ret = v] /\ call \in [Clients -> CallRecs]
      BY <1>1, <1>3 DEF Taken, ProxyInv, ProxyType
    <2>5. call' = [call EXCEPT ![c] = [a EXCEPT !.pc = pc, !.ret = v]]
      BY ONLY <1>1, <2>4, c \in Clients DEF CallRecs
    <2> QED
      BY <2>1, <2>2, <2>3, <2>5
  <1>6. /\ call \in [Clients -> CallRecs] /\ conn \in [Conns -> ConnRecs] /\ a.told = TRUE
    BY <1>1 DEF ProxyInv, ProxyType, CallOk
  <1>7. /\ call' \in [Clients -> CallRecs] /\ call'[c] = b /\ \A d \in Clients \ {c} : call'[d] = call[d]
        /\ conn' \in [Conns -> ConnRecs] /\ conn'[i] = k2 /\ \A j \in Conns \ {i} : conn'[j] = conn[j]
    BY ONLY <1>4, <1>5, <1>6
  <1>8. Talk(c, b, k2)
    <2>1. pc = "data" => Truth(b, k2, v)
      <3>1. pc = "data" => Truth(a, k, k.down[1].v)
        BY <1>1, <1>2 DEF Talk
      <3> QED
        BY <1>1, <1>3, <1>4, <1>5, <3>1 DEF Truth
    <2>2. \A n \in 1..Len(q) : Truth(a, k, q[n].v)
      <3> TAKE n \in 1..Len(q)
      <3>1. n + 1 \in DOMAIN k.down /\ n + 1 # 1 /\ q[n] = k.down[n + 1]
        BY ONLY <1>2, <1>3, n \in 1..Len(q)
      <3> QED
        BY <1>1, <1>2, <3>1 DEF Talk
    <2>3. \A n \in DOMAIN k2.down : Truth(b, k2, k2.down[n].v) /\ b.pc \notin First
      <3>1. DOMAIN q = 1..Len(q) /\ k2.down = q /\ k2.ran = k.ran /\ b.req = a.req /\ b.pc = pc
        BY ONLY <1>3, <1>4, <1>5
      <3> QED
        BY <2>2, <3>1 DEF Truth, First
    <2>4. /\ a.req.type \in Closes => k.ran \in {<<>>, << 0 >>}
          /\ a.req.type \in Opens => k.ran = <<>> \/ \E h \in Handles \cup {-1} : k.ran = <<h>>
      BY <1>1 DEF Talk
    <2>5. /\ k2.cl = TRUE /\ k2.client = c /\ k2.ran = k.ran /\ b.req = a.req /\ b.pc = pc /\ b.ret = v
          /\ a.req = call[c].req
      BY <1>1, <1>4, <1>5
    <2>6. /\ b.pc = "data" => b.req.type = "READ"
          /\ b.pc \in {"send", "status2"} => b.req.type = "WRITE"
          /\ b.pc = "more" => b.req.type \in {"GETATTR", "OPENDIR", "READDIR"}
      BY <2>5
    <2> QED
      BY ONLY <2>1, <2>3, <2>4, <2>5, <2>6 DEF Talk
  <1>9. Running => Answers(b, k2)
    <2> SUFFICES ASSUME Running, ~k2.sv, k2.ran # <<>>, b.req.type \in Opens \cup Closes
                 PROVE  k2.down # <<>> /\ b.pc \notin First
      BY DEF Answers, Opens
    <2>1. a.req.type = "OPENDIR"
      BY <1>1, <1>5 DEF Opens, Closes
    <2>2. Len(k.down) > 1
      BY <1>1, <1>2, <1>4, <2>1 DEF Answers, First
    <2>3. Len(q) \in Nat /\ Len(q) > 0
      BY ONLY <1>2, <1>3, <2>2
    <2>4. q # <<>>
      BY ONLY <2>3
    <2> QED
      BY <1>4, <1>5, <2>4 DEF First
  <1>10. ASSUME NEW w \in WorkerRecs, w.pc \in Serving, Turn(w, conn[i], call[c], handle)
         PROVE  Turn(w, k2, b, handle)
    <2>1. Turn(w, k, a, handle) /\ a.pc # "dead" /\ a.pc \in First
      BY <1>0, <1>1, <1>10
    <2>2. w.pc # "serve" /\ w.req = a.req
      BY <1>2, <2>1 DEF Turn, Fresh
    <2>3. w.req \in Requests
      BY <2>1, <2>2 DEF Turn
    <2>4. Len(k.down) = 1 => q = <<>>
      BY ONLY <1>2, <1>3
    <2>5. Len(k.down) = 1
      BY <2>1, <2>2, <1>10 DEF Turn, Serving, First
    <2>6. k2.down = <<>> /\ k2.ran = k.ran /\ b.req = a.req /\ b.pc = pc /\ a.req = call[c].req
      BY <1>1, <1>4, <1>5, <2>4, <2>5
    <2>7. CASE w.pc \in {"body", "answer"}
      <3>1. w.req.type = "WRITE" /\ pc = "send"
        BY <2>1, <2>2, <2>6, <2>7 DEF Turn
      <3> QED
        BY ONLY <2>1, <2>2, <2>3, <2>6, <2>7, <3>1 DEF Turn
    <2>8. CASE w.pc = "more"
      <3>1. w.req.type # "WRITE" /\ pc \in {"data", "more"}
        BY <2>1, <2>2, <2>6, <2>8 DEF Turn
      <3> QED
        BY ONLY <2>1, <2>2, <2>3, <2>6, <2>8, <3>1 DEF Turn
    <2> QED
      BY <1>10, <2>2, <2>7, <2>8 DEF Serving
  <1>11. ~QueuedOk(i)
    BY <1>1, <1>2 DEF QueuedOk
  <1>12. b.pc \in Busy
    BY <1>5 DEF Busy
  <1>13. held' = held
    BY DEF Taken
  <1>14. /\ call'[c].pc \in Busy /\ call'[c].conn = i /\ call'[c].req = call[c].req /\ call'[c].told = TRUE
         /\ conn'[i].client = c /\ conn'[i].cl = TRUE /\ conn'[i].sv = conn[i].sv /\ conn'[i].ran = conn[i].ran
    BY <1>1, <1>4, <1>5, <1>6, <1>7, <1>12
  <1>15. Talk(c, call'[c], conn'[i]) /\ (Running => Answers(call'[c], conn'[i]))
    BY <1>7, <1>8, <1>9
  <1>16. \A w \in WorkerRecs : w.pc \in Serving /\ Turn(w, conn[i], call[c], handle) =>
           Turn(w, conn'[i], call'[c], handle)
    BY <1>7, <1>10
  <1> QED
    BY <1>0, <1>1, <1>7, <1>11, <1>13, <1>14, <1>15, <1>16, ClientMoves

\* The proxy has closed the connection, and there is nothing to read any more.
LEMMA EndedReturns ==
    ASSUME ProxyInv, NEW c \in Clients, call[c].pc \in Busy, Ended(c), Return(c, -1),
           UNCHANGED <<backlog, client_q, main, worker, do_exit, handle, calls, failures, ghost>>
    PROVE  ProxyInv'
  <1>1. K(c) \in ConnRecs /\ (Running => Answers(call[c], K(c)))
    BY InCall
  <1>2. K(c).sv = FALSE /\ K(c).down = <<>>
    BY <1>1 DEF Ended, ConnRecs
  <1>3. Running /\ call[c].req.type \in Opens \cup Closes => K(c).ran = <<>>
    BY <1>1, <1>2 DEF Answers
  <1>4. PICK r \in Int : r = -1 /\ Return(c, r)
    OBVIOUS
  <1> QED
    BY <1>2, <1>3, <1>4, ReturnKeeps

\* The first item of the stream, when there is one.
LEMMA ArrivedItem ==
    ASSUME ProxyInv, NEW c \in Clients, call[c].pc \in Busy, Arrived(c)
    PROVE  /\ K(c).down # <<>> /\ 1 \in DOMAIN K(c).down /\ Head(K(c).down) = K(c).down[1]
           /\ Head(K(c).down).v \in Int
           /\ K(c).sv = TRUE \/ K(c).sv = FALSE
  <1>1. K(c) \in ConnRecs
    BY InCall
  <1>2. K(c).down \in Seq(Items) /\ K(c).down # <<>> /\ K(c).sv \in BOOLEAN
    BY <1>1 DEF ConnRecs, Arrived
  <1>3. Head(K(c).down) \in Items
    BY ONLY <1>2
  <1> QED
    BY <1>2, <1>3 DEF Items

LEMMA d_receiveKeeps == ASSUME ProxyInv, NEW c \in Clients, d_receive(c) PROVE ProxyInv'
  <1>0. /\ call[c].pc = "status" /\ call[c].pc \in Busy /\ call[c].pc \in First
        /\ UNCHANGED <<backlog, client_q, main, worker, do_exit, handle, calls, failures, ghost>>
    BY DEF d_receive, Busy, First, server
  <1>1. CASE Ended(c) /\ Return(c, -1)
    BY <1>0, <1>1, EndedReturns
  <1>2. CASE Arrived(c) /\ AfterStatus(c, call[c].req.type, Head(K(c).down).v)
    <2>1. PICK v \in Int, type \in {call[c].req.type} : /\ v = Head(K(c).down).v /\ v = K(c).down[1].v /\ type = call[c].req.type
      BY <1>0, <1>2, ArrivedItem
    <2>2. AfterStatus(c, type, v) /\ K(c).down # <<>> /\ 1 \in DOMAIN K(c).down
      BY <1>0, <1>2, <2>1, ArrivedItem
    <2>3. Talk(c, call[c], K(c))
      BY <1>0, InCall
    <2>4. /\ K(c).sv = TRUE => /\ type \in {"WRITE", "READ", "GETATTR", "READDIR", "OPENDIR"}
                               /\ type = "READ" => v = 1
                               /\ type \in {"GETATTR", "READDIR", "OPENDIR"} => v = 0
          /\ K(c).sv = TRUE \/ K(c).sv = FALSE
      BY <1>0, <1>2, <2>1, <2>2, ServedCall, ArrivedItem
    <2>5. type \notin {"WRITE", "OPENDIR", "READ"} => K(c).ran = <<v>>
      BY <1>0, <2>1, <2>2, <2>3 DEF Talk, Truth
    <2>6. type = "OPENDIR" => v = 0
      BY <1>0, <2>1, <2>2, <2>3 DEF Talk
    <2>7. CASE type = "READ"
      <3>1. IF v = 0 THEN Return(c, -1) ELSE Taken(c, "data", v)
        BY <2>2, <2>7 DEF AfterStatus
      <3>2. CASE v = 0
        <4>1. Return(c, -1) /\ K(c).sv = FALSE /\ call[c].req.type \notin Opens \cup Closes
          BY <2>1, <2>4, <2>7, <3>1, <3>2 DEF Opens, Closes
        <4>2. PICK r \in Int : r = -1 /\ Return(c, r)
          BY <4>1
        <4> QED
          BY <1>0, <4>1, <4>2, ReturnKeeps
      <3>3. CASE v # 0
        <4>1. Taken(c, "data", Head(K(c).down).v) /\ call[c].req.type = "READ"
          BY <2>1, <2>7, <3>1, <3>3
        <4> QED
          BY <1>0, <1>2, <4>1, TakenKeeps
      <3> QED
        BY <3>2, <3>3
    <2>8. CASE type = "WRITE"
      <3>1. Taken(c, "send", Head(K(c).down).v) /\ call[c].req.type = "WRITE"
        BY <2>1, <2>2, <2>8 DEF AfterStatus
      <3> QED
        BY <1>0, <1>2, <3>1, TakenKeeps
    <2>9. CASE type \in {"GETATTR", "OPENDIR", "READDIR"}
      <3>1. IF v # 0 THEN Return(c, v) ELSE Taken(c, "more", v)
        BY <2>2, <2>9 DEF AfterStatus
      <3>2. CASE v # 0
        <4>1. Return(c, v) /\ K(c).sv = FALSE /\ K(c).ran = <<v>>
          BY <2>4, <2>5, <2>6, <2>9, <3>1, <3>2
        <4> QED
          BY <1>0, <4>1, ReturnKeeps
      <3>3. CASE v = 0
        <4>1. Taken(c, "more", Head(K(c).down).v) /\ call[c].req.type \in {"GETATTR", "OPENDIR", "READDIR"}
          BY <2>1, <2>9, <3>1, <3>3
        <4> QED
          BY <1>0, <1>2, <4>1, TakenKeeps
      <3> QED
        BY <3>2, <3>3
    <2>10. CASE type \notin {"READ", "WRITE", "GETATTR", "OPENDIR", "READDIR"}
      <3>1. Return(c, v)
        BY <2>2, <2>10 DEF AfterStatus
      <3>2. K(c).sv = FALSE /\ K(c).ran = <<v>>
        BY <2>4, <2>5, <2>10
      <3> QED
        BY <1>0, <3>1, <3>2, ReturnKeeps
    <2> QED
      BY <2>7, <2>8, <2>9, <2>10
  <1> QED
    BY <1>1, <1>2 DEF d_receive

\* The last item of a conversation.
LEMMA LastItem ==
    ASSUME ProxyInv, NEW c \in Clients, call[c].pc \in {"data", "status2", "more"}, Arrived(c)
    PROVE  /\ call[c].pc \in Busy /\ K(c).sv = FALSE /\ Head(K(c).down).v \in Int
           /\ call[c].pc # "data" =>
                K(c).ran = <<Head(K(c).down).v>> \/ (Head(K(c).down).v = -1 /\ call[c].req.type = "WRITE")
           /\ call[c].pc = "data" => K(c).ran = <<call[c].ret>> \/ call[c].ret = -1
           /\ call[c].pc = "data" => call[c].req.type = "READ" /\ call[c].ret \in Int
           /\ call[c].pc = "status2" => call[c].req.type = "WRITE"
           /\ call[c].pc = "more" => call[c].req.type \in {"GETATTR", "OPENDIR", "READDIR"}
  <1>1. call[c].pc \in Busy /\ call[c].pc \notin First
    BY DEF Busy, First
  <1>2. Talk(c, call[c], K(c)) /\ call[c] \in CallRecs
    BY <1>1, InCall
  <1>3. /\ K(c).down # <<>> /\ 1 \in DOMAIN K(c).down /\ Head(K(c).down) = K(c).down[1]
        /\ Head(K(c).down).v \in Int /\ (K(c).sv = TRUE \/ K(c).sv = FALSE)
    BY <1>1, ArrivedItem
  <1>4. K(c).sv = FALSE
    BY <1>1, <1>3, ServedCall
  <1>5. /\ call[c].pc = "data" => call[c].req.type = "READ" /\ Truth(call[c], K(c), call[c].ret)
        /\ call[c].pc = "status2" => call[c].req.type = "WRITE"
        /\ call[c].pc = "more" => call[c].req.type \in {"GETATTR", "OPENDIR", "READDIR"}
        /\ call[c].pc # "data" => Truth(call[c], K(c), K(c).down[1].v)
    BY <1>1, <1>2, <1>3 DEF Talk
  <1>6. call[c].ret \in Int
    BY <1>2 DEF CallRecs
  <1> QED
    BY <1>1, <1>3, <1>4, <1>5, <1>6 DEF Truth

LEMMA read_dataKeeps == ASSUME ProxyInv, NEW c \in Clients, read_data(c) PROVE ProxyInv'
  <1>0. /\ call[c].pc = "data" /\ call[c].pc \in Busy
        /\ UNCHANGED <<backlog, client_q, main, worker, do_exit, handle, calls, failures, ghost>>
    BY DEF read_data, Busy, server
  <1>1. CASE Ended(c) /\ Return(c, -1)
    BY <1>0, <1>1, EndedReturns
  <1>2. CASE Arrived(c) /\ Return(c, call[c].ret)
    <2>1. /\ K(c).sv = FALSE /\ call[c].ret \in Int /\ (K(c).ran = <<call[c].ret>> \/ call[c].ret = -1)
          /\ call[c].req.type = "READ"
      BY <1>0, <1>2, LastItem
    <2>2. call[c].req.type \notin Opens \cup Closes
      BY <2>1 DEF Opens, Closes
    <2> QED
      BY <1>0, <1>2, <2>1, <2>2, ReturnKeeps
  <1> QED
    BY <1>1, <1>2 DEF read_data

LEMMA write_statusKeeps == ASSUME ProxyInv, NEW c \in Clients, write_status(c) PROVE ProxyInv'
  <1>0. /\ call[c].pc = "status2" /\ call[c].pc \in Busy
        /\ UNCHANGED <<backlog, client_q, main, worker, do_exit, handle, calls, failures, ghost>>
    BY DEF write_status, Busy, server
  <1>1. CASE Ended(c) /\ Return(c, -1)
    BY <1>0, <1>1, EndedReturns
  <1>2. CASE Arrived(c) /\ Return(c, Head(K(c).down).v)
    <2>1. PICK v \in Int : /\ v = Head(K(c).down).v /\ K(c).sv = FALSE /\ (K(c).ran = <<v>> \/ v = -1)
                           /\ call[c].req.type = "WRITE"
      BY <1>0, <1>2, LastItem
    <2>2. call[c].req.type \notin Opens \cup Closes /\ Return(c, v)
      BY <1>2, <2>1 DEF Opens, Closes
    <2> QED
      BY <1>0, <2>1, <2>2, ReturnKeeps
  <1> QED
    BY <1>1, <1>2 DEF write_status

\* xpn_opendir without memory for its DIR: the handle is lost, the connection stays.
LEMMA LostKeeps ==
    ASSUME ProxyInv, NEW c \in Clients, call[c].pc = "more", Arrived(c), call[c].req.type = "OPENDIR",
           failures' = failures + 1, ghost' = [ghost EXCEPT !.lost = @ \cup {Head(K(c).down).v}],
           call' = [call EXCEPT ![c] = Idle],
           UNCHANGED <<conn, held, backlog, client_q, main, worker, do_exit, handle, calls>>
    PROVE  ProxyInv'
  <1>0. PICK v \in Int : /\ v = Head(K(c).down).v /\ K(c).ran = <<v>> /\ K(c).sv = FALSE /\ call[c].pc \in Busy
    BY LastItem
  <1>1. PICK i \in Conns : i = call[c].conn /\ conn[i] = K(c) /\ conn[i].client = c
    BY ZenonT(60), <1>0, InCall
  <1>2. /\ handle' = handle /\ worker' = worker /\ (Running' <=> Running) /\ main' = main /\ conn' = conn
        /\ held' = held /\ call \in [Clients -> CallRecs] /\ OwnsOk(c) /\ failures \in Nat
        /\ ghost \in [missed : BOOLEAN, lost : SUBSET Int, null : BOOLEAN]
        /\ \A j \in Conns \ {i} : conn[j].sv = TRUE => conn[j].client # c
    BY <1>0, <1>1, InCall DEF Running, ProxyInv, ProxyType
  <1>3. /\ ghost' \in [missed : BOOLEAN, lost : SUBSET Int, null : BOOLEAN]
        /\ ghost'.lost = ghost.lost \cup {v} /\ ghost'.null = ghost.null
    <2>1. ghost' = [ghost EXCEPT !.lost = @ \cup {v}]
      BY <1>0
    <2> QED
      BY ONLY <1>0, <1>2, <2>1, v \in Int
  <1>4. call' \in [Clients -> CallRecs] /\ call'[c] = Idle /\ \A d \in Clients \ {c} : call'[d] = call[d]
    BY <1>2, IdleIsCall
  <1>5. Frame(c, i)
    BY <1>0, <1>1, <1>2, <1>3, <1>4 DEF Frame
  <1>6. CallOk(c)'
    BY <1>4, IdleIsCall DEF CallOk, Busy, First
  <1>7. OwnsOk(c)'
    <2> SUFFICES ASSUME Running, NEW h \in Handles
                 PROVE  /\ handle[h] = c /\ h \notin ghost'.lost => h \in held[c]
                        /\ h \in held[c] => handle[h] = c
      BY <1>2, <1>4, IdleIsCall DEF OwnsOk, Closed, Gets, Busy, First
    <2>1. /\ handle[h] = c /\ h \notin ghost.lost => (h \in held[c] /\ ~Closed(c, h)) \/ Gets(c, h)
          /\ h \in held[c] => handle[h] = c \/ Closed(c, h)
      BY <1>2 DEF OwnsOk
    <2>2. ~Closed(c, h) /\ (Gets(c, h) => h = v)
      BY <1>0 DEF Closed, Gets, Closes
    <2> QED
      BY <1>3, <2>1, <2>2
  <1>8. ConnOk(i)'
    BY <1>0, <1>1, <1>2 DEF ConnOk
  <1>9. ~Queued(i)
    BY <1>0, <1>1 DEF ProxyInv, QueuedOk
  <1>10. ASSUME NEW w \in Workers PROVE WorkerOk(w)'
    <2>1. CASE worker[w].conn # i
      BY <1>2, <1>5, <2>1, FrameKeeps
    <2>2. CASE worker[w].conn = i
      <3>1. WorkerOk(w) /\ C(w) = conn[i]
        BY <2>2 DEF ProxyInv, C
      <3>2. ~(Running /\ worker[w].pc \in Serving)
        BY <1>0, <1>1, <3>1 DEF WorkerOk
      <3> QED
        BY <1>2, <3>2 DEF WorkerOk
    <2> QED
      BY <2>1, <2>2
  <1>11. PlacesOk' /\ \A j \in Conns : Queued(j)' <=> Queued(j)
    BY <1>2, PlacesStay
  <1>12. ProxyType'
    <2>1. failures' \in Nat
      BY <1>2
    <2> QED
      BY <1>2, <1>3, <1>4, <2>1 DEF ProxyInv, ProxyType
  <1>13. CrashHasCause'
    BY <1>2, <1>3, <1>4 DEF ProxyInv, CrashHasCause, Crashed
  <1> QED
    BY <1>5, <1>6, <1>7, <1>8, <1>9, <1>10, <1>11, <1>12, <1>13, FrameKeeps DEF ProxyInv

LEMMA get_structKeeps == ASSUME ProxyInv, NEW c \in Clients, get_struct(c) PROVE ProxyInv'
  <1>0. /\ call[c].pc = "more" /\ call[c].pc \in Busy
        /\ UNCHANGED <<backlog, client_q, main, worker, do_exit, handle, calls>>
    BY DEF get_struct, Busy, server
  <1>1. CASE Ended(c) /\ Return(c, -1) /\ UNCHANGED <<failures, ghost>>
    <2>1. UNCHANGED <<backlog, client_q, main, worker, do_exit, handle, calls, failures, ghost>>
      BY <1>0, <1>1
    <2> QED
      BY <1>0, <1>1, <2>1, EndedReturns
  <1>2. CASE Arrived(c) /\ Return(c, Head(K(c).down).v) /\ UNCHANGED <<failures, ghost>>
    <2>1. PICK v \in Int : /\ v = Head(K(c).down).v /\ K(c).sv = FALSE /\ K(c).ran = <<v>>
      BY <1>0, <1>2, LastItem
    <2>2. Return(c, v) /\ UNCHANGED <<backlog, client_q, main, worker, do_exit, handle, calls, failures, ghost>>
      BY <1>0, <1>2, <2>1
    <2> QED
      BY <1>0, <2>1, <2>2, ReturnKeeps
  <1>3. CASE /\ Arrived(c) /\ call[c].req.type = "OPENDIR" /\ failures' = failures + 1
             /\ ghost' = [ghost EXCEPT !.lost = @ \cup {Head(K(c).down).v}]
             /\ call' = [call EXCEPT ![c] = Idle] /\ UNCHANGED <<conn, held>>
    <2>1. UNCHANGED <<conn, held, backlog, client_q, main, worker, do_exit, handle, calls>>
      BY <1>0, <1>3
    <2> QED
      BY <1>0, <1>3, <2>1, LostKeeps
  <1> QED
    BY <1>1, <1>2, <1>3 DEF get_struct

LEMMA write_dataKeeps == ASSUME ProxyInv, NEW c \in Clients, write_data(c) PROVE ProxyInv'
  <1>0. /\ call[c].pc = "send" /\ call[c].pc \in Busy /\ call[c].pc \notin First
        /\ UNCHANGED <<held, backlog, client_q, main, worker, do_exit, handle, calls, failures, ghost>>
    BY DEF write_data, Busy, First, server
  <1>1. PICK i \in Conns, k \in ConnRecs, a \in CallRecs :
          /\ i = call[c].conn /\ k = conn[i] /\ k = K(c) /\ a = call[c]
          /\ k.client = c /\ k.cl = TRUE /\ Talk(c, a, k) /\ (Running => Answers(a, k))
    BY <1>0, InCall
  <1>2. PICK up : up = IF k.up = <<>> /\ k.sv THEN <<"data">> ELSE k.up
    OBVIOUS
  <1>3. up \in Seq(Requests \cup {"tail", "data"})
    <2>1. k.up \in Seq(Requests \cup {"tail", "data"})
      BY DEF ConnRecs
    <2>2. <<"data">> \in Seq(Requests \cup {"tail", "data"})
      OBVIOUS
    <2> QED
      BY <1>2, <2>1, <2>2
  <1>4. PICK k2 \in ConnRecs :
          /\ k2 = [client |-> c, up |-> up, down |-> k.down, cl |-> TRUE, sv |-> k.sv, ran |-> k.ran]
          /\ conn' = [conn EXCEPT ![i] = k2]
    <2>1. PICK k2 : k2 = [k EXCEPT !.up = up]
      OBVIOUS
    <2>2. k2 = [client |-> c, up |-> up, down |-> k.down, cl |-> TRUE, sv |-> k.sv, ran |-> k.ran]
      BY <1>1, <2>1 DEF ConnRecs
    <2>3. k2 \in ConnRecs
      BY <1>1, <1>3, <2>2 DEF ConnRecs
    <2>4. conn' = [conn EXCEPT ![i].up = IF @ = <<>> /\ k.sv THEN <<"data">> ELSE @]
      BY <1>1 DEF write_data
    <2>5. conn \in [Conns -> ConnRecs]
      BY DEF ProxyInv, ProxyType
    <2>6. conn' = [conn EXCEPT ![i] = [k EXCEPT !.up = up]]
      BY ONLY <1>1, <1>2, <2>4, <2>5
    <2> QED
      BY <2>1, <2>2, <2>3, <2>6
  <1>5. PICK b \in CallRecs :
          /\ b = [pc |-> "status2", conn |-> i, req |-> a.req, ret |-> a.ret, told |-> a.told]
          /\ call' = [call EXCEPT ![c] = b]
    <2>1. PICK b : b = [a EXCEPT !.pc = "status2"]
      OBVIOUS
    <2>2. b = [pc |-> "status2", conn |-> i, req |-> a.req, ret |-> a.ret, told |-> a.told]
      BY <1>1, <2>1 DEF CallRecs
    <2>3. b \in CallRecs
      BY <1>1, <2>2 DEF CallRecs, Busy
    <2> QED
      BY <1>1, <2>1, <2>2, <2>3 DEF write_data
  <1>6. /\ call \in [Clients -> CallRecs] /\ conn \in [Conns -> ConnRecs] /\ a.told = TRUE
    BY <1>1 DEF ProxyInv, ProxyType, CallOk
  <1>7. /\ call' \in [Clients -> CallRecs] /\ call'[c] = b /\ \A d \in Clients \ {c} : call'[d] = call[d]
        /\ conn' \in [Conns -> ConnRecs] /\ conn'[i] = k2 /\ \A j \in Conns \ {i} : conn'[j] = conn[j]
    BY ONLY <1>4, <1>5, <1>6
  <1>8. /\ k2.cl = TRUE /\ k2.client = c /\ k2.ran = k.ran /\ k2.down = k.down /\ k2.sv = k.sv
        /\ b.req = a.req /\ b.pc = "status2" /\ a.pc = "send"
    BY <1>0, <1>1, <1>4, <1>5
  <1>9. Talk(c, b, k2) /\ (Running => Answers(b, k2))
    BY ONLY <1>1, <1>8 DEF Talk, Answers, Truth, First
  <1>10. ASSUME NEW w \in WorkerRecs, w.pc \in Serving, Turn(w, k, a, handle)
         PROVE  Turn(w, k2, b, handle)
    <2>1. w.pc \in {"body", "answer"}
      BY ONLY <1>8, <1>10 DEF Turn, Fresh, Serving, First
    <2> QED
      BY ONLY <1>8, <1>10, <2>1 DEF Turn, First
  <1>11. ~QueuedOk(i)
    BY <1>0, <1>1 DEF QueuedOk, Fresh
  <1>12. b.pc \in Busy
    BY <1>5 DEF Busy
  <1>14. /\ call'[c].pc \in Busy /\ call'[c].conn = i /\ call'[c].req = call[c].req /\ call'[c].told = TRUE
         /\ conn'[i].client = c /\ conn'[i].cl = TRUE /\ conn'[i].sv = conn[i].sv /\ conn'[i].ran = conn[i].ran
    BY <1>1, <1>4, <1>5, <1>6, <1>7, <1>12
  <1>15. Talk(c, call'[c], conn'[i]) /\ (Running => Answers(call'[c], conn'[i]))
    BY <1>7, <1>9
  <1>16. \A w \in WorkerRecs : w.pc \in Serving /\ Turn(w, conn[i], call[c], handle) =>
           Turn(w, conn'[i], call'[c], handle)
    BY <1>1, <1>7, <1>10
  <1> QED
    BY <1>0, <1>1, <1>7, <1>11, <1>14, <1>15, <1>16, ClientMoves

LEMMA d_sendKeeps == ASSUME ProxyInv, NEW c \in Clients, d_send(c) PROVE ProxyInv'
  <1>0. /\ call[c].pc = "tails" /\ call[c].pc \in Busy /\ call[c].pc \in First
        /\ UNCHANGED <<held, backlog, client_q, main, worker, do_exit, handle, calls, failures, ghost>>
    BY DEF d_send, Busy, First, server
  <1>1. PICK i \in Conns, k \in ConnRecs, a \in CallRecs :
          /\ i = call[c].conn /\ k = conn[i] /\ k = K(c) /\ a = call[c]
          /\ k.client = c /\ k.cl = TRUE /\ Talk(c, a, k) /\ (Running => Answers(a, k)) /\ a.req \in Requests
    <2>1. /\ call[c].conn \in Conns /\ call[c] \in CallRecs /\ K(c) \in ConnRecs
          /\ K(c) = conn[call[c].conn] /\ K(c).client = c /\ K(c).cl = TRUE
          /\ call[c].req \in Requests /\ Talk(c, call[c], K(c)) /\ (Running => Answers(call[c], K(c)))
      BY <1>0, InCall
    <2> QED
      BY ONLY <2>1
  <1>2. PICK up : up = k.up \o [t \in 1..a.req.tails |-> "tail"]
    OBVIOUS
  <1>3. up \in Seq(Requests \cup {"tail", "data"}) /\ (k.up # <<>> => up # <<>> /\ Head(up) = Head(k.up))
    <2>1. k.up \in Seq(Requests \cup {"tail", "data"})
      BY DEF ConnRecs
    <2>2. a.req.tails \in Nat
      BY <1>1 DEF Requests
    <2>3. PICK q : q = [t \in 1..a.req.tails |-> "tail"]
      OBVIOUS
    <2>4. q \in Seq(Requests \cup {"tail", "data"})
      BY <2>2, <2>3
    <2>5. up = k.up \o q
      BY <1>2, <2>3
    <2>6. up \in Seq(Requests \cup {"tail", "data"})
      BY ONLY <2>1, <2>4, <2>5
    <2>7. Len(k.up) \in Nat /\ Len(up) = Len(k.up) + Len(q) /\ Len(q) \in Nat
          /\ \A n \in 1..Len(k.up) : up[n] = k.up[n]
      BY ONLY <2>1, <2>4, <2>5
    <2>8. k.up # <<>> => Len(k.up) > 0
      BY ONLY <2>1
    <2>9. k.up # <<>> => up # <<>> /\ up[1] = k.up[1]
      BY ONLY <2>6, <2>7, <2>8
    <2> QED
      BY ONLY <2>1, <2>6, <2>9
  <1>4. PICK k2 \in ConnRecs :
          /\ k2 = [client |-> c, up |-> up, down |-> k.down, cl |-> TRUE, sv |-> k.sv, ran |-> k.ran]
          /\ conn' = [conn EXCEPT ![i] = k2]
    <2>1. PICK k2 : k2 = [k EXCEPT !.up = up]
      OBVIOUS
    <2>2. k2 = [client |-> c, up |-> up, down |-> k.down, cl |-> TRUE, sv |-> k.sv, ran |-> k.ran]
      BY <1>1, <2>1 DEF ConnRecs
    <2>3. k2 \in ConnRecs
      BY <1>1, <1>3, <2>2 DEF ConnRecs
    <2>4. conn' = [conn EXCEPT ![i].up = @ \o [t \in 1..a.req.tails |-> "tail"]]
      BY <1>1 DEF d_send
    <2>5. conn \in [Conns -> ConnRecs]
      BY DEF ProxyInv, ProxyType
    <2>6. conn' = [conn EXCEPT ![i] = [k EXCEPT !.up = up]]
      BY ONLY <1>1, <1>2, <2>4, <2>5
    <2> QED
      BY <2>1, <2>2, <2>3, <2>6
  <1>5. PICK b \in CallRecs :
          /\ b = [pc |-> "status", conn |-> i, req |-> a.req, ret |-> a.ret, told |-> a.told]
          /\ call' = [call EXCEPT ![c] = b]
    <2>1. PICK b : b = [a EXCEPT !.pc = "status"]
      OBVIOUS
    <2>2. b = [pc |-> "status", conn |-> i, req |-> a.req, ret |-> a.ret, told |-> a.told]
      BY <1>1, <2>1 DEF CallRecs
    <2>3. b \in CallRecs
      BY <1>1, <2>2 DEF CallRecs, Busy, First
    <2> QED
      BY <1>1, <2>1, <2>2, <2>3 DEF d_send
  <1>6. /\ call \in [Clients -> CallRecs] /\ conn \in [Conns -> ConnRecs] /\ a.told = TRUE
    BY <1>1 DEF ProxyInv, ProxyType, CallOk
  <1>7. /\ call' \in [Clients -> CallRecs] /\ call'[c] = b /\ \A d \in Clients \ {c} : call'[d] = call[d]
        /\ conn' \in [Conns -> ConnRecs] /\ conn'[i] = k2 /\ \A j \in Conns \ {i} : conn'[j] = conn[j]
    BY ONLY <1>4, <1>5, <1>6
  <1>8. /\ k2.cl = TRUE /\ k2.client = c /\ k2.ran = k.ran /\ k2.down = k.down /\ k2.sv = k.sv /\ k.client = c
        /\ b.req = a.req /\ b.pc = "status" /\ a.pc = "tails" /\ k2.up = up
    BY <1>0, <1>1, <1>4, <1>5
  <1>9. Talk(c, b, k2) /\ (Running => Answers(b, k2))
    BY ONLY <1>1, <1>8 DEF Talk, Answers, Truth, First
  <1>10. ASSUME NEW w \in WorkerRecs, w.pc \in Serving, Turn(w, k, a, handle)
         PROVE  Turn(w, k2, b, handle)
    BY ONLY <1>8, <1>10 DEF Turn, Fresh, First
  <1>11. conn[i].sv = TRUE /\ QueuedOk(i) =>
           /\ call'[c].pc \in First /\ conn'[i].down = <<>> /\ conn'[i].up # <<>>
           /\ Head(conn'[i].up) = Head(conn[i].up)
    BY <1>1, <1>3, <1>7, <1>8 DEF QueuedOk, First
  <1>12. b.pc \in Busy
    BY <1>5 DEF Busy, First
  <1>14. /\ call'[c].pc \in Busy /\ call'[c].conn = i /\ call'[c].req = call[c].req /\ call'[c].told = TRUE
         /\ conn'[i].client = c /\ conn'[i].cl = TRUE /\ conn'[i].sv = conn[i].sv /\ conn'[i].ran = conn[i].ran
    BY <1>1, <1>4, <1>5, <1>6, <1>7, <1>12
  <1>15. Talk(c, call'[c], conn'[i]) /\ (Running => Answers(call'[c], conn'[i]))
    BY <1>7, <1>9
  <1>16. \A w \in WorkerRecs : w.pc \in Serving /\ Turn(w, conn[i], call[c], handle) =>
           Turn(w, conn'[i], call'[c], handle)
    BY <1>1, <1>7, <1>10
  <1> QED
    BY <1>0, <1>1, <1>7, <1>11, <1>14, <1>15, <1>16, ClientMoves

\* A client that is in no call has nothing in the proxy.
LEMMA NotInCall ==
    ASSUME ProxyInv, NEW c \in Clients, call[c].pc \in {"done", "connect"}
    PROVE  /\ \A j \in Conns : conn[j].sv = TRUE => conn[j].client # c
           /\ call[c].pc \notin Busy /\ call[c].pc # "dead"
           /\ \A h : ~Closed(c, h) /\ ~Gets(c, h)
  <1>1. call[c].pc \notin Busy /\ call[c].pc # "dead"
    BY DEF Busy, First
  <1> QED
    BY <1>1 DEF ProxyInv, ConnOk, Closed, Gets

\* A step in which a client outside a call changes nothing but its call record.
LEMMA OutsideKeeps ==
    ASSUME ProxyInv, NEW c \in Clients, call[c].pc \in {"done", "connect"},
           call' \in [Clients -> CallRecs], \A d \in Clients \ {c} : call'[d] = call[d],
           call'[c].pc \in {"done", "connect"}, call'[c].told = TRUE,
           call'[c].pc = "connect" =>
             call'[c].req \in Requests /\ (call'[c].req.type \in Closes => call'[c].req.h \in held[c]),
           calls' \in Nat,
           UNCHANGED <<held, conn, backlog, client_q, main, worker, do_exit, handle, failures, ghost>>
    PROVE  ProxyInv'
  <1>1. /\ handle' = handle /\ worker' = worker /\ (Running' <=> Running) /\ main' = main /\ conn' = conn
        /\ held' = held /\ ghost' = ghost
    BY DEF Running
  <1>2. \A j \in Conns : conn[j].sv = TRUE => conn[j].client # c
    BY NotInCall
  <1>3. NoConn \notin Conns
    BY DEF NoConn, Conns
  <1>4. Frame(c, NoConn)
    BY <1>1, <1>2, <1>3 DEF Frame
  <1>5. call'[c].pc \notin Busy /\ call'[c].pc # "dead" /\ call[c].pc # "dead"
    BY DEF Busy, First
  <1>6. CallOk(c)'
    BY <1>1, <1>5 DEF CallOk
  <1>7. OwnsOk(c)'
    <2>1. \A h : ~Closed(c, h)' /\ ~Gets(c, h)' /\ ~Closed(c, h) /\ ~Gets(c, h)
      BY <1>5, NotInCall DEF Closed, Gets
    <2>2. OwnsOk(c)
      BY DEF ProxyInv
    <2> QED
      BY ONLY <1>1, <1>5, <2>1, <2>2 DEF OwnsOk
  <1>8. ASSUME NEW w \in Workers PROVE WorkerOk(w)'
    <2>1. worker[w].conn # NoConn \/ worker[w].pc \notin Serving \/ ~Running
      BY <1>3 DEF ProxyInv, WorkerOk
    <2>2. CASE ~Running
      BY <1>1, <2>2 DEF WorkerOk
    <2> QED
      BY <1>1, <1>4, <2>1, <2>2, FrameKeeps
  <1>9. PlacesOk' /\ \A j \in Conns : Queued(j)' <=> Queued(j)
    BY <1>1, PlacesStay
  <1>10. ProxyType'
    BY <1>1 DEF ProxyInv, ProxyType
  <1>11. CrashHasCause'
    BY <1>1, <1>5 DEF ProxyInv, CrashHasCause, Crashed
  <1> QED
    BY <1>3, <1>4, <1>6, <1>7, <1>8, <1>9, <1>10, <1>11, FrameKeeps DEF ProxyInv

LEMMA CallKeeps ==
    ASSUME ProxyInv, NEW c \in Clients, NEW req, req.type \in Makes[c] => req \in Requests,
           req.type \in Closes => req.h \in held[c], Call(c, req)
    PROVE  ProxyInv'
  <1>1. req \in Requests /\ call[c].pc = "done"
    BY DEF Call
  <1>2. PICK a : a = [Idle EXCEPT !.pc = "connect", !.req = req]
    OBVIOUS
  <1>3. a = [pc |-> "connect", conn |-> NoConn, req |-> req, ret |-> 0, told |-> TRUE]
    BY ONLY <1>2 DEF Idle
  <1>4. a \in CallRecs
    BY ONLY <1>1, <1>3 DEF CallRecs
  <1>5. call' = [call EXCEPT ![c] = a] /\ call \in [Clients -> CallRecs] /\ calls \in Nat /\ calls' = calls + 1
    BY <1>2 DEF Call, ProxyInv, ProxyType
  <1>6. call' \in [Clients -> CallRecs] /\ call'[c] = a /\ \A d \in Clients \ {c} : call'[d] = call[d]
    BY ONLY <1>4, <1>5
  <1>7. calls' \in Nat
    BY ONLY <1>5
  <1>8. call'[c].pc = "connect" /\ call'[c].told = TRUE /\ call'[c].req = req
    BY <1>3, <1>6
  <1>9. UNCHANGED <<held, conn, backlog, client_q, main, worker, do_exit, handle, failures, ghost>>
    BY DEF Call, server
  <1> QED
    BY <1>1, <1>6, <1>7, <1>8, <1>9, OutsideKeeps

LEMMA CallsKeep == ASSUME ProxyInv, NEW c \in Clients, Calls(c) PROVE ProxyInv'
  <1>1. ASSUME NEW type, NEW h \in Handles \cup {0}, NEW t \in 0..2, type \in Closes => h \in held[c],
               Call(c, Request(type, h, t))
        PROVE  ProxyInv'
    <2>1. PICK req : req = Request(type, h, t)
      OBVIOUS
    <2>2. req = [type |-> type, h |-> h, tails |-> t]
      BY <2>1 DEF Request
    <2>3. req.type = type /\ req.h = h /\ (type \in Makes[c] => req \in Requests)
      BY <2>2 DEF Requests, Types
    <2>4. /\ req.type \in Makes[c] => req \in Requests
          /\ req.type \in Closes => req.h \in held[c]
          /\ Call(c, req)
      BY <1>1, <2>1, <2>3
    <2> QED
      BY ONLY ProxyInv, c \in Clients, <2>4, CallKeeps
  <1>2. ASSUME NEW type, type \notin Closes, PathCall(c, type) PROVE ProxyInv'
    <2>1. PICK t \in Tails(type, 1) : Call(c, Request(type, 0, t))
      BY <1>2 DEF PathCall
    <2>2. t \in 0..2
      BY DEF Tails
    <2> QED
      BY <1>1, <1>2, <2>1, <2>2
  <1>3. ASSUME NEW type, NEW H, HandleCall(c, type, H) PROVE ProxyInv'
    <2>1. PICK h \in held[c] \cap H : Call(c, Request(type, h, 0))
      BY <1>3 DEF HandleCall
    <2>2. h \in Handles
      BY DEF ProxyInv, ProxyType
    <2> QED
      BY <1>1, <2>1, <2>2
  <1>4. CASE xpn_rename(c)
    <2>1. PICK t \in Tails("RENAME", 2) : Call(c, Request("RENAME", 0, t))
      BY <1>4 DEF xpn_rename
    <2>2. t \in 0..2
      BY DEF Tails
    <2> QED
      BY <1>1, <2>1, <2>2 DEF Closes
  <1>5. CASE xpn_open(c) \/ xpn_creat(c) \/ xpn_unlink(c) \/ xpn_stat(c) \/ xpn_mkdir(c) \/ xpn_rmdir(c)
             \/ xpn_opendir(c)
    BY <1>2, <1>5 DEF xpn_open, xpn_creat, xpn_unlink, xpn_stat, xpn_mkdir, xpn_rmdir, xpn_opendir, Closes
  <1>6. CASE xpn_read(c) \/ xpn_write(c) \/ xpn_readdir(c) \/ xpn_close(c) \/ xpn_closedir(c)
    BY <1>3, <1>6 DEF xpn_read, xpn_write, xpn_readdir, xpn_close, xpn_closedir
  <1> QED
    BY <1>4, <1>5, <1>6 DEF Calls

-----------------------------------------------------------------------------
(* Connections that come in *)

\* A new connection i, at the end of the backlog: made by a call, or by a client that
\* died before it sent anything.
LEMMA ConnectKeeps ==
    ASSUME ProxyInv, Running, NEW c \in Clients, NEW i \in Conns, call[c].pc = "connect", conn[i] = Free,
           call' \in [Clients -> CallRecs], \A d \in Clients \ {c} : call'[d] = call[d],
           conn' \in [Conns -> ConnRecs], \A j \in Conns \ {i} : conn'[j] = conn[j],
           held' \in [Clients -> SUBSET Handles], \A d \in Clients \ {c} : held'[d] = held[d],
           conn'[i].client = c, conn'[i].sv = TRUE, conn'[i].down = <<>>, conn'[i].ran = <<>>,
           call'[c].told = TRUE,
           \/ /\ call'[c].pc \in First /\ call'[c].conn = i /\ call'[c].req = call[c].req
              /\ conn'[i].cl = TRUE /\ conn'[i].up = <<call[c].req>> /\ held'[c] = held[c]
           \/ call'[c].pc = "dead" /\ held'[c] = {} /\ conn'[i].cl = FALSE /\ conn'[i].up = <<>>,
           backlog' = Append(backlog, i), failures' \in Nat,
           UNCHANGED <<client_q, main, worker, do_exit, handle, calls, ghost>>
    PROVE  ProxyInv'
  <1>1. /\ handle' = handle /\ worker' = worker /\ (Running' <=> Running) /\ main' = main
        /\ ghost' = ghost /\ client_q' = client_q
    BY DEF Running
  <1>2. /\ \A j \in Conns : conn[j].sv = TRUE => conn[j].client # c
        /\ conn[i].client = Nobody /\ conn[i].sv = FALSE /\ c # Nobody
    BY NotInCall, FreeIsConn, ProxyAssumption
  <1>3. Frame(c, i)
    BY <1>1, <1>2 DEF Frame
  <1>4. /\ call[c].req \in Requests /\ (call[c].req.type \in Closes => call[c].req.h \in held[c])
        /\ OwnsOk(c) /\ backlog \in Seq(Conns)
    BY DEF ProxyInv, CallOk, ProxyType
  <1>5. ~Queued(i) /\ \A w \in Workers : ~ServedBy(w, i)
    BY <1>2 DEF ProxyInv, QueuedOk, WorkerOk, ServedBy, C
  <1>6. ASSUME call'[c].pc \in First
        PROVE  /\ CallOk(c)' /\ OwnsOk(c)' /\ QueuedOk(i)' /\ CrashHasCause'
               /\ call'[c].pc = "dead" \/ (call'[c].pc \in Busy /\ call'[c].conn = i)
    <2>0. /\ call'[c].pc \in Busy /\ call'[c].conn = i /\ call'[c].req = call[c].req /\ call'[c].pc # "dead"
          /\ conn'[i].cl = TRUE /\ conn'[i].up = <<call[c].req>> /\ held'[c] = held[c] /\ K(c)' = conn'[i]
      BY <1>6 DEF Busy, First, K
    <2>1. Talk(c, call'[c], conn'[i]) /\ Answers(call'[c], conn'[i])
      <3>1. call'[c].pc \notin {"data", "send", "status2", "more"}
        BY <1>6 DEF First
      <3>2. DOMAIN conn'[i].down = {}
        OBVIOUS
      <3> QED
        BY <2>0, <3>1, <3>2 DEF Talk, Answers
    <2>2. CallOk(c)'
      BY <1>4, <2>0, <2>1 DEF CallOk
    <2>3. ASSUME NEW h \in Handles PROVE ~Closed(c, h)' /\ ~Gets(c, h)' /\ ~Closed(c, h) /\ ~Gets(c, h)
      <3>1. ~Closed(c, h) /\ ~Gets(c, h)
        BY NotInCall
      <3>2. K(c)'.ran = <<>>
        BY <2>0
      <3> QED
        BY <3>1, <3>2 DEF Closed, Gets
    <2>4. OwnsOk(c)'
      BY <1>1, <1>4, <2>0, <2>3 DEF OwnsOk
    <2>5. QueuedOk(i)'
      <3>1. \A h \in Handles : h \in held[c] => handle[h] = c
        BY <1>4, <2>3 DEF OwnsOk
      <3>2. call[c].req.type \in Closes => call[c].req.h \in Handles /\ handle'[call[c].req.h] = c
        BY <1>1, <1>4, <3>1 DEF ProxyInv, ProxyType
      <3>3. Head(conn'[i].up) = call[c].req /\ conn'[i].up # <<>>
        BY <2>0
      <3>4. Fresh(conn'[i], call'[c], call[c].req, handle')
        BY <1>4, <1>6, <2>0, <3>2 DEF Fresh
      <3> QED
        BY <3>3, <3>4 DEF QueuedOk
    <2>6. CrashHasCause'
      BY <1>1 DEF CrashHasCause, Crashed, Running
    <2> QED
      BY <2>0, <2>2, <2>4, <2>5, <2>6
  <1>7. ASSUME call'[c].pc = "dead"
        PROVE  /\ CallOk(c)' /\ OwnsOk(c)' /\ QueuedOk(i)' /\ CrashHasCause'
               /\ call'[c].pc = "dead" \/ (call'[c].pc \in Busy /\ call'[c].conn = i)
    <2>0. /\ call'[c].pc \notin Busy \cup {"connect"} /\ held'[c] = {} /\ conn'[i].cl = FALSE /\ conn'[i].up = <<>>
      BY <1>7 DEF Busy, First
    <2>1. CallOk(c)'
      BY <2>0 DEF CallOk
    <2>2. OwnsOk(c)'
      BY <1>7 DEF OwnsOk
    <2>3. QueuedOk(i)'
      BY <2>0 DEF QueuedOk
    <2>4. CrashHasCause'
      BY <1>1 DEF CrashHasCause, Crashed, Running
    <2> QED
      BY <1>7, <2>1, <2>2, <2>3, <2>4
  <1>8. /\ CallOk(c)' /\ OwnsOk(c)' /\ QueuedOk(i)' /\ CrashHasCause'
        /\ call'[c].pc = "dead" \/ (call'[c].pc \in Busy /\ call'[c].conn = i)
    BY <1>6, <1>7
  <1>9. ConnOk(i)'
    <2>1. \A j \in Conns : conn'[j].sv = TRUE /\ conn'[j].client = c => j = i
      BY <1>2
    <2> QED
      BY <1>1, <1>8, <2>1 DEF ConnOk
  <1>10. ASSUME NEW w \in Workers PROVE WorkerOk(w)'
    <2>1. worker[w].conn # i \/ worker[w].pc \notin Serving
      BY <1>5 DEF ServedBy
    <2> QED
      BY <1>1, <1>3, <2>1, FrameKeeps
  <1>11. /\ Len(backlog') = Len(backlog) + 1 /\ Len(backlog) \in Nat /\ backlog' \in Seq(Conns)
         /\ \A n \in 1..Len(backlog) : backlog'[n] = backlog[n]
         /\ backlog'[Len(backlog) + 1] = i
    BY ONLY <1>4, backlog' = Append(backlog, i), i \in Conns
  <1>12. /\ DOMAIN backlog = 1..Len(backlog) /\ DOMAIN backlog' = 1..(Len(backlog) + 1)
    BY ONLY <1>4, <1>11
  <1>13. \A n \in DOMAIN backlog' : (n \in DOMAIN backlog /\ backlog'[n] = backlog[n])
                                    \/ (n = Len(backlog) + 1 /\ backlog'[n] = i)
    BY ONLY <1>11, <1>12
  <1>14. \A n \in DOMAIN backlog : n \in DOMAIN backlog' /\ backlog'[n] = backlog[n]
    BY ONLY <1>11, <1>12
  <1>15. \A j : Queued(j)' <=> Queued(j) \/ j = i
    <2>1. Len(backlog) + 1 \in DOMAIN backlog'
      BY ONLY <1>11, <1>12
    <2> QED
      BY <1>1, <1>11, <1>13, <1>14, <2>1 DEF Queued
  <1>16. PlacesOk'
    <2>0. PlacesOk
      BY DEF ProxyInv
    <2>1. \A n \in DOMAIN backlog : backlog[n] # i
      BY <1>5 DEF Queued
    <2>2. \A n \in DOMAIN client_q : client_q[n] # i
      BY <1>5 DEF Queued
    <2>3. \A m, n \in DOMAIN backlog' : backlog'[m] = backlog'[n] => m = n
      BY <1>13, <2>0, <2>1 DEF PlacesOk
    <2>4. \A m \in DOMAIN backlog', n \in DOMAIN client_q' : backlog'[m] # client_q'[n]
      BY <1>1, <1>13, <2>0, <2>2 DEF PlacesOk
    <2>5. \A w \in Workers, j \in Conns : ServedBy(w, j)' <=> ServedBy(w, j)
      BY <1>1 DEF ServedBy
    <2>6. \A w \in Workers, j \in Conns : ServedBy(w, j)' =>
            ~Queued(j)' /\ \A v \in Workers : ServedBy(v, j)' => v = w
      BY <1>5, <1>15, <2>0, <2>5 DEF PlacesOk
    <2>7. \A j \in Conns : conn'[j].sv = TRUE => Queued(j)' \/ \E w \in Workers : ServedBy(w, j)'
      BY <1>15, <2>0, <2>5 DEF PlacesOk
    <2>8. \A m, n \in DOMAIN client_q' : client_q'[m] = client_q'[n] => m = n
      BY <1>1, <2>0 DEF PlacesOk
    <2> QED
      BY ONLY <2>3, <2>4, <2>6, <2>7, <2>8 DEF PlacesOk
  <1>17. ProxyType'
    BY <1>1, <1>11 DEF ProxyInv, ProxyType
  <1> QED
    BY <1>3, <1>8, <1>9, <1>10, <1>15, <1>16, <1>17, FrameKeeps DEF ProxyInv

LEMMA d_connectKeeps == ASSUME ProxyInv, NEW c \in Clients, d_connect(c) PROVE ProxyInv'
  <1>0. /\ call[c].pc = "connect" /\ call \in [Clients -> CallRecs] /\ conn \in [Conns -> ConnRecs]
        /\ call[c] \in CallRecs /\ call[c].req \in Requests /\ call[c].told = TRUE
        /\ held \in [Clients -> SUBSET Handles] /\ failures \in Nat
        /\ UNCHANGED <<held, client_q, main, worker, do_exit, handle, calls, failures, ghost>>
    BY DEF d_connect, ProxyInv, ProxyType, CallOk
  <1>1. CASE /\ ~Running /\ call' = [call EXCEPT ![c] = Idle] /\ UNCHANGED <<conn, backlog>>
    <2>1. call' \in [Clients -> CallRecs] /\ call'[c] = Idle /\ \A d \in Clients \ {c} : call'[d] = call[d]
      BY <1>0, <1>1, IdleIsCall
    <2>2. call'[c].pc = "done" /\ call'[c].told = TRUE /\ calls' \in Nat
      BY <1>0, <2>1, IdleIsCall DEF ProxyInv, ProxyType
    <2>3. UNCHANGED <<held, conn, backlog, client_q, main, worker, do_exit, handle, failures, ghost>>
      BY <1>0, <1>1
    <2> QED
      BY <1>0, <2>1, <2>2, <2>3, OutsideKeeps
  <1>2. ASSUME Running, NEW i \in Conns, conn[i] = Free,
               conn' = [conn EXCEPT ![i] = [Free EXCEPT !.client = c, !.cl = TRUE, !.sv = TRUE, !.up = <<call[c].req>>]],
               call' = [call EXCEPT ![c].conn = i, ![c].pc = IF call[c].req.tails = 0 THEN "status" ELSE "tails"],
               backlog' = Append(backlog, i)
        PROVE  ProxyInv'
    <2>1. PICK k : k = [Free EXCEPT !.client = c, !.cl = TRUE, !.sv = TRUE, !.up = <<call[c].req>>]
      OBVIOUS
    <2>2. k = [client |-> c, up |-> <<call[c].req>>, down |-> <<>>, cl |-> TRUE, sv |-> TRUE, ran |-> <<>>]
      BY ONLY <2>1 DEF Free
    <2>3. <<call[c].req>> \in Seq(Requests \cup {"tail", "data"}) /\ <<>> \in Seq(Items) /\ <<>> \in Seq(Int)
      BY ONLY <1>0
    <2>4. k \in ConnRecs
      BY ONLY <2>2, <2>3, c \in Clients DEF ConnRecs
    <2>5. conn' \in [Conns -> ConnRecs] /\ conn'[i] = k /\ \A j \in Conns \ {i} : conn'[j] = conn[j]
      BY ONLY <1>0, <1>2, <2>1, <2>4
    <2>6. PICK pc \in First : pc = IF call[c].req.tails = 0 THEN "status" ELSE "tails"
      BY DEF First
    <2>7. PICK a : a = [pc |-> pc, conn |-> i, req |-> call[c].req, ret |-> call[c].ret, told |-> call[c].told]
      OBVIOUS
    <2>8. a \in CallRecs
      BY ONLY <1>0, <2>7, i \in Conns, pc \in First DEF CallRecs, Busy
    <2>9. [call[c] EXCEPT !.conn = i, !.pc = pc] = a
      <3>1. PICK x \in CallRecs : x = call[c]
        BY <1>0
      <3>2. PICK b : b = [x EXCEPT !.conn = i, !.pc = pc]
        OBVIOUS
      <3>3. b = [pc |-> pc, conn |-> i, req |-> x.req, ret |-> x.ret, told |-> x.told]
        BY ONLY x \in CallRecs, <3>2 DEF CallRecs
      <3> QED
        BY ONLY <2>7, <3>1, <3>2, <3>3
    <2>10. call' = [call EXCEPT ![c].conn = i, ![c].pc = pc]
      BY <1>2, <2>6
    <2>11. call' = [call EXCEPT ![c] = [call[c] EXCEPT !.conn = i, !.pc = pc]]
      BY ONLY <1>0, <2>10, c \in Clients DEF CallRecs
    <2>12. call' \in [Clients -> CallRecs] /\ call'[c] = a /\ \A d \in Clients \ {c} : call'[d] = call[d]
      BY ONLY <1>0, <2>8, <2>9, <2>11
    <2>13. /\ conn'[i].client = c /\ conn'[i].sv = TRUE /\ conn'[i].down = <<>> /\ conn'[i].ran = <<>>
           /\ call'[c].told = TRUE
           /\ call'[c].pc \in First /\ call'[c].conn = i /\ call'[c].req = call[c].req
           /\ conn'[i].cl = TRUE /\ conn'[i].up = <<call[c].req>> /\ held'[c] = held[c]
           /\ held' \in [Clients -> SUBSET Handles] /\ \A d \in Clients \ {c} : held'[d] = held[d]
      BY <1>0, <2>2, <2>5, <2>7, <2>12
    <2>14. failures' \in Nat /\ UNCHANGED <<client_q, main, worker, do_exit, handle, calls, ghost>>
      BY <1>0
    <2> QED
      BY <1>0, <1>2, <2>5, <2>12, <2>13, <2>14, ConnectKeeps
  <1> QED
    BY <1>1, <1>2 DEF d_connect

LEMMA DiesConnectedKeeps == ASSUME ProxyInv, NEW c \in Clients, DiesConnected(c) PROVE ProxyInv'
  <1>0. /\ call[c].pc = "connect" /\ call \in [Clients -> CallRecs] /\ conn \in [Conns -> ConnRecs]
        /\ held \in [Clients -> SUBSET Handles] /\ failures \in Nat /\ Running
        /\ failures' = failures + 1 /\ held' = [held EXCEPT ![c] = {}]
        /\ call' = [call EXCEPT ![c] = [Idle EXCEPT !.pc = "dead"]]
        /\ UNCHANGED <<client_q, main, worker, do_exit, handle, calls, ghost>>
    BY DEF DiesConnected, ProxyInv, ProxyType
  <1>1. PICK i \in Conns : /\ conn[i] = Free /\ conn' = [conn EXCEPT ![i] = [Free EXCEPT !.client = c, !.sv = TRUE]]
                           /\ backlog' = Append(backlog, i)
    BY DEF DiesConnected
  <1>2. PICK k : k = [Free EXCEPT !.client = c, !.sv = TRUE]
    OBVIOUS
  <1>3. k = [client |-> c, up |-> <<>>, down |-> <<>>, cl |-> FALSE, sv |-> TRUE, ran |-> <<>>]
    BY ONLY <1>2 DEF Free
  <1>4. k \in ConnRecs
    <2>1. <<>> \in Seq(Requests \cup {"tail", "data"}) /\ <<>> \in Seq(Items) /\ <<>> \in Seq(Int)
      OBVIOUS
    <2> QED
      BY ONLY <1>3, <2>1, c \in Clients DEF ConnRecs
  <1>5. conn' \in [Conns -> ConnRecs] /\ conn'[i] = k /\ \A j \in Conns \ {i} : conn'[j] = conn[j]
    BY ONLY <1>0, <1>1, <1>2, <1>4
  <1>6. PICK a : a = [Idle EXCEPT !.pc = "dead"]
    OBVIOUS
  <1>7. a = [pc |-> "dead", conn |-> NoConn, req |-> <<>>, ret |-> 0, told |-> TRUE]
    BY ONLY <1>6 DEF Idle
  <1>8. a \in CallRecs
    BY ONLY <1>7 DEF CallRecs
  <1>9. call' \in [Clients -> CallRecs] /\ call'[c] = a /\ \A d \in Clients \ {c} : call'[d] = call[d]
    BY ONLY <1>0, <1>6, <1>8
  <1>10. held' \in [Clients -> SUBSET Handles] /\ held'[c] = {} /\ \A d \in Clients \ {c} : held'[d] = held[d]
    BY ONLY <1>0, c \in Clients
  <1>11. failures' \in Nat
    BY ONLY <1>0
  <1>12. /\ conn'[i].client = c /\ conn'[i].sv = TRUE /\ conn'[i].down = <<>> /\ conn'[i].ran = <<>>
         /\ call'[c].told = TRUE
         /\ call'[c].pc = "dead" /\ held'[c] = {} /\ conn'[i].cl = FALSE /\ conn'[i].up = <<>>
    BY <1>3, <1>5, <1>7, <1>9, <1>10
  <1> QED
    BY <1>0, <1>1, <1>5, <1>9, <1>10, <1>11, <1>12, ConnectKeeps

\* A client ends: what the proxy still serves of it goes on, the rest is gone.
LEMMA DiesKeeps == ASSUME ProxyInv, NEW c \in Clients, Dies(c) PROVE ProxyInv'
  <1>0. /\ call \in [Clients -> CallRecs] /\ conn \in [Conns -> ConnRecs]
        /\ held \in [Clients -> SUBSET Handles] /\ failures \in Nat
        /\ failures' = failures + 1 /\ held' = [held EXCEPT ![c] = {}]
        /\ call' = [call EXCEPT ![c] = [Idle EXCEPT !.pc = "dead"]]
        /\ conn' = [i \in Conns |-> IF conn[i].client = c THEN HalfClosed(conn[i], "cl") ELSE conn[i]]
        /\ UNCHANGED <<backlog, client_q, main, worker, do_exit, handle, calls, ghost>>
    BY DEF Dies, ProxyInv, ProxyType, server
  <1>1. /\ handle' = handle /\ worker' = worker /\ (Running' <=> Running) /\ main' = main
        /\ ghost' = ghost /\ client_q' = client_q /\ backlog' = backlog
    BY <1>0 DEF Running
  <1>2. call' \in [Clients -> CallRecs] /\ call'[c].pc = "dead" /\ call'[c].told = TRUE
        /\ \A d \in Clients \ {c} : call'[d] = call[d]
    <2>1. PICK a : a = [Idle EXCEPT !.pc = "dead"]
      OBVIOUS
    <2>2. a = [pc |-> "dead", conn |-> NoConn, req |-> <<>>, ret |-> 0, told |-> TRUE]
      BY ONLY <2>1 DEF Idle
    <2>3. a \in CallRecs
      BY ONLY <2>2 DEF CallRecs
    <2>4. call' \in [Clients -> CallRecs] /\ call'[c] = a /\ \A d \in Clients \ {c} : call'[d] = call[d]
      BY ONLY <1>0, <2>1, <2>3
    <2> QED
      BY ONLY <2>2, <2>4
  <1>3. held' \in [Clients -> SUBSET Handles] /\ held'[c] = {} /\ \A d \in Clients \ {c} : held'[d] = held[d]
    BY ONLY <1>0, c \in Clients
  <1>4. ASSUME NEW j \in Conns
        PROVE  /\ conn'[j] \in ConnRecs
               /\ conn[j].client # c => conn'[j] = conn[j]
               /\ conn[j].client = c => conn'[j].cl = FALSE
               /\ conn[j].sv = TRUE =>
                    /\ conn'[j].sv = TRUE /\ conn'[j].client = conn[j].client /\ conn'[j].up = conn[j].up
                    /\ conn'[j].down = conn[j].down /\ conn'[j].ran = conn[j].ran
               /\ conn[j].sv # TRUE => conn'[j].sv # TRUE
    <2>1. conn'[j] = IF conn[j].client = c THEN HalfClosed(conn[j], "cl") ELSE conn[j]
      BY <1>0
    <2>2. conn[j] \in ConnRecs
      BY <1>0
    <2>3. CASE conn[j].client # c
      BY <2>1, <2>2, <2>3
    <2>4. CASE conn[j].client = c
      BY <2>1, <2>2, <2>4, ClientEndClosed, FreeIsConn
    <2> QED
      BY <2>3, <2>4
  <1>5. conn' \in [Conns -> ConnRecs]
    <2>1. conn' = [j \in Conns |-> conn'[j]]
      BY <1>0
    <2> QED
      BY ONLY <1>4, <2>1
  <1>6. PICK i \in Conns \cup {NoConn} :
          /\ i \in Conns => conn[i].sv = TRUE /\ conn[i].client = c
          /\ \A j \in Conns \ {i} : conn[j].sv = TRUE => conn[j].client # c
    <2>1. CASE \E i \in Conns : conn[i].sv = TRUE /\ conn[i].client = c
      BY <2>1, OneServed
    <2>2. CASE ~\E i \in Conns : conn[i].sv = TRUE /\ conn[i].client = c
      BY <2>2 DEF NoConn, Conns
    <2> QED
      BY <2>1, <2>2
  <1>7. Frame(c, i)
    BY <1>1, <1>2, <1>3, <1>4, <1>6 DEF Frame
  <1>8. CallOk(c)' /\ OwnsOk(c)'
    <2>1. call'[c].pc \notin Busy \cup {"connect"}
      BY <1>2 DEF Busy, First
    <2> QED
      BY <1>2, <1>3, <2>1 DEF CallOk, OwnsOk
  <1>9. ASSUME i \in Conns
        PROVE  /\ ConnOk(i)' /\ (Queued(i) => QueuedOk(i)')
               /\ \A w \in Workers : worker[w].conn = i => WorkerOk(w)'
    <2>1. /\ conn[i].sv = TRUE /\ conn[i].client = c /\ conn'[i].client = c /\ conn'[i].cl = FALSE
          /\ conn'[i].sv = TRUE /\ conn'[i].up = conn[i].up
          /\ conn'[i].down = conn[i].down /\ conn'[i].ran = conn[i].ran
      BY <1>4, <1>6, <1>9
    <2>2. ConnOk(i)'
      <3>1. \A j \in Conns : conn'[j].sv = TRUE /\ conn'[j].client = c => j = i
        BY <1>4, <1>6
      <3>2. ConnOk(i)
        BY <1>9 DEF ProxyInv
      <3> QED
        BY <1>1, <1>2, <2>1, <3>1, <3>2 DEF ConnOk
    <2>3. ASSUME NEW r, Fresh(conn[i], call[c], r, handle) PROVE Fresh(conn'[i], call'[c], r, handle')
      BY ONLY <1>1, <1>2, <2>1, <2>3 DEF Fresh
    <2>4. Queued(i) => QueuedOk(i)'
      BY <1>9, <2>1, <2>3 DEF ProxyInv, QueuedOk
    <2>5. ASSUME NEW w \in Workers, worker[w].conn = i PROVE WorkerOk(w)'
      <3>1. WorkerOk(w) /\ C(w) = conn[i] /\ C(w)' = conn'[i]
        BY <1>1, <2>5 DEF ProxyInv, C
      <3> SUFFICES ASSUME Running, worker[w].pc \in Serving
                   PROVE  Turn(worker[w], conn'[i], call'[c], handle')
        BY <1>1, <1>9, <2>1, <2>5, <3>1 DEF WorkerOk
      <3>2. Turn(worker[w], conn[i], call[c], handle)
        BY <2>1, <3>1 DEF WorkerOk
      <3> QED
        BY ONLY <1>1, <1>2, <2>1, <2>3, <3>2 DEF Turn
    <2> QED
      BY <2>2, <2>4, <2>5
  <1>10. ASSUME NEW w \in Workers PROVE WorkerOk(w)'
    <2>1. CASE worker[w].conn = i /\ i \in Conns
      BY <1>9, <2>1
    <2>2. CASE ~Running
      BY <1>1, <2>2 DEF WorkerOk
    <2>3. CASE worker[w].conn # i
      BY <1>1, <1>7, <2>3, FrameKeeps
    <2>4. CASE Running /\ worker[w].conn = i /\ i \notin Conns
      <3>1. worker[w].pc \notin Serving
        BY <2>4 DEF ProxyInv, WorkerOk
      <3> QED
        BY <1>1, <3>1 DEF WorkerOk
    <2> QED
      BY <2>1, <2>2, <2>3, <2>4
  <1>11. PlacesOk' /\ \A j \in Conns : Queued(j)' <=> Queued(j)
    <2>1. \A w \in Workers : worker[w].pc \in Serving => worker'[w].pc \in Serving /\ worker'[w].conn = worker[w].conn
      BY <1>1
    <2> QED
      BY <1>1, <1>4, <2>1, PlacesStay
  <1>12. ProxyType'
    <2>1. failures' \in Nat
      BY ONLY <1>0
    <2> QED
      BY <1>0, <1>1, <1>2, <1>3, <1>5, <2>1 DEF ProxyInv, ProxyType
  <1>13. CrashHasCause'
    BY <1>2 DEF CrashHasCause
  <1> QED
    BY <1>7, <1>8, <1>9, <1>10, <1>11, <1>12, <1>13, FrameKeeps DEF ProxyInv

-----------------------------------------------------------------------------
(* The queues *)

\* What is left of a queue, without repetitions, when its first element is taken.
Distinct(s) == s \in Seq(Conns) /\ \A m, n \in DOMAIN s : s[m] = s[n] => m = n
Left(s, t, x) ==
    /\ x \in Conns /\ \E m \in DOMAIN s : s[m] = x
    /\ \A y : (\E m \in DOMAIN t : t[m] = y) <=> y # x /\ \E m \in DOMAIN s : s[m] = y
LEMMA Dequeued ==
    ASSUME NEW s, Distinct(s), s # <<>> PROVE Distinct(Tail(s)) /\ Left(s, Tail(s), Head(s))
  <1>0. PICK t, x : t = Tail(s) /\ x = Head(s) /\ s \in Seq(Conns) /\ \A m, n \in DOMAIN s : s[m] = s[n] => m = n
    BY DEF Distinct
  <1>1. /\ Len(s) \in Nat /\ Len(s) > 0 /\ DOMAIN s = 1..Len(s) /\ t \in Seq(Conns) /\ x \in Conns /\ x = s[1]
        /\ Len(t) = Len(s) - 1 /\ DOMAIN t = 1..Len(t)
    BY <1>0
  <1>2. \A m \in 1..Len(t) : t[m] = s[m + 1]
    BY <1>0
  <1>3. 1 \in DOMAIN s
    BY <1>1
  <1>4. \A m \in DOMAIN t : m + 1 \in DOMAIN s /\ t[m] = s[m + 1] /\ m + 1 # 1 /\ m \in Int
    BY ONLY <1>1, <1>2
  <1>5. ASSUME NEW m \in DOMAIN t, NEW n \in DOMAIN t, t[m] = t[n] PROVE m = n
    <2>1. m + 1 = n + 1
      BY <1>0, <1>4, <1>5
    <2> QED
      BY <1>4, <2>1
  <1>6. \A m \in DOMAIN s : m # 1 => m - 1 \in DOMAIN t /\ t[m - 1] = s[m]
    <2> SUFFICES ASSUME NEW m \in DOMAIN s, m # 1 PROVE m - 1 \in DOMAIN t /\ t[m - 1] = s[m]
      OBVIOUS
    <2>1. m - 1 \in 1..Len(t) /\ (m - 1) + 1 = m
      BY <1>1
    <2> QED
      BY <1>1, <1>2, <2>1
  <1>7. ASSUME NEW y PROVE (\E m \in DOMAIN t : t[m] = y) <=> y # x /\ \E m \in DOMAIN s : s[m] = y
    <2>1. ASSUME NEW m \in DOMAIN t, t[m] = y PROVE y # x /\ \E n \in DOMAIN s : s[n] = y
      BY <1>0, <1>1, <1>3, <1>4, <2>1
    <2>2. ASSUME y # x, NEW m \in DOMAIN s, s[m] = y PROVE \E n \in DOMAIN t : t[n] = y
      BY <1>1, <1>6, <2>2
    <2> QED
      BY <2>1, <2>2
  <1>8. Distinct(t) /\ Left(s, t, x)
    BY <1>1, <1>3, <1>5, <1>7 DEF Distinct, Left
  <1> QED
    BY ONLY <1>0, <1>8

\* The queues, apart.
QueuesApart(p, q) ==
    /\ Distinct(p) /\ Distinct(q)
    /\ \A m \in DOMAIN p, n \in DOMAIN q : p[m] # q[n]

LEMMA QueuesAre == ASSUME ProxyInv PROVE QueuesApart(backlog, client_q)
  BY DEF ProxyInv, ProxyType, PlacesOk, QueuesApart, Distinct

\* The first of the backlog is accepted or turned away.
LEMMA BacklogTail ==
    ASSUME ProxyInv, backlog # <<>>, backlog' = Tail(backlog), client_q' = client_q, NEW i, i = Head(backlog)
    PROVE  /\ i \in Conns /\ Queued(i) /\ QueuesApart(backlog', client_q')
           /\ \A j : Queued(j)' <=> Queued(j) /\ j # i
           /\ \A m \in DOMAIN client_q' : client_q'[m] # i
  <1>1. QueuesApart(backlog, client_q)
    BY QueuesAre
  <1>2. Distinct(backlog') /\ Left(backlog, backlog', i)
    BY <1>1, Dequeued DEF QueuesApart
  <1>3. \A n \in DOMAIN client_q : client_q[n] # i
    BY <1>1, <1>2 DEF QueuesApart, Left
  <1>4. \A m \in DOMAIN backlog', n \in DOMAIN client_q : backlog'[m] # client_q[n]
    BY <1>1, <1>2 DEF QueuesApart, Left
  <1>5. QueuesApart(backlog', client_q')
    BY <1>1, <1>2, <1>4 DEF QueuesApart
  <1>6. \A j : Queued(j)' <=> Queued(j) /\ j # i
    BY <1>2, <1>3 DEF Queued, Left
  <1> QED
    BY <1>2, <1>3, <1>5, <1>6 DEF Queued, Left

\* A worker takes the first of client_q.
LEMMA ClientsTail ==
    ASSUME ProxyInv, client_q # <<>>, client_q' = Tail(client_q), backlog' = backlog, NEW i, i = Head(client_q)
    PROVE  /\ i \in Conns /\ Queued(i) /\ QueuesApart(backlog', client_q')
           /\ \A j : Queued(j)' <=> Queued(j) /\ j # i
  <1>1. QueuesApart(backlog, client_q)
    BY QueuesAre
  <1>2. Distinct(client_q') /\ Left(client_q, client_q', i)
    BY <1>1, Dequeued DEF QueuesApart
  <1>3. \A n \in DOMAIN backlog : backlog[n] # i
    BY <1>1, <1>2 DEF QueuesApart, Left
  <1>4. \A m \in DOMAIN backlog, n \in DOMAIN client_q' : backlog[m] # client_q'[n]
    BY <1>1, <1>2 DEF QueuesApart, Left
  <1>5. QueuesApart(backlog', client_q')
    BY <1>1, <1>2, <1>4 DEF QueuesApart
  <1>6. \A j : Queued(j)' <=> Queued(j) /\ j # i
    BY <1>2, <1>3 DEF Queued, Left
  <1> QED
    BY <1>2, <1>5, <1>6 DEF Queued, Left

-----------------------------------------------------------------------------
(* The threads of the proxy *)

Alive == {"test", "accept", "notify", "join"}

\* Workers that serve nobody move, main moves, and connections change their queue.
LEMMA QuietKeeps ==
    ASSUME ProxyInv, worker' \in [Workers -> WorkerRecs], main \in Alive, main' \in Alive,
           \A w \in Workers : worker'[w] = worker[w] \/ (worker[w].pc \notin Serving /\ worker'[w].pc \notin Serving),
           do_exit' \in BOOLEAN, failures' \in Nat,
           ghost' \in [missed : BOOLEAN, lost : SUBSET Int, null : BOOLEAN], ghost'.lost = ghost.lost,
           QueuesApart(backlog', client_q'), \A j : Queued(j)' <=> Queued(j),
           UNCHANGED <<call, held, conn, handle, calls>>
    PROVE  ProxyInv'
  <1>1. /\ Running /\ Running' /\ call' = call /\ held' = held /\ conn' = conn /\ handle' = handle
    BY DEF Running, Alive
  <1>2. ASSUME NEW c \in Clients PROVE CallOk(c)' /\ OwnsOk(c)'
    <2>1. CallOk(c) /\ OwnsOk(c) /\ (K(c)' = K(c)) /\ \A h : (Closed(c, h)' <=> Closed(c, h)) /\ (Gets(c, h)' <=> Gets(c, h))
      BY <1>1 DEF ProxyInv, K, Closed, Gets
    <2>2. CallOk(c)'
      BY ONLY <1>1, <2>1 DEF CallOk
    <2>3. OwnsOk(c)'
      BY ONLY <1>1, <2>1, ghost'.lost = ghost.lost DEF OwnsOk
    <2> QED
      BY <2>2, <2>3
  <1>3. PlacesOk'
    <2>1. PlacesOk
      BY DEF ProxyInv
    <2>2. \A w \in Workers, i \in Conns : ServedBy(w, i)' <=> ServedBy(w, i)
      BY <1>1 DEF ServedBy
    <2> QED
      BY <1>1, <2>1, <2>2 DEF PlacesOk, QueuesApart, Distinct
  <1>4. ASSUME NEW i \in Conns PROVE ConnOk(i)' /\ (Queued(i)' => QueuedOk(i)')
    <2>1. ConnOk(i) /\ (Queued(i) => QueuedOk(i)) /\ (Queued(i)' <=> Queued(i))
      BY DEF ProxyInv
    <2> QED
      BY ONLY <1>1, <2>1 DEF ConnOk, QueuedOk
  <1>5. ASSUME NEW w \in Workers PROVE WorkerOk(w)'
    <2>1. WorkerOk(w)
      BY DEF ProxyInv
    <2>2. CASE worker'[w] = worker[w]
      BY ONLY <1>1, <2>1, <2>2 DEF WorkerOk, C
    <2>3. CASE worker'[w].pc \notin Serving
      BY <2>3 DEF WorkerOk
    <2> QED
      BY <2>2, <2>3
  <1>6. ProxyType'
    BY <1>1 DEF ProxyInv, ProxyType, Alive, QueuesApart, Distinct
  <1>7. CrashHasCause'
    BY DEF CrashHasCause, Crashed, Alive
  <1> QED
    BY <1>2, <1>3, <1>4, <1>5, <1>6, <1>7 DEF ProxyInv

LEMMA ControlKeeps ==
    ASSUME ProxyInv, worker' \in [Workers -> WorkerRecs], main \in Alive, main' \in Alive,
           \A w \in Workers : worker'[w] = worker[w] \/ (worker[w].pc \notin Serving /\ worker'[w].pc \notin Serving),
           do_exit' \in BOOLEAN, failures' \in Nat,
           ghost' \in [missed : BOOLEAN, lost : SUBSET Int, null : BOOLEAN], ghost'.lost = ghost.lost,
           UNCHANGED <<call, held, conn, backlog, client_q, handle, calls>>
    PROVE  ProxyInv'
  <1>1. QueuesApart(backlog', client_q') /\ \A j : Queued(j)' <=> Queued(j)
    BY QueuesAre DEF Queued
  <1>2. UNCHANGED <<call, held, conn, handle, calls>>
    OBVIOUS
  <1> QED
    BY <1>1, <1>2, QuietKeeps

\* Workers that wait are woken.
LEMMA WokenTo ==
    ASSUME ProxyInv, NEW S \in SUBSET Waiting, worker' = Woken(S)
    PROVE  /\ worker' \in [Workers -> WorkerRecs]
           /\ \A w \in Workers : worker'[w] = worker[w] \/ (worker[w].pc \notin Serving /\ worker'[w].pc \notin Serving)
  <1>1. worker \in [Workers -> WorkerRecs] /\ \A w \in S : worker[w].pc = "waiting"
    BY DEF ProxyInv, ProxyType, Waiting
  <1>2. worker' = [w \in Workers |-> IF w \in S THEN AtLoop ELSE worker[w]]
    BY DEF Woken
  <1>3. worker' \in [Workers -> WorkerRecs]
    BY <1>1, <1>2, LoopIsWorker
  <1>4. \A w \in Workers : w \in S => worker[w].pc \notin Serving /\ worker'[w].pc \notin Serving
    BY <1>1, <1>2, LoopIsWorker DEF Serving
  <1> QED
    BY <1>2, <1>3, <1>4

LEMMA AliveIs == ASSUME ProxyInv PROVE Running <=> main \in Alive
  BY DEF ProxyInv, ProxyType, Running, Alive

LEMMA main_testKeeps == ASSUME ProxyInv, main_test PROVE ProxyInv'
  <1>1. /\ main = "test" /\ main' \in {"notify", "accept"}
        /\ UNCHANGED <<call, held, worker, handle, calls, failures, conn, backlog, client_q, do_exit, ghost>>
    BY DEF main_test, mainly
  <1>2. worker' \in [Workers -> WorkerRecs] /\ do_exit' \in BOOLEAN /\ failures' \in Nat
        /\ ghost' \in [missed : BOOLEAN, lost : SUBSET Int, null : BOOLEAN]
    BY <1>1 DEF ProxyInv, ProxyType
  <1>3. main \in Alive /\ main' \in Alive /\ worker' = worker
    BY <1>1 DEF Alive
  <1> QED
    BY <1>1, <1>2, <1>3, ControlKeeps

LEMMA main_notifyKeeps == ASSUME ProxyInv, main_notify PROVE ProxyInv'
  <1>1. /\ main = "notify" /\ main' = "join" /\ worker' = Woken(Waiting)
        /\ UNCHANGED <<call, held, conn, backlog, client_q, do_exit, handle, calls, failures, ghost>>
    BY DEF main_notify, cond_broadcast
  <1>2. do_exit' \in BOOLEAN /\ failures' \in Nat /\ ghost' \in [missed : BOOLEAN, lost : SUBSET Int, null : BOOLEAN]
    BY <1>1 DEF ProxyInv, ProxyType
  <1>3. main \in Alive /\ main' \in Alive
    BY <1>1 DEF Alive
  <1>4. /\ worker' \in [Workers -> WorkerRecs]
        /\ \A w \in Workers : worker'[w] = worker[w] \/ (worker[w].pc \notin Serving /\ worker'[w].pc \notin Serving)
    BY <1>1, WokenTo
  <1> QED
    BY <1>1, <1>2, <1>3, <1>4, ControlKeeps

LEMMA sigHandlerKeeps == ASSUME ProxyInv, sigHandler PROVE ProxyInv'
  <1>1. /\ Running /\ worker' = Woken(Waiting) /\ do_exit' = TRUE /\ failures' = failures + 1
        /\ main' \in {main, "test"}
        /\ ghost' \in {ghost, [ghost EXCEPT !.missed = main = "accept"]}
        /\ UNCHANGED <<call, held, conn, backlog, client_q, handle, calls>>
    BY DEF sigHandler
  <1>2. failures \in Nat /\ ghost \in [missed : BOOLEAN, lost : SUBSET Int, null : BOOLEAN]
    BY DEF ProxyInv, ProxyType
  <1>3. failures' \in Nat /\ do_exit' \in BOOLEAN
    BY ONLY <1>1, <1>2
  <1>4. /\ ghost' \in [missed : BOOLEAN, lost : SUBSET Int, null : BOOLEAN] /\ ghost'.lost = ghost.lost
    BY ONLY <1>1, <1>2
  <1>5. main \in Alive /\ main' \in Alive
    BY <1>1, AliveIs DEF Alive
  <1>6. /\ worker' \in [Workers -> WorkerRecs]
        /\ \A w \in Workers : worker'[w] = worker[w] \/ (worker[w].pc \notin Serving /\ worker'[w].pc \notin Serving)
    BY <1>1, WokenTo
  <1> QED
    BY <1>1, <1>3, <1>4, <1>5, <1>6, ControlKeeps

\* A worker that serves nobody moves.
LEMMA WorkerMovesKeeps ==
    ASSUME ProxyInv, Running, NEW w \in Workers, NEW pc \in {"exited", "towait", "waiting"},
           worker[w].pc \in {"lock", "towait"}, worker' = [worker EXCEPT ![w].pc = pc],
           UNCHANGED <<call, held, conn, backlog, client_q, main, do_exit, handle, calls, failures, ghost>>
    PROVE  ProxyInv'
  <1>1. /\ do_exit' \in BOOLEAN /\ failures' \in Nat /\ worker \in [Workers -> WorkerRecs]
        /\ ghost' \in [missed : BOOLEAN, lost : SUBSET Int, null : BOOLEAN]
    BY DEF ProxyInv, ProxyType
  <1>2. main \in Alive /\ main' \in Alive
    BY AliveIs
  <1>3. PICK b \in WorkerRecs : worker' = [worker EXCEPT ![w] = b] /\ b.pc = pc
    <2>1. PICK b : b = [worker[w] EXCEPT !.pc = pc]
      OBVIOUS
    <2>2. b \in WorkerRecs /\ b.pc = pc
      BY <1>1, <2>1 DEF WorkerRecs
    <2> QED
      BY <2>1, <2>2
  <1>4. worker' \in [Workers -> WorkerRecs] /\ worker'[w] = b /\ \A v \in Workers \ {w} : worker'[v] = worker[v]
    BY ONLY <1>1, <1>3
  <1>5. worker[w].pc \notin Serving /\ worker'[w].pc \notin Serving
    BY <1>3, <1>4 DEF Serving
  <1>6. \A v \in Workers : worker'[v] = worker[v] \/ (worker[v].pc \notin Serving /\ worker'[v].pc \notin Serving)
    BY ONLY <1>4, <1>5
  <1> QED
    BY <1>1, <1>2, <1>4, <1>6, ControlKeeps

LEMMA worker_waitKeeps == ASSUME ProxyInv, NEW w \in Workers, worker_wait(w) PROVE ProxyInv'
  <1>1. /\ Running /\ worker[w].pc = "towait" /\ worker' = [worker EXCEPT ![w].pc = "waiting"]
        /\ UNCHANGED <<call, held, conn, backlog, client_q, main, do_exit, handle, calls, failures, ghost>>
    BY DEF worker_wait, At, workerly
  <1> QED
    BY <1>1, WorkerMovesKeeps

\* The process of the proxy ends, with a cause if it crashes.
LEMMA EndKeeps ==
    ASSUME ProxyInv, NEW how \in {"ended", "crashed"}, TheEnd(how),
           ghost' \in [missed : BOOLEAN, lost : SUBSET Int, null : BOOLEAN],
           how = "crashed" => ghost'.null \/ \E c \in Clients : call[c].pc = "dead",
           UNCHANGED <<call, held, worker, do_exit, calls, failures>>
    PROVE  ProxyInv'
  <1>1. /\ main' = how /\ ~Running' /\ call' = call /\ held' = held
        /\ conn' = [i \in Conns |-> HalfClosed(conn[i], "sv")] /\ conn \in [Conns -> ConnRecs]
        /\ backlog' = <<>> /\ client_q' = <<>> /\ handle' = [h \in Handles |-> Nobody]
    BY DEF TheEnd, Running, ProxyInv, ProxyType
  <1>2. ASSUME NEW i \in Conns
        PROVE  /\ conn'[i] \in ConnRecs /\ conn'[i].sv = FALSE
               /\ conn[i].cl = TRUE => /\ conn'[i].cl = TRUE /\ conn'[i].client = conn[i].client
                                       /\ conn'[i].down = conn[i].down /\ conn'[i].ran = conn[i].ran
    BY ZenonT(60), <1>1, ServerEndClosed
  <1>3. ASSUME NEW c \in Clients PROVE CallOk(c)' /\ OwnsOk(c)'
    <2>1. CallOk(c)
      BY DEF ProxyInv
    <2>2. ASSUME call[c].pc \in Busy PROVE Talk(c, call[c], K(c)') /\ call[c].conn \in Conns
      <3>1. /\ call[c].conn \in Conns /\ K(c) = conn[call[c].conn] /\ K(c).cl = TRUE /\ Talk(c, call[c], K(c))
        BY <2>2, InCall
      <3>2. K(c)' = conn'[call[c].conn]
        BY <1>1 DEF K
      <3>3. K(c)'.cl = TRUE /\ K(c)'.client = K(c).client /\ K(c)'.down = K(c).down /\ K(c)'.ran = K(c).ran
        BY <1>2, <3>1, <3>2
      <3> QED
        BY ONLY <3>1, <3>3 DEF Talk, Truth
    <2>3. CallOk(c)'
      BY ONLY <1>1, <2>1, <2>2 DEF CallOk
    <2>4. OwnsOk(c)'
      BY <1>1 DEF OwnsOk
    <2> QED
      BY <2>3, <2>4
  <1>4. DOMAIN backlog' = {} /\ DOMAIN client_q' = {} /\ \A i : ~Queued(i)'
    <2>1. DOMAIN backlog' = {} /\ DOMAIN client_q' = {}
      BY <1>1
    <2> QED
      BY <2>1 DEF Queued
  <1>5. PlacesOk'
    <2>1. \A w, i : ~ServedBy(w, i)'
      BY <1>1 DEF ServedBy
    <2> QED
      BY <1>2, <1>4, <2>1 DEF PlacesOk
  <1>6. \A i \in Conns : ConnOk(i)'
    BY <1>2 DEF ConnOk
  <1>7. \A w \in Workers : WorkerOk(w)'
    BY <1>1 DEF WorkerOk
  <1>8. ProxyType'
    <2>1. conn' \in [Conns -> ConnRecs] /\ handle' \in [Handles -> Clients \cup {Nobody}]
      <3>1. conn' = [i \in Conns |-> conn'[i]]
        BY <1>1
      <3> QED
        BY ONLY <1>1, <1>2, <3>1
    <2>2. backlog' \in Seq(Conns) /\ client_q' \in Seq(Conns)
      BY <1>1
    <2> QED
      BY <1>1, <2>1, <2>2 DEF ProxyInv, ProxyType
  <1>9. CrashHasCause'
    BY <1>1 DEF CrashHasCause, Crashed
  <1> QED
    BY <1>3, <1>4, <1>5, <1>6, <1>7, <1>8, <1>9 DEF ProxyInv

LEMMA main_joinKeeps == ASSUME ProxyInv, main_join PROVE ProxyInv'
  <1>1. /\ TheEnd("ended") /\ UNCHANGED <<call, held, worker, do_exit, calls, failures>>
        /\ ghost' \in [missed : BOOLEAN, lost : SUBSET Int, null : BOOLEAN]
    BY DEF main_join, ProxyInv, ProxyType
  <1> QED
    BY <1>1, EndKeeps

\* A worker in its turn: the client of the connection is in this call, or died in it.
LEMMA InTurn ==
    ASSUME ProxyInv, Running, NEW w \in Workers, worker[w].pc \in Serving
    PROVE  /\ worker[w].conn \in Conns /\ worker[w] \in WorkerRecs /\ C(w) = conn[worker[w].conn]
           /\ C(w) \in ConnRecs /\ C(w).sv = TRUE /\ C(w).client \in Clients
           /\ call[C(w).client] \in CallRecs
           /\ Turn(worker[w], C(w), call[C(w).client], handle)
           /\ call[C(w).client].pc # "dead" =>
                /\ call[C(w).client].pc \in Busy /\ call[C(w).client].conn = worker[w].conn
                /\ call[C(w).client].req \in Requests /\ C(w).cl = TRUE
                /\ Talk(C(w).client, call[C(w).client], C(w))
                /\ Answers(call[C(w).client], C(w))
           /\ \A j \in Conns \ {worker[w].conn} : conn[j].sv = TRUE => conn[j].client # C(w).client
  <1>1. /\ worker[w].conn \in Conns /\ C(w).sv = TRUE /\ C(w) = conn[worker[w].conn]
        /\ Turn(worker[w], C(w), call[C(w).client], handle) /\ worker[w] \in WorkerRecs
    BY DEF ProxyInv, ProxyType, WorkerOk, C
  <1>2. PICK i \in Conns : i = worker[w].conn /\ C(w) = conn[i]
    BY <1>1
  <1>3. PICK c : c = conn[i].client
    OBVIOUS
  <1>4. conn[i] \in ConnRecs /\ ConnOk(i)
    BY DEF ProxyInv, ProxyType
  <1>5. c \in Clients /\ (call[c].pc = "dead" \/ (call[c].pc \in Busy /\ call[c].conn = i))
    BY <1>1, <1>2, <1>3, <1>4 DEF ConnOk
  <1>6. call[c] \in CallRecs
    BY <1>5 DEF ProxyInv, ProxyType
  <1>7. call[c].pc # "dead" => /\ call[c].req \in Requests /\ conn[i].cl = TRUE
                               /\ Talk(c, call[c], conn[i]) /\ Answers(call[c], conn[i])
    <2> SUFFICES ASSUME call[c].pc \in Busy, call[c].conn = i
                 PROVE  /\ call[c].req \in Requests /\ conn[i].cl = TRUE
                        /\ Talk(c, call[c], conn[i]) /\ Answers(call[c], conn[i])
      BY <1>5
    <2>1. /\ K(c).cl = TRUE /\ K(c) = conn[call[c].conn]
          /\ call[c].req \in Requests /\ Talk(c, call[c], K(c)) /\ (Running => Answers(call[c], K(c)))
      BY <1>5, InCall
    <2> QED
      BY <2>1
  <1>8. \A j \in Conns \ {i} : conn[j].sv = TRUE => conn[j].client # c
    BY <1>1, <1>2, <1>3, <1>5, OneServed
  <1> QED
    BY <1>1, <1>2, <1>3, <1>4, <1>5, <1>6, <1>7, <1>8

LEMMA SIGPIPEKeeps == ASSUME ProxyInv, NEW w \in Workers, SIGPIPE(w) PROVE ProxyInv'
  <1>1. /\ Running /\ worker[w].pc \in Serving /\ C(w).cl # TRUE /\ TheEnd("crashed")
        /\ UNCHANGED <<call, held, worker, do_exit, calls, failures>>
        /\ ghost' \in [missed : BOOLEAN, lost : SUBSET Int, null : BOOLEAN]
    BY DEF SIGPIPE, Serving, ProxyInv, ProxyType
  <1>2. C(w).client \in Clients /\ call[C(w).client].pc = "dead"
    BY <1>1, InTurn
  <1> QED
    BY <1>1, <1>2, EndKeeps

\* What is queued is in the call of its client, or its client died.
LEMMA InQueue ==
    ASSUME ProxyInv, NEW i \in Conns, Queued(i)
    PROVE  /\ Running /\ conn[i] \in ConnRecs /\ conn[i].sv = TRUE /\ conn[i].client \in Clients
           /\ conn[i].down = <<>> /\ conn[i].ran = <<>>
           /\ conn[i].up # <<>> => Fresh(conn[i], call[conn[i].client], Head(conn[i].up), handle)
           /\ call[conn[i].client].pc # "dead" =>
                /\ call[conn[i].client].pc \in Busy /\ call[conn[i].client].conn = i /\ conn[i].cl = TRUE
                /\ Talk(conn[i].client, call[conn[i].client], conn[i])
           /\ \A j \in Conns \ {i} : conn[j].sv = TRUE => conn[j].client # conn[i].client
           /\ \A w \in Workers : worker[w].conn # i \/ worker[w].pc \notin Serving
  <1>1. /\ conn[i] \in ConnRecs /\ ConnOk(i) /\ QueuedOk(i) /\ PlacesOk
    BY DEF ProxyInv, ProxyType
  <1>2. /\ conn[i].sv = TRUE /\ conn[i].down = <<>> /\ conn[i].ran = <<>>
        /\ conn[i].up # <<>> => Fresh(conn[i], call[conn[i].client], Head(conn[i].up), handle)
    BY <1>1 DEF QueuedOk
  <1>3. PICK c : c = conn[i].client
    OBVIOUS
  <1>4. Running /\ c \in Clients /\ (call[c].pc = "dead" \/ (call[c].pc \in Busy /\ call[c].conn = i))
    BY <1>1, <1>2, <1>3 DEF ConnOk
  <1>5. call[c].pc # "dead" => Talk(c, call[c], conn[i]) /\ conn[i].cl = TRUE
    <2> SUFFICES ASSUME call[c].pc \in Busy, call[c].conn = i PROVE Talk(c, call[c], conn[i]) /\ conn[i].cl = TRUE
      BY <1>4
    <2>1. K(c).cl = TRUE /\ K(c) = conn[call[c].conn] /\ Talk(c, call[c], K(c))
      BY <1>4, InCall
    <2> QED
      BY <2>1
  <1>6. \A j \in Conns \ {i} : conn[j].sv = TRUE => conn[j].client # c
    BY <1>2, <1>3, <1>4, OneServed
  <1>7. \A w \in Workers : worker[w].conn # i \/ worker[w].pc \notin Serving
    BY <1>1, <1>4 DEF PlacesOk, ServedBy
  <1> QED
    BY <1>1, <1>2, <1>3, <1>4, <1>5, <1>6, <1>7

\* A connection is taken off the queues: it is closed, or becomes the turn of a worker w,
\* which has read the request.
LEMMA LeavesQueueKeeps ==
    ASSUME ProxyInv, NEW i \in Conns, Queued(i), QueuesApart(backlog', client_q'),
           \A j : Queued(j)' <=> Queued(j) /\ j # i,
           worker' \in [Workers -> WorkerRecs], conn' \in [Conns -> ConnRecs],
           \A j \in Conns \ {i} : conn'[j] = conn[j],
           conn[i].cl = TRUE => /\ conn'[i].cl = TRUE /\ conn'[i].client = conn[i].client
                                /\ conn'[i].down = <<>> /\ conn'[i].ran = <<>>,
           \/ conn'[i].sv = FALSE /\ worker' = worker
           \/ /\ conn'[i].sv = TRUE /\ conn'[i].client = conn[i].client
              /\ \E w \in Workers :
                   /\ \A v \in Workers \ {w} : worker'[v] = worker[v]
                   /\ worker[w].pc \notin Serving /\ worker'[w].pc \in Serving /\ worker'[w].conn = i
                   /\ Turn(worker'[w], conn'[i], call[conn[i].client], handle),
           main' \in Alive, failures' \in Nat,
           UNCHANGED <<call, held, do_exit, handle, calls, ghost>>
    PROVE  ProxyInv'
  <1>1. /\ Running /\ conn[i].sv = TRUE /\ conn[i].ran = <<>> /\ conn[i].down = <<>>
        /\ \A w \in Workers : worker[w].conn # i \/ worker[w].pc \notin Serving
    BY InQueue
  <1>2. PICK c \in Clients : c = conn[i].client
    BY InQueue
  <1>3. /\ call[c].pc # "dead" => /\ call[c].pc \in Busy /\ call[c].conn = i /\ conn[i].cl = TRUE
                                  /\ Talk(c, call[c], conn[i])
        /\ \A j \in Conns \ {i} : conn[j].sv = TRUE => conn[j].client # c
    BY <1>2, InQueue
  <1>4. /\ call' = call /\ held' = held /\ handle' = handle /\ ghost' = ghost /\ Running'
    BY DEF Running, Alive
  <1>5. Frame(c, i)
    BY <1>1, <1>2, <1>3, <1>4 DEF Frame
  <1>6. CallOk(c)' /\ OwnsOk(c)'
    <2>1. CallOk(c) /\ OwnsOk(c)
      BY DEF ProxyInv
    <2>2. CASE call[c].pc = "dead"
      <3>1. call[c].pc \notin Busy
        BY <2>2 DEF Busy, First
      <3> QED
        BY ONLY <1>4, <2>1, <2>2, <3>1 DEF CallOk, OwnsOk
    <2>3. CASE call[c].pc # "dead"
      <3>1. /\ K(c) = conn[i] /\ K(c)' = conn'[i] /\ call[c].pc \in Busy /\ call[c].conn = i /\ conn'[i].cl = TRUE
            /\ conn'[i].client = c /\ conn'[i].down = conn[i].down /\ conn'[i].ran = conn[i].ran
            /\ Talk(c, call[c], conn[i]) /\ conn[i].ran = <<>>
        BY <1>1, <1>2, <1>3, <1>4, <2>3 DEF K
      <3>2. Talk(c, call[c], conn'[i]) /\ Answers(call[c], conn'[i])
        BY ONLY <3>1 DEF Talk, Truth, Answers
      <3>3. CallOk(c)'
        BY ONLY <1>4, <2>1, <3>1, <3>2 DEF CallOk
      <3>4. \A h : (Closed(c, h)' <=> Closed(c, h)) /\ (Gets(c, h)' <=> Gets(c, h))
        BY <1>4, <3>1 DEF Closed, Gets
      <3>5. OwnsOk(c)'
        BY ONLY <1>1, <1>4, <2>1, <3>4 DEF OwnsOk
      <3> QED
        BY <3>3, <3>5
    <2> QED
      BY <2>2, <2>3
  <1>7. ConnOk(i)'
    <2> SUFFICES ASSUME conn'[i].sv = TRUE PROVE ConnOk(i)'
      BY DEF ConnOk
    <2>1. conn'[i].client = c
      BY <1>2
    <2>2. \A j \in Conns : conn'[j].sv = TRUE /\ conn'[j].client = c => j = i
      BY <1>3
    <2> QED
      BY <1>3, <1>4, <2>1, <2>2 DEF ConnOk
  <1>8. ASSUME NEW w \in Workers PROVE WorkerOk(w)'
    <2>1. CASE worker'[w] = worker[w]
      BY <1>1, <1>5, <2>1, FrameKeeps
    <2>2. CASE worker'[w] # worker[w]
      <3>1. /\ conn'[i].sv = TRUE /\ conn'[i].client = c /\ worker'[w].conn = i
            /\ Turn(worker'[w], conn'[i], call[c], handle)
        BY <1>2, <2>2
      <3>2. C(w)' = conn'[i]
        BY <3>1 DEF C
      <3> QED
        BY <1>4, <3>1, <3>2 DEF WorkerOk
    <2> QED
      BY <2>1, <2>2
  <1>9. PlacesOk'
    <2>0. PlacesOk
      BY DEF ProxyInv
    <2>1. ASSUME NEW w \in Workers, NEW j \in Conns, ServedBy(w, j)'
          PROVE  \/ j = i /\ conn'[i].sv = TRUE /\ worker'[w] # worker[w]
                 \/ j # i /\ ServedBy(w, j)
      <3>1. CASE worker'[w] = worker[w]
        BY <1>1, <2>1, <3>1 DEF ServedBy
      <3>2. CASE worker'[w] # worker[w]
        BY <2>1, <3>2 DEF ServedBy
      <3> QED
        BY <3>1, <3>2
    <2>2. ASSUME NEW w \in Workers, NEW j \in Conns, ServedBy(w, j)', NEW v \in Workers, ServedBy(v, j)'
          PROVE  v = w
      <3>1. CASE j = i
        BY <2>1, <2>2, <3>1
      <3>2. CASE j # i
        BY <2>0, <2>1, <2>2, <3>2 DEF PlacesOk
      <3> QED
        BY <3>1, <3>2
    <2>3. \A w \in Workers, j \in Conns : ServedBy(w, j)' => ~Queued(j)'
      BY <2>0, <2>1 DEF PlacesOk
    <2>4. ASSUME NEW j \in Conns, conn'[j].sv = TRUE PROVE Queued(j)' \/ \E w \in Workers : ServedBy(w, j)'
      <3>1. CASE j = i
        BY <1>4, <2>4, <3>1 DEF ServedBy
      <3>2. CASE j # i
        <4>1. Queued(j) \/ \E w \in Workers : ServedBy(w, j)
          BY <2>0, <2>4, <3>2 DEF PlacesOk
        <4>2. \A w \in Workers : ServedBy(w, j) => ServedBy(w, j)'
          BY <1>4, <3>2 DEF ServedBy
        <4> QED
          BY <3>2, <4>1, <4>2
      <3> QED
        BY <3>1, <3>2
    <2> QED
      BY <2>2, <2>3, <2>4 DEF PlacesOk, QueuesApart, Distinct
  <1>10. ProxyType'
    BY <1>4 DEF ProxyInv, ProxyType, Alive, QueuesApart, Distinct
  <1>11. CrashHasCause'
    BY DEF CrashHasCause, Crashed, Alive
  <1>12. \A j \in Conns : Queued(j)' => QueuedOk(j)'
    BY <1>5, FrameKeeps
  <1> QED
    BY <1>5, <1>6, <1>7, <1>8, <1>9, <1>10, <1>11, <1>12, FrameKeeps DEF ProxyInv

\* The first of the backlog is accepted into client_q.
LEMMA QueueMoves ==
    ASSUME ProxyInv, backlog # <<>>, backlog' = Tail(backlog), client_q' = Append(client_q, Head(backlog))
    PROVE  QueuesApart(backlog', client_q') /\ \A j : Queued(j)' <=> Queued(j)
  <1>1. QueuesApart(backlog, client_q)
    BY QueuesAre
  <1>2. PICK i : i = Head(backlog)
    OBVIOUS
  <1>3. Distinct(backlog') /\ Left(backlog, backlog', i)
    BY <1>1, <1>2, Dequeued DEF QueuesApart
  <1>4. i \in Conns /\ client_q \in Seq(Conns) /\ client_q' = Append(client_q, i)
    BY <1>1, <1>2, <1>3 DEF QueuesApart, Distinct, Left
  <1>5. /\ client_q' \in Seq(Conns) /\ Len(client_q) \in Nat
        /\ \A n \in 1..Len(client_q) : client_q'[n] = client_q[n]
        /\ client_q'[Len(client_q) + 1] = i
        /\ DOMAIN client_q = 1..Len(client_q) /\ DOMAIN client_q' = 1..(Len(client_q) + 1)
    BY ONLY <1>4
  <1>6. /\ \A n \in DOMAIN client_q' : \/ n \in DOMAIN client_q /\ client_q'[n] = client_q[n]
                                       \/ n = Len(client_q) + 1 /\ client_q'[n] = i
        /\ \A n \in DOMAIN client_q : n \in DOMAIN client_q' /\ client_q'[n] = client_q[n]
        /\ Len(client_q) + 1 \in DOMAIN client_q'
    BY ONLY <1>5
  <1>7. \A n \in DOMAIN client_q : client_q[n] # i
    BY <1>1, <1>3 DEF QueuesApart, Left
  <1>8. \A m, n \in DOMAIN client_q : client_q[m] = client_q[n] => m = n
    BY <1>1 DEF QueuesApart, Distinct
  <1>9. Distinct(client_q')
    BY <1>5, <1>6, <1>7, <1>8 DEF Distinct
  <1>10. \A m \in DOMAIN backlog', n \in DOMAIN client_q' : backlog'[m] # client_q'[n]
    <2>1. \A m \in DOMAIN backlog' : backlog'[m] # i
      BY <1>3 DEF Left
    <2>2. \A m \in DOMAIN backlog', n \in DOMAIN client_q : backlog'[m] # client_q[n]
      BY <1>1, <1>3 DEF Left, QueuesApart
    <2> QED
      BY <1>6, <2>1, <2>2
  <1>11. \A j : Queued(j)' <=> Queued(j)
    <2>1. \A j : (\E n \in DOMAIN client_q' : client_q'[n] = j) <=> j = i \/ \E n \in DOMAIN client_q : client_q[n] = j
      BY <1>5, <1>6
    <2> QED
      BY <1>3, <2>1 DEF Queued, Left
  <1> QED
    BY <1>3, <1>9, <1>10, <1>11 DEF QueuesApart

LEMMA main_acceptKeeps == ASSUME ProxyInv, main_accept PROVE ProxyInv'
  <1>1. /\ main = "accept" /\ backlog # <<>> /\ backlog' = Tail(backlog) /\ main' = "test" /\ failures \in Nat
        /\ main \in Alive /\ main' \in Alive /\ UNCHANGED <<call, held, do_exit, handle, calls, ghost>>
        /\ do_exit' \in BOOLEAN /\ ghost' \in [missed : BOOLEAN, lost : SUBSET Int, null : BOOLEAN]
        /\ worker \in [Workers -> WorkerRecs]
    BY DEF main_accept, Alive, ProxyInv, ProxyType
  <1>2. CASE client_q' = Append(client_q, Head(backlog)) /\ wakes /\ UNCHANGED <<conn, failures>>
    <2>1. QueuesApart(backlog', client_q') /\ \A j : Queued(j)' <=> Queued(j)
      BY <1>1, <1>2, QueueMoves
    <2>2. worker' = worker \/ \E S \in SUBSET Waiting : worker' = Woken(S)
      BY <1>2 DEF wakes, cond_signal
    <2>3. /\ worker' \in [Workers -> WorkerRecs]
          /\ \A w \in Workers : worker'[w] = worker[w] \/ (worker[w].pc \notin Serving /\ worker'[w].pc \notin Serving)
      BY <1>1, <2>2, WokenTo
    <2>4. failures' \in Nat /\ ghost'.lost = ghost.lost /\ UNCHANGED <<call, held, conn, handle, calls>>
      BY <1>1, <1>2
    <2> QED
      BY <1>1, <2>1, <2>3, <2>4, QuietKeeps
  <1>3. CASE /\ failures' = failures + 1 /\ UNCHANGED <<client_q, worker>>
             /\ conn' = [conn EXCEPT ![Head(backlog)] = HalfClosed(@, "sv")]
    <2>1. PICK i : i = Head(backlog)
      OBVIOUS
    <2>2. /\ i \in Conns /\ Queued(i) /\ QueuesApart(backlog', client_q') /\ \A j : Queued(j)' <=> Queued(j) /\ j # i
      BY <1>1, <1>3, <2>1, BacklogTail
    <2>3. conn \in [Conns -> ConnRecs]
      BY DEF ProxyInv, ProxyType
    <2>4. PICK k : k = HalfClosed(conn[i], "sv")
      OBVIOUS
    <2>5. conn[i] \in ConnRecs /\ conn' = [conn EXCEPT ![i] = k]
      BY <1>3, <2>1, <2>2, <2>3, <2>4
    <2>6. k \in ConnRecs /\ k.sv = FALSE
          /\ (conn[i].cl = TRUE => k.cl = TRUE /\ k.client = conn[i].client /\ k.down = conn[i].down /\ k.ran = conn[i].ran)
      BY <2>4, <2>5, ServerEndClosed
    <2>7. conn' \in [Conns -> ConnRecs] /\ conn'[i] = k /\ \A j \in Conns \ {i} : conn'[j] = conn[j]
      BY ONLY <2>2, <2>3, <2>5, <2>6
    <2>8. conn[i].down = <<>> /\ conn[i].ran = <<>>
      BY <2>2, InQueue
    <2>9. failures' \in Nat
      BY ONLY <1>1, <1>3
    <2>10. /\ conn'[i].sv = FALSE /\ worker' = worker /\ worker' \in [Workers -> WorkerRecs]
           /\ conn[i].cl = TRUE => /\ conn'[i].cl = TRUE /\ conn'[i].client = conn[i].client
                                   /\ conn'[i].down = <<>> /\ conn'[i].ran = <<>>
      BY <1>1, <1>3, <2>6, <2>7, <2>8
    <2> QED
      BY <1>1, <2>2, <2>7, <2>9, <2>10, LeavesQueueKeeps
  <1> QED
    BY <1>2, <1>3 DEF main_accept

LEMMA worker_lockKeeps == ASSUME ProxyInv, NEW w \in Workers, worker_lock(w) PROVE ProxyInv'
  <1>1. /\ Running /\ worker[w].pc = "lock" /\ main \in Alive /\ main' \in Alive /\ failures' \in Nat
        /\ UNCHANGED <<call, held, backlog, main, do_exit, calls, handle, failures, ghost>>
        /\ conn \in [Conns -> ConnRecs] /\ worker \in [Workers -> WorkerRecs]
    BY AliveIs DEF worker_lock, At, workerly, ProxyInv, ProxyType
  <1>2. ASSUME NEW pc \in {"exited", "towait"}, worker' = [worker EXCEPT ![w].pc = pc], UNCHANGED <<client_q, conn>>
        PROVE  ProxyInv'
    BY <1>1, <1>2, WorkerMovesKeeps
  <1>3. ASSUME client_q # <<>>, client_q' = Tail(client_q), read_request(w, Head(client_q)) PROVE ProxyInv'
    <2>1. PICK i : i = Head(client_q)
      OBVIOUS
    <2>2. /\ i \in Conns /\ Queued(i) /\ QueuesApart(backlog', client_q') /\ \A j : Queued(j)' <=> Queued(j) /\ j # i
      BY <1>1, <1>3, <2>1, ClientsTail
    <2>3. PICK k \in ConnRecs : k = conn[i]
      BY <1>1, <2>2
    <2>4. k.down = <<>> /\ k.ran = <<>> /\ k.sv = TRUE /\ (k.up # <<>> => Fresh(k, call[k.client], Head(k.up), handle))
      BY <2>2, <2>3, InQueue
    <2>5. UNCHANGED <<call, held, do_exit, handle, calls, ghost>>
      BY <1>1
    <2>6. CASE Gone(k) /\ conn' = [conn EXCEPT ![i] = HalfClosed(@, "sv")] /\ UNCHANGED worker
      <3>1. PICK d : d = HalfClosed(k, "sv")
        OBVIOUS
      <3>2. conn' = [conn EXCEPT ![i] = d]
        BY <1>1, <2>2, <2>3, <2>6, <3>1
      <3>3. d \in ConnRecs /\ d.sv = FALSE
            /\ (k.cl = TRUE => d.cl = TRUE /\ d.client = k.client /\ d.down = k.down /\ d.ran = k.ran)
        BY <3>1, ServerEndClosed
      <3>4. conn' \in [Conns -> ConnRecs] /\ conn'[i] = d /\ \A j \in Conns \ {i} : conn'[j] = conn[j]
        BY ONLY <1>1, <2>2, <3>2, <3>3
      <3>5. /\ conn'[i].sv = FALSE /\ worker' = worker /\ worker' \in [Workers -> WorkerRecs]
            /\ conn[i].cl = TRUE => /\ conn'[i].cl = TRUE /\ conn'[i].client = conn[i].client
                                    /\ conn'[i].down = <<>> /\ conn'[i].ran = <<>>
        BY <1>1, <2>3, <2>4, <2>6, <3>3, <3>4
      <3> QED
        BY <1>1, <2>2, <2>5, <3>4, <3>5, LeavesQueueKeeps
    <2>7. CASE /\ k.up # <<>> /\ conn' = [conn EXCEPT ![i].up = Tail(@)]
               /\ worker' = [worker EXCEPT ![w] = [pc |-> "serve", conn |-> i, req |-> Head(k.up), ret |-> Head(k.up).tails]]
      <3>1. PICK r \in Requests : r = Head(k.up) /\ Fresh(k, call[k.client], r, handle)
        BY <2>4, <2>7 DEF Fresh
      <3>2. PICK b : b = [pc |-> "serve", conn |-> i, req |-> r, ret |-> r.tails]
        OBVIOUS
      <3>3. r.tails \in 0..2
        BY <3>1 DEF Requests
      <3>4. b \in WorkerRecs
        BY <2>2, <3>1, <3>2, <3>3 DEF WorkerRecs, Serving
      <3>5. worker' = [worker EXCEPT ![w] = b]
        BY <2>7, <3>1, <3>2
      <3>6. worker' \in [Workers -> WorkerRecs] /\ worker'[w] = b /\ \A v \in Workers \ {w} : worker'[v] = worker[v]
        BY ONLY <1>1, <3>4, <3>5, w \in Workers
      <3>7. PICK d : d = [k EXCEPT !.up = Tail(@)]
        OBVIOUS
      <3>8. d = [client |-> k.client, up |-> Tail(k.up), down |-> k.down, cl |-> k.cl, sv |-> k.sv, ran |-> k.ran]
        BY <3>7 DEF ConnRecs
      <3>9. d \in ConnRecs
        <4>1. k.up \in Seq(Requests \cup {"tail", "data"})
          BY DEF ConnRecs
        <4>2. Tail(k.up) \in Seq(Requests \cup {"tail", "data"})
          BY ONLY <2>7, <4>1
        <4> QED
          BY <3>8, <4>2 DEF ConnRecs
      <3>10. conn' = [conn EXCEPT ![i] = d]
        BY <1>1, <2>2, <2>3, <2>7, <3>7
      <3>11. conn' \in [Conns -> ConnRecs] /\ conn'[i] = d /\ \A j \in Conns \ {i} : conn'[j] = conn[j]
        BY ONLY <1>1, <2>2, <3>9, <3>10
      <3>12. Turn(b, d, call[k.client], handle)
        <4>1. b.pc = "serve" /\ b.req = r /\ b.ret \in Nat
          BY <3>2, <3>3
        <4>2. d.down = k.down /\ d.ran = k.ran /\ d.client = k.client
          BY <3>8
        <4>3. Fresh(d, call[k.client], r, handle)
          BY ONLY <3>1, <4>2 DEF Fresh
        <4> QED
          BY ONLY <4>1, <4>3 DEF Turn
      <3>13. /\ conn'[i].sv = TRUE /\ conn'[i].client = conn[i].client
             /\ conn[i].cl = TRUE => /\ conn'[i].cl = TRUE /\ conn'[i].client = conn[i].client
                                     /\ conn'[i].down = <<>> /\ conn'[i].ran = <<>>
        BY <2>3, <2>4, <3>8, <3>11
      <3>14. /\ worker[w].pc \notin Serving /\ worker'[w].pc \in Serving /\ worker'[w].conn = i
             /\ Turn(worker'[w], conn'[i], call[conn[i].client], handle)
        BY <1>1, <2>3, <3>2, <3>6, <3>11, <3>12 DEF Serving
      <3> QED
        BY <1>1, <2>2, <2>5, <3>6, <3>11, <3>13, <3>14, LeavesQueueKeeps
    <2> QED
      BY <1>3, <2>1, <2>3, <2>6, <2>7 DEF read_request, Came
  <1> QED
    BY <1>2, <1>3 DEF worker_lock

-----------------------------------------------------------------------------
(* A worker in its turn *)

\* Only handles of c change.
HandlesOf(c) == \A h \in Handles : \/ handle'[h] = handle[h]
                                   \/ handle[h] \in {c, Nobody} /\ handle'[h] \in {c, Nobody}

\* A step of a worker in its turn, which goes on or ends with the connection closed.
LEMMA TurnKeeps ==
    ASSUME ProxyInv, Running, NEW w \in Workers, NEW i \in Conns, NEW c \in Clients,
           worker[w].pc \in Serving, worker[w].conn = i, conn[i].client = c,
           worker' \in [Workers -> WorkerRecs], \A v \in Workers \ {w} : worker'[v] = worker[v],
           conn' \in [Conns -> ConnRecs], \A j \in Conns \ {i} : conn'[j] = conn[j],
           handle' \in [Handles -> Clients \cup {Nobody}], HandlesOf(c),
           call[c].pc # "dead" =>
             Talk(c, call[c], conn'[i]) /\ Answers(call[c], conn'[i]) /\ OwnsOk(c)',
           \/ conn'[i].sv = FALSE /\ worker'[w].pc \notin Serving
           \/ /\ conn'[i].sv = TRUE /\ conn'[i].client = c /\ worker'[w].pc \in Serving /\ worker'[w].conn = i
              /\ Turn(worker'[w], conn'[i], call[c], handle'),
           failures' \in Nat,
           UNCHANGED <<call, held, backlog, client_q, main, do_exit, calls, ghost>>
    PROVE  ProxyInv'
  <1>1. /\ call' = call /\ held' = held /\ ghost' = ghost /\ Running' /\ main' = main
        /\ backlog' = backlog /\ client_q' = client_q
    BY DEF Running
  <1>2. /\ conn[i].sv = TRUE /\ \A j \in Conns \ {i} : conn[j].sv = TRUE => conn[j].client # c
        /\ call[c].pc # "dead" => call[c].pc \in Busy /\ call[c].conn = i
    <2>1. C(w) = conn[i]
      BY DEF C
    <2>2. /\ C(w).sv = TRUE
          /\ call[C(w).client].pc # "dead" => call[C(w).client].pc \in Busy /\ call[C(w).client].conn = worker[w].conn
          /\ \A j \in Conns \ {worker[w].conn} : conn[j].sv = TRUE => conn[j].client # C(w).client
      BY InTurn
    <2> QED
      BY <2>1, <2>2
  <1>3. Frame(c, i)
    <2>1. \A h \in Handles, d \in Clients \ {c} : handle'[h] = d <=> handle[h] = d
      BY ProxyAssumption DEF HandlesOf
    <2> QED
      BY <1>1, <1>2, <2>1 DEF Frame
  <1>4. CallOk(c)' /\ OwnsOk(c)'
    <2>1. CallOk(c)
      BY DEF ProxyInv
    <2>2. CASE call[c].pc = "dead"
      <3>1. call[c].pc \notin Busy
        BY <2>2 DEF Busy, First
      <3> QED
        BY ONLY <1>1, <2>1, <2>2, <3>1 DEF CallOk, OwnsOk
    <2>3. CASE call[c].pc # "dead"
      <3>1. K(c)' = conn'[i] /\ OwnsOk(c)' /\ Talk(c, call[c], conn'[i]) /\ Answers(call[c], conn'[i])
        BY <1>1, <1>2, <2>3 DEF K
      <3> QED
        BY ONLY <1>1, <2>1, <3>1 DEF CallOk
    <2> QED
      BY <2>2, <2>3
  <1>5. ConnOk(i)'
    <2> SUFFICES ASSUME conn'[i].sv = TRUE PROVE ConnOk(i)'
      BY DEF ConnOk
    <2>1. \A j \in Conns : conn'[j].sv = TRUE /\ conn'[j].client = c => j = i
      BY <1>2
    <2> QED
      BY <1>1, <1>2, <2>1 DEF ConnOk
  <1>6. ~Queued(i) /\ \A v \in Workers \ {w} : worker[v].conn # i \/ worker[v].pc \notin Serving
    BY DEF ProxyInv, PlacesOk, ServedBy
  <1>7. ASSUME NEW v \in Workers PROVE WorkerOk(v)'
    <2>1. CASE v # w
      BY <1>3, <1>6, <2>1, FrameKeeps
    <2>2. CASE v = w
      <3>1. worker'[w].pc \in Serving => worker'[w].conn = i /\ C(w)' = conn'[i]
        BY DEF C
      <3> QED
        BY <1>1, <2>2, <3>1 DEF WorkerOk
    <2> QED
      BY <2>1, <2>2
  <1>8. PlacesOk' /\ \A j \in Conns : Queued(j)' <=> Queued(j)
    <2>1. \A j \in Conns : conn'[j].sv = TRUE => conn[j].sv = TRUE
      BY <1>2
    <2>2. \A v \in Workers :
             /\ worker'[v].pc \in Serving => worker[v].pc \in Serving /\ worker'[v].conn = worker[v].conn
             /\ worker[v].pc \in Serving /\ conn'[worker[v].conn].sv = TRUE => worker'[v].pc \in Serving
      OBVIOUS
    <2> QED
      BY <1>1, <2>1, <2>2, PlacesStay
  <1>9. ProxyType'
    BY <1>1 DEF ProxyInv, ProxyType
  <1>10. CrashHasCause'
    BY <1>1 DEF ProxyInv, CrashHasCause, Crashed
  <1> QED
    BY <1>3, <1>4, <1>5, <1>6, <1>7, <1>8, <1>9, <1>10, FrameKeeps DEF ProxyInv

\* Handles nobody opens or closes.
LEMMA OwnsStay ==
    ASSUME ProxyInv, Running, Running', NEW c \in Clients, NEW i \in Conns, call[c].pc \in Busy, call[c].conn = i,
           conn'[i].ran = conn[i].ran \/ call[c].req.type \notin Opens \cup Closes,
           UNCHANGED <<call, held, handle, ghost>>
    PROVE  OwnsOk(c)'
  <1>1. call' = call /\ held' = held /\ handle' = handle /\ ghost' = ghost /\ OwnsOk(c)
    BY DEF ProxyInv
  <1>2. K(c) = conn[i] /\ K(c)' = conn'[i]
    BY <1>1 DEF K
  <1>3. \A h : (Closed(c, h)' <=> Closed(c, h)) /\ (Gets(c, h)' <=> Gets(c, h))
    BY <1>1, <1>2 DEF Closed, Gets
  <1> QED
    BY ONLY <1>1, <1>3, Running, Running' DEF OwnsOk

LEMMA xpn_proxy_server_read_fullpathKeeps ==
    ASSUME ProxyInv, NEW w \in Workers, xpn_proxy_server_read_fullpath(w) PROVE ProxyInv'
  <1>0. /\ Running /\ worker[w].pc = "serve" /\ worker[w].pc \in Serving /\ worker[w].ret > 0
        /\ worker' = [worker EXCEPT ![w].ret = @ - 1]
        /\ \/ Came(C(w)) /\ conn' = [conn EXCEPT ![worker[w].conn].up = Tail(@)]
           \/ Gone(C(w)) /\ UNCHANGED conn
        /\ UNCHANGED <<call, held, backlog, client_q, main, do_exit, calls, handle, failures, ghost>>
        /\ conn \in [Conns -> ConnRecs] /\ worker \in [Workers -> WorkerRecs]
        /\ handle \in [Handles -> Clients \cup {Nobody}] /\ failures \in Nat
    BY DEF xpn_proxy_server_read_fullpath, At, workerly, Serving, ProxyInv, ProxyType
  <1>1. PICK i \in Conns, k \in ConnRecs, b \in WorkerRecs, c \in Clients :
          i = worker[w].conn /\ k = conn[i] /\ k = C(w) /\ b = worker[w] /\ c = k.client
    BY <1>0, InTurn
  <1>2. /\ k.sv = TRUE /\ Turn(b, k, call[c], handle) /\ b.pc = "serve"
        /\ call[c].pc # "dead" => /\ call[c].pc \in Busy /\ call[c].conn = i
                                  /\ Talk(c, call[c], k) /\ Answers(call[c], k)
    BY <1>0, <1>1, InTurn
  <1>3. PICK d \in WorkerRecs : /\ worker' = [worker EXCEPT ![w] = d]
                                /\ d = [pc |-> b.pc, conn |-> i, req |-> b.req, ret |-> b.ret - 1]
    <2>1. PICK d : d = [b EXCEPT !.ret = @ - 1]
      OBVIOUS
    <2>2. d = [pc |-> b.pc, conn |-> i, req |-> b.req, ret |-> b.ret - 1]
      BY <1>1, <2>1 DEF WorkerRecs
    <2>3. d \in WorkerRecs
      <3>1. b.ret \in Int
        BY DEF WorkerRecs
      <3>2. b.ret - 1 \in Int
        BY ONLY <3>1
      <3> QED
        BY <2>2, <3>2 DEF WorkerRecs
    <2> QED
      BY <1>0, <1>1, <2>1, <2>2, <2>3
  <1>4. worker' \in [Workers -> WorkerRecs] /\ worker'[w] = d /\ \A v \in Workers \ {w} : worker'[v] = worker[v]
    BY ONLY <1>0, <1>3, w \in Workers
  <1>5. PICK k2 \in ConnRecs : /\ conn' = [conn EXCEPT ![i] = k2] /\ k2.client = c /\ k2.sv = TRUE /\ k2.cl = k.cl
                               /\ k2.down = k.down /\ k2.ran = k.ran
    <2>1. CASE conn' = conn
      BY <1>0, <1>1, <1>2, <2>1
    <2>2. CASE k.up # <<>> /\ conn' = [conn EXCEPT ![i].up = Tail(@)]
      <3>7. PICK k2 : k2 = [k EXCEPT !.up = Tail(@)]
        OBVIOUS
      <3>8. k2 = [client |-> k.client, up |-> Tail(k.up), down |-> k.down, cl |-> k.cl, sv |-> k.sv, ran |-> k.ran]
        BY <3>7 DEF ConnRecs
      <3>9. k2 \in ConnRecs
        <4>1. k.up \in Seq(Requests \cup {"tail", "data"})
          BY DEF ConnRecs
        <4>2. Tail(k.up) \in Seq(Requests \cup {"tail", "data"})
          BY ONLY <2>2, <4>1
        <4> QED
          BY <3>8, <4>2 DEF ConnRecs
      <3>10. conn' = [conn EXCEPT ![i] = k2]
        BY <1>0, <1>1, <2>2, <3>7
      <3> QED
        BY <1>1, <1>2, <3>8, <3>9, <3>10
    <2> QED
      BY <1>0, <1>1, <2>1, <2>2 DEF Came
  <1>6. conn' \in [Conns -> ConnRecs] /\ conn'[i] = k2 /\ \A j \in Conns \ {i} : conn'[j] = conn[j]
    BY ONLY <1>0, <1>5, k2 \in ConnRecs, i \in Conns
  <1>7. call[c].pc # "dead" => Talk(c, call[c], k2) /\ Answers(call[c], k2)
    BY ONLY <1>1, <1>2, <1>5 DEF Talk, Truth, Answers
  <1>8. Turn(d, k2, call[c], handle)
    <2>1. Fresh(k, call[c], b.req, handle) /\ b.ret \in Nat /\ b.ret > 0
      BY <1>0, <1>1, <1>2 DEF Turn
    <2>2. Fresh(k2, call[c], b.req, handle)
      BY ONLY <1>1, <1>5, <2>1 DEF Fresh
    <2>3. d.pc = "serve" /\ d.req = b.req /\ d.ret = b.ret - 1
      BY ONLY <1>2, <1>3
    <2>4. d.ret \in Nat
      BY ONLY <2>1, <2>3
    <2> QED
      BY ONLY <2>2, <2>3, <2>4 DEF Turn
  <1>9. Running'
    BY <1>0 DEF Running
  <1>10. call[c].pc # "dead" => OwnsOk(c)'
    BY <1>0, <1>1, <1>2, <1>5, <1>6, <1>9, OwnsStay
  <1>11. /\ conn'[i].sv = TRUE /\ conn'[i].client = c /\ worker'[w].pc \in Serving /\ worker'[w].conn = i
         /\ Turn(worker'[w], conn'[i], call[c], handle') /\ handle' = handle /\ failures' \in Nat
         /\ handle' \in [Handles -> Clients \cup {Nobody}] /\ HandlesOf(c)
    BY <1>0, <1>1, <1>3, <1>4, <1>5, <1>6, <1>8 DEF Serving, HandlesOf
  <1>12. /\ call[c].pc # "dead" => Talk(c, call[c], conn'[i]) /\ Answers(call[c], conn'[i]) /\ OwnsOk(c)'
         /\ UNCHANGED <<call, held, backlog, client_q, main, do_exit, calls, ghost>>
         /\ worker[w].conn = i /\ conn[i].client = c
    BY <1>0, <1>1, <1>6, <1>7, <1>10
  <1> QED
    BY <1>0, <1>4, <1>6, <1>11, <1>12, TurnKeeps

\* write_n_bytes of a worker: k is the connection with the item in it, before it is closed.
Sent(k, item, ran, next) ==
    [client |-> k.client, up |-> k.up, down |-> Append(k.down, item), cl |-> k.cl,
     sv |-> next # "close", ran |-> k.ran \o ran]

NextTurn(pc, ret, req, k, a, hd) ==
    \A b \in WorkerRecs : b.pc = pc /\ b.ret = ret /\ b.req = req => Turn(b, k, a, hd)

LEMMA SendKeeps ==
    ASSUME ProxyInv, Running, NEW w \in Workers, NEW item \in Items, NEW ran \in Seq(Int),
           NEW next \in {"close", "more", "body"}, NEW ret \in Int, worker[w].pc \in Serving,
           Send(w, item, ran, next, ret), NEW k, k = C(w), NEW d, d = Sent(k, item, ran, next),
           handle' \in [Handles -> Clients \cup {Nobody}], HandlesOf(k.client),
           call[k.client].pc # "dead" => Talk(k.client, call[k.client], d) /\ Answers(call[k.client], d),
           call[k.client].pc # "dead" /\ Running' /\ K(k.client)'.ran = d.ran => OwnsOk(k.client)',
           next # "close" => NextTurn(next, ret, worker[w].req, d, call[k.client], handle'),
           failures' \in Nat,
           UNCHANGED <<call, held, backlog, client_q, main, do_exit, calls, ghost>>
    PROVE  ProxyInv'
  <1>1. PICK i \in Conns, b \in WorkerRecs, c \in Clients :
          /\ i = worker[w].conn /\ k = conn[i] /\ b = worker[w] /\ c = k.client /\ k \in ConnRecs
    BY InTurn
  <1>2. /\ k.sv = TRUE
        /\ call[c].pc # "dead" => call[c].pc \in Busy /\ call[c].conn = i /\ k.cl = TRUE
    BY <1>1, InTurn
  <1>3. /\ conn \in [Conns -> ConnRecs] /\ worker \in [Workers -> WorkerRecs]
    BY DEF ProxyInv, ProxyType
  <1>4. PICK e : e = [k EXCEPT !.down = Append(@, item), !.ran = @ \o ran]
    OBVIOUS
  <1>5. e = [client |-> c, up |-> k.up, down |-> Append(k.down, item), cl |-> k.cl, sv |-> TRUE, ran |-> k.ran \o ran]
    BY <1>1, <1>2, <1>4 DEF ConnRecs
  <1>6. e \in ConnRecs
    <2>1. k.down \in Seq(Items) /\ k.ran \in Seq(Int)
      BY <1>1 DEF ConnRecs
    <2>2. Append(k.down, item) \in Seq(Items) /\ k.ran \o ran \in Seq(Int)
      BY ONLY <2>1, item \in Items, ran \in Seq(Int)
    <2> QED
      BY <1>1, <1>5, <2>2 DEF ConnRecs
  <1>7. /\ conn' = [conn EXCEPT ![i] = IF next = "close" THEN HalfClosed(e, "sv") ELSE e]
        /\ worker' = [worker EXCEPT ![w] = IF next = "close" THEN AtLoop ELSE [b EXCEPT !.pc = next, !.ret = ret]]
    BY <1>1, <1>4 DEF Send
  <1>8. /\ d.client = c /\ d.up = k.up /\ d.down = Append(k.down, item) /\ d.cl = k.cl /\ d.ran = k.ran \o ran
        /\ d.sv = (next # "close")
    BY <1>1 DEF Sent
  <1>9. PICK k2 \in ConnRecs :
          /\ conn' = [conn EXCEPT ![i] = k2] /\ k2.sv = (next # "close")
          /\ next # "close" => k2.client = c /\ k2.down = d.down /\ k2.ran = d.ran
          /\ call[c].pc # "dead" => /\ k2.client = c /\ k2.cl = TRUE /\ k2.down = d.down /\ k2.ran = d.ran /\ d.cl = TRUE
    <2>1. CASE next = "close"
      <3>1. PICK k2 : k2 = HalfClosed(e, "sv")
        OBVIOUS
      <3>2. k2 \in ConnRecs /\ k2.sv = FALSE
            /\ (e.cl = TRUE => k2.cl = TRUE /\ k2.client = e.client /\ k2.down = e.down /\ k2.ran = e.ran)
        BY <1>6, <3>1, ServerEndClosed
      <3>3. /\ e.cl = k.cl /\ e.client = c /\ e.down = d.down /\ e.ran = d.ran
        BY <1>5, <1>8
      <3>4. conn' = [conn EXCEPT ![i] = k2]
        BY <1>7, <2>1, <3>1
      <3> QED
        BY <1>2, <1>8, <2>1, <3>2, <3>3, <3>4
    <2>2. CASE next # "close"
      BY <1>2, <1>5, <1>6, <1>7, <1>8, <2>2
    <2> QED
      BY <2>1, <2>2
  <1>10. conn' \in [Conns -> ConnRecs] /\ conn'[i] = k2 /\ \A j \in Conns \ {i} : conn'[j] = conn[j]
    BY ONLY <1>3, <1>9, k2 \in ConnRecs, i \in Conns
  <1>11. PICK b2 \in WorkerRecs :
          /\ worker' = [worker EXCEPT ![w] = b2]
          /\ next = "close" => b2.pc \notin Serving
          /\ next # "close" => b2.pc = next /\ b2.ret = ret /\ b2.req = b.req /\ b2.conn = i
    <2>1. CASE next = "close"
      BY <1>7, <2>1, LoopIsWorker DEF Serving
    <2>2. CASE next # "close"
      <3>1. PICK b2 : b2 = [b EXCEPT !.pc = next, !.ret = ret]
        OBVIOUS
      <3>2. b2 = [pc |-> next, conn |-> i, req |-> b.req, ret |-> ret]
        BY <1>1, <3>1 DEF WorkerRecs
      <3>3. b2 \in WorkerRecs
        BY <2>2, <3>2 DEF WorkerRecs, Serving
      <3>4. worker' = [worker EXCEPT ![w] = b2]
        BY <1>7, <2>2, <3>1
      <3>5. b2.pc = next /\ b2.ret = ret /\ b2.req = b.req /\ b2.conn = i
        BY ONLY <3>2
      <3> QED
        BY ONLY <2>2, <3>3, <3>4, <3>5
    <2> QED
      BY <2>1, <2>2
  <1>12. worker' \in [Workers -> WorkerRecs] /\ worker'[w] = b2 /\ \A v \in Workers \ {w} : worker'[v] = worker[v]
    BY ONLY <1>3, <1>11, b2 \in WorkerRecs, w \in Workers
  <1>13. call[c].pc # "dead" => Talk(c, call[c], conn'[i]) /\ Answers(call[c], conn'[i])
    <2> SUFFICES ASSUME call[c].pc # "dead" PROVE Talk(c, call[c], k2) /\ Answers(call[c], k2)
      BY <1>10
    <2>1. /\ Talk(c, call[c], d) /\ Answers(call[c], d) /\ k2.client = c /\ k2.cl = TRUE
          /\ k2.down = d.down /\ k2.ran = d.ran /\ d.cl = TRUE /\ k2.sv = d.sv
      BY <1>1, <1>8, <1>9
    <2> QED
      BY ONLY <2>1 DEF Talk, Truth, Answers
  <1>14. call[c].pc # "dead" => OwnsOk(c)'
    <2> SUFFICES ASSUME call[c].pc # "dead" PROVE OwnsOk(c)'
      OBVIOUS
    <2>1. K(c)' = conn'[i]
      BY <1>2 DEF K
    <2>2. K(c)'.ran = d.ran /\ Running'
      BY <1>9, <1>10, <2>1 DEF Running
    <2> QED
      BY <1>1, <2>2
  <1>15. \/ conn'[i].sv = FALSE /\ worker'[w].pc \notin Serving
         \/ /\ conn'[i].sv = TRUE /\ conn'[i].client = c /\ worker'[w].pc \in Serving /\ worker'[w].conn = i
            /\ Turn(worker'[w], conn'[i], call[c], handle')
    <2>1. CASE next = "close"
      BY <1>9, <1>10, <1>11, <1>12, <2>1
    <2>2. CASE next # "close"
      <3>1. Turn(b2, d, call[c], handle')
        BY <1>1, <1>11, <2>2 DEF NextTurn
      <3>2. k2.client = c /\ d.client = c /\ k2.down = d.down /\ k2.ran = d.ran /\ k2.sv = TRUE /\ next \in Serving
        BY <1>8, <1>9, <2>2 DEF Serving
      <3>3. Turn(b2, k2, call[c], handle')
        BY ONLY <3>1, <3>2 DEF Turn, Fresh
      <3> QED
        BY <1>10, <1>11, <1>12, <2>2, <3>2, <3>3
    <2> QED
      BY <2>1, <2>2
  <1>16. HandlesOf(c)
    BY <1>1
  <1>17. /\ ProxyInv /\ Running /\ worker[w].pc \in Serving /\ worker[w].conn = i /\ conn[i].client = c
         /\ handle' \in [Handles -> Clients \cup {Nobody}] /\ failures' \in Nat
         /\ UNCHANGED <<call, held, backlog, client_q, main, do_exit, calls, ghost>>
    BY <1>1
  <1>18. conn' \in [Conns -> ConnRecs] /\ \A j \in Conns \ {i} : conn'[j] = conn[j]
    BY <1>10
  <1>19. worker' \in [Workers -> WorkerRecs] /\ \A v \in Workers \ {w} : worker'[v] = worker[v]
    BY <1>12
  <1>20. call[c].pc # "dead" => Talk(c, call[c], conn'[i]) /\ Answers(call[c], conn'[i]) /\ OwnsOk(c)'
    BY <1>13, <1>14
  <1> QED
    BY ONLY w \in Workers, i \in Conns, c \in Clients, <1>15, <1>16, <1>17, <1>18, <1>19, <1>20, TurnKeeps

\* A worker that has read the whole request.
LEMMA InServe ==
    ASSUME ProxyInv, Running, NEW w \in Workers, worker[w].pc = "serve", NEW k, k = C(w)
    PROVE  /\ worker[w].pc \in Serving /\ k \in ConnRecs /\ k.client \in Clients
           /\ k.down = <<>> /\ k.ran = <<>> /\ worker[w].req \in Requests
           /\ worker[w].req.type \in Closes => worker[w].req.h \in Handles /\ handle[worker[w].req.h] = k.client
           /\ call[k.client].pc # "dead" =>
                /\ call[k.client].pc \in First /\ call[k.client].pc \in Busy /\ call[k.client].req = worker[w].req
                /\ K(k.client) = k /\ k.cl = TRUE /\ Talk(k.client, call[k.client], k)
  <1>1. worker[w].pc \in Serving
    BY DEF Serving
  <1>2. /\ k \in ConnRecs /\ k.client \in Clients /\ Turn(worker[w], k, call[k.client], handle)
        /\ k = conn[worker[w].conn]
        /\ call[k.client].pc # "dead" =>
             /\ call[k.client].pc \in Busy /\ call[k.client].conn = worker[w].conn /\ k.cl = TRUE
             /\ Talk(k.client, call[k.client], k)
    BY <1>1, InTurn
  <1>3. Fresh(k, call[k.client], worker[w].req, handle)
    BY <1>2 DEF Turn
  <1>4. call[k.client].pc # "dead" => K(k.client) = k
    BY <1>2 DEF K
  <1> QED
    BY <1>1, <1>2, <1>3, <1>4 DEF Fresh

\* What a worker may answer to a request: the status v, with the results ran of the API,
\* and what it does next.
Answering(type, v, ran, next, ret) ==
    /\ type = "OPENDIR" => v = 0 /\ next = "more" /\ \E h \in Handles : ran = <<h>>
    /\ type = "WRITE" => v \in {0, -1} /\ ran = <<>>
    /\ type \notin {"OPENDIR", "WRITE"} => ran = <<v>> \/ (type = "READ" /\ v = -1 /\ ran = <<>>)
    /\ type \in Closes => v = 0
    /\ type \in {"OPEN", "CREAT"} => v \in Handles \cup {-1}
    /\ next = "more" =>
         /\ type \in {"READ", "GETATTR", "READDIR", "OPENDIR"} /\ ran = <<ret>>
         /\ v = IF type = "READ" THEN 1 ELSE 0
    /\ next = "body" => type = "WRITE"

LEMMA ServeKeeps ==
    ASSUME ProxyInv, Running, NEW w \in Workers, NEW v \in Int, NEW ran \in Seq(Int),
           NEW next \in {"close", "more", "body"}, NEW ret \in Int, worker[w].pc = "serve",
           Send(w, Item("status", v), ran, next, ret), NEW k, k = C(w),
           Answering(worker[w].req.type, v, ran, next, ret),
           handle' \in [Handles -> Clients \cup {Nobody}], HandlesOf(k.client),
           call[k.client].pc # "dead" /\ Running' /\ K(k.client)'.ran = ran => OwnsOk(k.client)',
           failures' \in Nat,
           UNCHANGED <<call, held, backlog, client_q, main, do_exit, calls, ghost>>
    PROVE  ProxyInv'
  <1>1. PICK item \in Items : item = Item("status", v) /\ item.v = v
    BY DEF Items, Item
  <1>2. PICK c \in Clients : c = k.client
    BY InServe
  <1>3. PICK r \in Requests : r = worker[w].req
    BY InServe
  <1>4. /\ worker[w].pc \in Serving /\ k.down = <<>> /\ k.ran = <<>>
        /\ call[c].pc # "dead" => /\ call[c].pc \in First /\ call[c].req = r /\ k.cl = TRUE
                                  /\ Talk(c, call[c], k)
    BY <1>2, <1>3, InServe
  <1>5. PICK d : d = Sent(k, item, ran, next)
    OBVIOUS
  <1>6. /\ d.client = c /\ d.cl = k.cl /\ d.sv = (next # "close") /\ d.down = <<item>> /\ d.ran = ran
    <2>1. <<>> \o ran = ran /\ Append(<<>>, item) = <<item>>
      OBVIOUS
    <2>2. d = [client |-> k.client, up |-> k.up, down |-> Append(<<>>, item), cl |-> k.cl,
               sv |-> next # "close", ran |-> <<>> \o ran]
      BY <1>4, <1>5 DEF Sent
    <2>3. d = [client |-> c, up |-> k.up, down |-> <<item>>, cl |-> k.cl, sv |-> next # "close", ran |-> ran]
      BY ONLY <1>2, <2>1, <2>2
    <2> QED
      BY ONLY <2>3
  <1>7. DOMAIN d.down = {1} /\ d.down[1].v = v /\ Len(d.down) = 1 /\ d.down # <<>>
    BY ONLY <1>1, <1>6
  <1>8. Answering(r.type, v, ran, next, ret)
    BY <1>3
  <1>9. ASSUME call[c].pc # "dead" PROVE Talk(c, call[c], d) /\ Answers(call[c], d)
    <2>1. call[c].pc \in First /\ call[c].req = r /\ d.cl = TRUE /\ d.client = c
      BY <1>4, <1>6, <1>9
    <2>2. call[c].pc \notin {"data", "send", "status2", "more"}
      BY <2>1 DEF First
    <2>3. ASSUME NEW n \in DOMAIN d.down
          PROVE  IF n = 1 /\ call[c].pc \in First /\ call[c].req.type \in {"WRITE", "OPENDIR"}
                 THEN d.down[n].v = 0 \/ (call[c].req.type = "WRITE" /\ d.down[n].v = -1)
                 ELSE call[c].pc # "data" => Truth(call[c], d, d.down[n].v)
      <3>1. n = 1 /\ d.down[n].v = v
        BY <1>7, <2>3
      <3>2. CASE r.type \in {"WRITE", "OPENDIR"}
        BY <1>8, <2>1, <3>1, <3>2 DEF Answering
      <3>3. CASE r.type \notin {"WRITE", "OPENDIR"}
        <4>1. ran = <<v>> \/ (v = -1 /\ r.type = "READ")
          BY <1>8, <3>3 DEF Answering
        <4>2. Truth(call[c], d, v)
          BY <1>6, <2>1, <4>1 DEF Truth
        <4> QED
          BY <2>1, <3>1, <3>3, <4>2
      <3> QED
        BY <3>2, <3>3
    <2>4. r.type \in Closes => d.ran \in {<<>>, << 0 >>}
      BY <1>6, <1>8 DEF Answering, Closes
    <2>5. r.type \in Opens => \E h \in Handles \cup {-1} : d.ran = <<h>>
      BY <1>6, <1>8 DEF Answering, Opens
    <2>6. Talk(c, call[c], d)
      BY <2>1, <2>2, <2>3, <2>4, <2>5 DEF Talk
    <2>7. Answers(call[c], d)
      <3>1. r.type = "OPENDIR" => d.sv = TRUE
        BY <1>6, <1>8 DEF Answering
      <3> QED
        BY <1>7, <2>1, <3>1 DEF Answers
    <2> QED
      BY <2>6, <2>7
  <1>10. ASSUME next # "close" PROVE NextTurn(next, ret, worker[w].req, d, call[c], handle')
    <2> SUFFICES ASSUME NEW b \in WorkerRecs, b.pc = next, b.ret = ret, b.req = r
                 PROVE  Turn(b, d, call[c], handle')
      BY <1>3 DEF NextTurn
    <2>1. call[c].pc # "dead" => call[c].pc \in First /\ call[c].req = r
      BY <1>4
    <2>2. CASE next = "more"
      <3>1. /\ r.type \in {"READ", "GETATTR", "READDIR", "OPENDIR"} /\ d.ran = <<b.ret>>
            /\ d.down[1].v = IF r.type = "READ" THEN 1 ELSE 0
        BY <1>6, <1>7, <1>8, <2>2 DEF Answering
      <3> QED
        BY <1>7, <2>1, <2>2, <3>1 DEF Turn
    <2>3. CASE next = "body"
      <3>1. r.type = "WRITE" /\ d.ran = <<>>
        BY <1>6, <1>8, <2>3 DEF Answering
      <3> QED
        BY <1>7, <2>1, <2>3, <3>1 DEF Turn
    <2> QED
      BY <1>10, <2>2, <2>3
  <1>11. /\ ProxyInv /\ Running /\ worker[w].pc \in Serving /\ Send(w, item, ran, next, ret) /\ k = C(w)
         /\ d = Sent(k, item, ran, next) /\ handle' \in [Handles -> Clients \cup {Nobody}] /\ HandlesOf(k.client)
         /\ failures' \in Nat /\ UNCHANGED <<call, held, backlog, client_q, main, do_exit, calls, ghost>>
    BY <1>1, <1>4, <1>5
  <1>12. call[k.client].pc # "dead" => Talk(k.client, call[k.client], d) /\ Answers(call[k.client], d)
    BY <1>2, <1>9
  <1>13. call[k.client].pc # "dead" /\ Running' /\ K(k.client)'.ran = d.ran => OwnsOk(k.client)'
    BY <1>6
  <1>14. next # "close" => NextTurn(next, ret, worker[w].req, d, call[k.client], handle')
    BY <1>2, <1>10
  <1> QED
    BY ONLY w \in Workers, item \in Items, ran \in Seq(Int), next \in {"close", "more", "body"}, ret \in Int,
            <1>11, <1>12, <1>13, <1>14, SendKeeps

\* A request about no handle is answered.
LEMMA PlainKeeps ==
    ASSUME ProxyInv, Running, NEW w \in Workers, NEW v \in Int, NEW ran \in Seq(Int),
           NEW next \in {"close", "more", "body"}, NEW ret \in Int, worker[w].pc = "serve",
           Send(w, Item("status", v), ran, next, ret), Answering(worker[w].req.type, v, ran, next, ret),
           worker[w].req.type \notin Opens \cup Closes, failures' \in Nat,
           UNCHANGED <<call, held, backlog, client_q, main, do_exit, calls, handle, ghost>>
    PROVE  ProxyInv'
  <1>1. PICK k : k = C(w)
    OBVIOUS
  <1>2. handle' \in [Handles -> Clients \cup {Nobody}] /\ HandlesOf(k.client)
    BY DEF ProxyInv, ProxyType, HandlesOf
  <1>3. call[k.client].pc # "dead" /\ Running' => OwnsOk(k.client)'
    <2> SUFFICES ASSUME call[k.client].pc # "dead", Running' PROVE OwnsOk(k.client)'
      OBVIOUS
    <2>1. PICK c \in Clients : c = k.client
      BY <1>1, InServe
    <2>2. call[c].pc \in Busy /\ call[c].req = worker[w].req
      BY <1>1, <2>1, InServe
    <2>3. PICK i \in Conns : i = call[c].conn
      BY <2>2, InCall
    <2>4. call[c].req.type \notin Opens \cup Closes /\ UNCHANGED <<call, held, handle, ghost>>
      BY <2>2
    <2> QED
      BY ONLY ProxyInv, Running, Running', c \in Clients, i \in Conns, <2>1, <2>2, <2>3, <2>4, OwnsStay
  <1>4. UNCHANGED <<call, held, backlog, client_q, main, do_exit, calls, ghost>>
    OBVIOUS
  <1> QED
    BY <1>1, <1>2, <1>3, <1>4, ServeKeeps

\* Serves and what it leaves alone.
LEMMA ServesIs ==
    ASSUME ProxyInv, NEW w \in Workers, NEW type, Serves(w, type)
    PROVE  Running /\ worker[w].pc = "serve" /\ worker[w].req.type = type
  BY DEF Serves, At

LEMMA AnswerKeeps ==
    ASSUME ProxyInv, NEW w \in Workers, NEW type, Serves(w, type), NEW next \in {"close", "more"}, Answer(w, next),
           type \in {"RM", "RENAME", "MKDIR", "RMDIR", "GETATTR", "READDIR"},
           next = "more" <=> type \in {"GETATTR", "READDIR"},
           UNCHANGED <<servely, handle, failures, ghost>>
    PROVE  ProxyInv'
  <1>1. Running /\ worker[w].pc = "serve" /\ worker[w].req.type = type /\ type \notin Opens \cup Closes
        /\ failures' \in Nat
        /\ UNCHANGED <<call, held, backlog, client_q, main, do_exit, calls, handle, ghost>>
    BY ServesIs DEF servely, workerly, Opens, Closes, ProxyInv, ProxyType
  <1>2. PICK v \in {0, -1} : Status(w, v, IF v = 0 THEN next ELSE "close")
    BY DEF Answer
  <1>3. PICK nx \in {"close", "more", "body"} : nx = IF v = 0 THEN next ELSE "close"
    OBVIOUS
  <1>4. v \in Int /\ <<v>> \in Seq(Int) /\ Send(w, Item("status", v), <<v>>, nx, v)
    BY <1>2, <1>3 DEF Status
  <1>5. Answering(type, v, <<v>>, nx, v)
    BY <1>3 DEF Answering, Closes
  <1> QED
    BY <1>1, <1>4, <1>5, PlainKeeps

LEMMA serve_readKeeps == ASSUME ProxyInv, NEW w \in Workers, serve_read(w) PROVE ProxyInv'
  <1>1. Serves(w, "READ") /\ failures' \in Nat
        /\ UNCHANGED <<call, held, backlog, client_q, main, do_exit, calls, handle, ghost>>
    BY DEF serve_read, servely, workerly, ProxyInv, ProxyType
  <1>2. Running /\ worker[w].pc = "serve" /\ worker[w].req.type = "READ" /\ "READ" \notin Opens \cup Closes
    BY <1>1, ServesIs DEF Opens, Closes
  <1>3. PICK v \in {-1, 0, 1} : Status(w, v, IF v > 0 THEN "more" ELSE "close")
    BY DEF serve_read
  <1>4. PICK nx \in {"close", "more", "body"} : nx = IF v = 1 THEN "more" ELSE "close"
    OBVIOUS
  <1>5. v \in Int /\ <<v>> \in Seq(Int) /\ Send(w, Item("status", v), <<v>>, nx, v)
    BY <1>3, <1>4 DEF Status
  <1>6. Answering("READ", v, <<v>>, nx, v)
    BY <1>4 DEF Answering, Closes
  <1> QED
    BY <1>1, <1>2, <1>5, <1>6, PlainKeeps

LEMMA serve_writeKeeps == ASSUME ProxyInv, NEW w \in Workers, serve_write(w) PROVE ProxyInv'
  <1>1. Serves(w, "WRITE") /\ failures' \in Nat /\ Send(w, Item("status", 0), <<>>, "body", 0)
        /\ UNCHANGED <<call, held, backlog, client_q, main, do_exit, calls, handle, ghost>>
    BY DEF serve_write, servely, workerly, ProxyInv, ProxyType
  <1>2. Running /\ worker[w].pc = "serve" /\ worker[w].req.type = "WRITE" /\ "WRITE" \notin Opens \cup Closes
    BY <1>1, ServesIs DEF Opens, Closes
  <1>3. Answering("WRITE", 0, <<>>, "body", 0) /\ <<>> \in Seq(Int) /\ 0 \in Int
    BY DEF Answering, Closes
  <1> QED
    BY <1>1, <1>2, <1>3, PlainKeeps

LEMMA NoBufferKeeps == ASSUME ProxyInv, NEW w \in Workers, NoBuffer(w) PROVE ProxyInv'
  <1>1. (Serves(w, "READ") \/ Serves(w, "WRITE")) /\ failures \in Nat
    BY DEF NoBuffer, ProxyInv, ProxyType
  <1>2. PICK m \in Int : m = -1
    OBVIOUS
  <1>3. /\ failures' = failures + 1 /\ Send(w, Item("status", m), <<>>, "close", m) /\ failures \in Nat
        /\ UNCHANGED <<call, held, backlog, client_q, main, do_exit, calls, handle, ghost>>
    BY <1>2 DEF NoBuffer, servely, workerly, ProxyInv, ProxyType
  <1>4. failures' \in Nat
    BY ONLY <1>3
  <1>5. PICK type \in {"READ", "WRITE"} : Serves(w, type)
    BY <1>1
  <1>6. Running /\ worker[w].pc = "serve" /\ worker[w].req.type = type /\ type \notin Opens \cup Closes
    BY <1>5, ServesIs DEF Opens, Closes
  <1>7. Answering(type, m, <<>>, "close", m) /\ <<>> \in Seq(Int)
    BY <1>2 DEF Answering, Closes
  <1> QED
    BY <1>3, <1>4, <1>6, <1>7, PlainKeeps

\* A request that opens: the handle h goes to the client of the connection.
LEMMA OpenedKeeps ==
    ASSUME ProxyInv, Running, NEW w \in Workers, NEW v \in Int, NEW h \in Handles, NEW next \in {"close", "more"},
           worker[w].pc = "serve", worker[w].req.type \in Opens,
           Send(w, Item("status", v), <<h>>, next, h), Answering(worker[w].req.type, v, <<h>>, next, h),
           handle[h] = Nobody, handle' = [handle EXCEPT ![h] = C(w).client], failures' \in Nat,
           UNCHANGED <<call, held, backlog, client_q, main, do_exit, calls, ghost>>
    PROVE  ProxyInv'
  <1>1. PICK k : k = C(w)
    OBVIOUS
  <1>2. PICK c \in Clients : c = k.client
    BY <1>1, InServe
  <1>3. handle \in [Handles -> Clients \cup {Nobody}] /\ h \in Int
    BY HandlesAre DEF ProxyInv, ProxyType
  <1>4. /\ handle' \in [Handles -> Clients \cup {Nobody}] /\ handle'[h] = c
        /\ \A g \in Handles \ {h} : handle'[g] = handle[g]
    BY <1>1, <1>2, <1>3
  <1>5. HandlesOf(k.client)
    BY <1>2, <1>4 DEF HandlesOf
  <1>6. call[k.client].pc # "dead" /\ Running' /\ K(k.client)'.ran = <<h>> => OwnsOk(k.client)'
    <2> SUFFICES ASSUME call[c].pc # "dead", Running', K(c)'.ran = <<h>> PROVE OwnsOk(c)'
      BY <1>2
    <2>1. /\ call[c].pc \in Busy /\ call[c].req = worker[w].req /\ K(c).ran = <<>> /\ call' = call /\ held' = held
          /\ ghost' = ghost /\ OwnsOk(c) /\ c # Nobody
      BY <1>1, <1>2, InServe, ProxyAssumption DEF ProxyInv
    <2>2. call[c].req.type \in Opens /\ call[c].req.type \notin Closes
      BY <2>1 DEF Opens, Closes
    <2>3. \A g \in Handles : /\ ~Closed(c, g) /\ ~Closed(c, g)' /\ ~Gets(c, g)
                             /\ Gets(c, g)' <=> g = h
      BY <2>1, <2>2 DEF Closed, Gets
    <2> QED
      BY <1>4, <2>1, <2>3 DEF OwnsOk
  <1>7. <<h>> \in Seq(Int)
    BY <1>3
  <1>8. /\ ProxyInv /\ Running /\ next \in {"close", "more", "body"} /\ worker[w].pc = "serve" /\ k = C(w)
        /\ Send(w, Item("status", v), <<h>>, next, h) /\ Answering(worker[w].req.type, v, <<h>>, next, h)
        /\ handle' \in [Handles -> Clients \cup {Nobody}] /\ failures' \in Nat
        /\ UNCHANGED <<call, held, backlog, client_q, main, do_exit, calls, ghost>>
    BY <1>1, <1>4
  <1> QED
    BY ONLY w \in Workers, v \in Int, <1>3, <1>5, <1>6, <1>7, <1>8, ServeKeeps

LEMMA OpenHandleKeeps ==
    ASSUME ProxyInv, NEW w \in Workers, NEW type \in {"OPEN", "CREAT"}, Serves(w, type), OpenHandle(w, "close"),
           UNCHANGED <<servely, failures>>
    PROVE  ProxyInv'
  <1>1. Running /\ worker[w].pc = "serve" /\ worker[w].req.type = type /\ type \in Opens /\ type \notin Closes
        /\ failures' \in Nat
        /\ UNCHANGED <<call, held, backlog, client_q, main, do_exit, calls, ghost>>
    BY ServesIs DEF servely, workerly, OpenHandle, Opens, Closes, ProxyInv, ProxyType
  <1>2. ASSUME NEW h \in FreeHandles(FileHandles), handle' = [handle EXCEPT ![h] = C(w).client], Status(w, h, "close")
        PROVE  ProxyInv'
    <2>1. h \in Handles /\ handle[h] = Nobody /\ h \in Int
      BY HandlesAre DEF FreeHandles, Handles
    <2>2. Send(w, Item("status", h), <<h>>, "close", h)
      BY <1>2 DEF Status
    <2>3. Answering(type, h, <<h>>, "close", h)
      BY <2>1 DEF Answering, Closes
    <2> QED
      BY <1>1, <1>2, <2>1, <2>2, <2>3, OpenedKeeps
  <1>3. ASSUME Status(w, -1, "close"), UNCHANGED handle PROVE ProxyInv'
    <2>1. PICK m \in Int : m = -1
      OBVIOUS
    <2>2. Send(w, Item("status", m), <<m>>, "close", m) /\ <<m>> \in Seq(Int)
      BY <1>3, <2>1 DEF Status
    <2>3. Answering(type, m, <<m>>, "close", m)
      BY <2>1 DEF Answering, Closes
    <2>4. PICK k : k = C(w)
      OBVIOUS
    <2>5. handle' \in [Handles -> Clients \cup {Nobody}] /\ HandlesOf(k.client)
      BY <1>3 DEF ProxyInv, ProxyType, HandlesOf
    <2>6. call[k.client].pc # "dead" /\ Running' /\ K(k.client)'.ran = <<m>> => OwnsOk(k.client)'
      <3> SUFFICES ASSUME NEW c \in Clients, c = k.client, call[c].pc # "dead", Running', K(c)'.ran = <<m>>
                   PROVE  OwnsOk(c)'
        BY <1>1, <2>4, InServe
      <3>1. /\ call[c].pc \in Busy /\ call[c].req = worker[w].req /\ K(c).ran = <<>> /\ call' = call /\ held' = held
            /\ ghost' = ghost /\ OwnsOk(c) /\ handle' = handle
        BY <1>1, <1>3, <2>4, InServe DEF ProxyInv
      <3>2. \A g \in Handles : g # m
        BY <2>1, HandlesAre
      <3>3. \A g \in Handles : ~Closed(c, g) /\ ~Closed(c, g)' /\ ~Gets(c, g) /\ ~Gets(c, g)'
        BY <1>1, <3>1, <3>2 DEF Closed, Gets
      <3> QED
        BY <1>1, <3>1, <3>3 DEF OwnsOk
    <2> QED
      BY <1>1, <2>2, <2>3, <2>4, <2>5, <2>6, ServeKeeps
  <1> QED
    BY <1>2, <1>3 DEF OpenHandle

\* A request that closes: the handle was the client's.
LEMMA DropHandleKeeps ==
    ASSUME ProxyInv, NEW w \in Workers, NEW type \in Closes, Serves(w, type), DropHandle(w),
           UNCHANGED <<servely, failures, ghost>>
    PROVE  ProxyInv'
  <1>1. Running /\ worker[w].pc = "serve" /\ worker[w].req.type = type /\ type \notin Opens /\ failures' \in Nat
        /\ UNCHANGED <<call, held, backlog, client_q, main, do_exit, calls, ghost>>
    BY ServesIs DEF servely, workerly, Opens, Closes, ProxyInv, ProxyType
  <1>2. PICK k : k = C(w)
    OBVIOUS
  <1>3. PICK c \in Clients : c = k.client
    BY <1>1, <1>2, InServe
  <1>4. PICK h \in Handles : h = worker[w].req.h /\ handle[h] = c
    BY <1>1, <1>2, <1>3, InServe
  <1>5. c # Nobody /\ handle \in [Handles -> Clients \cup {Nobody}]
    BY ProxyAssumption DEF ProxyInv, ProxyType
  <1>6. /\ Send(w, Item("status", 0), << 0 >>, "close", 0)
        /\ handle' = [handle EXCEPT ![h] = Nobody]
    BY <1>4, <1>5 DEF DropHandle, Status
  <1>7. /\ handle' \in [Handles -> Clients \cup {Nobody}] /\ handle'[h] = Nobody
        /\ \A g \in Handles \ {h} : handle'[g] = handle[g]
    BY ONLY <1>5, <1>6, h \in Handles
  <1>8. HandlesOf(k.client)
    BY <1>3, <1>4, <1>7 DEF HandlesOf
  <1>9. Answering(type, 0, << 0 >>, "close", 0) /\ << 0 >> \in Seq(Int)
    BY DEF Answering, Closes
  <1>10. call[k.client].pc # "dead" /\ Running' /\ K(k.client)'.ran = << 0 >> => OwnsOk(k.client)'
    <2> SUFFICES ASSUME call[c].pc # "dead", Running', K(c)'.ran = << 0 >> PROVE OwnsOk(c)'
      BY <1>3
    <2>1. /\ call[c].pc \in Busy /\ call[c].req = worker[w].req /\ K(c).ran = <<>> /\ call' = call /\ held' = held
          /\ ghost' = ghost /\ OwnsOk(c)
      BY <1>1, <1>2, <1>3, InServe DEF ProxyInv
    <2>2. \A g \in Handles : /\ ~Closed(c, g) /\ ~Gets(c, g) /\ ~Gets(c, g)'
                             /\ Closed(c, g)' <=> g = h
      BY <1>1, <1>4, <2>1 DEF Closed, Gets
    <2> QED
      BY <1>1, <1>5, <1>7, <2>1, <2>2 DEF OwnsOk
  <1>11. /\ ProxyInv /\ Running /\ worker[w].pc = "serve" /\ k = C(w) /\ 0 \in Int
         /\ Send(w, Item("status", 0), << 0 >>, "close", 0) /\ Answering(worker[w].req.type, 0, << 0 >>, "close", 0)
         /\ handle' \in [Handles -> Clients \cup {Nobody}] /\ failures' \in Nat
         /\ UNCHANGED <<call, held, backlog, client_q, main, do_exit, calls, ghost>>
    BY <1>1, <1>2, <1>6, <1>7, <1>9
  <1> QED
    BY ONLY w \in Workers, <1>8, <1>9, <1>10, <1>11, ServeKeeps

LEMMA serve_opendirKeeps == ASSUME ProxyInv, NEW w \in Workers, serve_opendir(w) PROVE ProxyInv'
  <1>1. Serves(w, "OPENDIR") /\ UNCHANGED <<call, held, do_exit, calls, failures>>
    BY DEF serve_opendir
  <1>2. Running /\ worker[w].pc = "serve" /\ worker[w].req.type = "OPENDIR" /\ "OPENDIR" \in Opens
        /\ failures' \in Nat
    BY <1>1, ServesIs DEF Opens, ProxyInv, ProxyType
  <1>3. ASSUME NEW h \in FreeHandles(DirHandles), handle' = [handle EXCEPT ![h] = C(w).client],
               Send(w, Item("status", 0), <<h>>, "more", h), UNCHANGED <<main, backlog, client_q, ghost>>
        PROVE  ProxyInv'
    <2>1. h \in Handles /\ handle[h] = Nobody
      BY DEF FreeHandles, Handles
    <2>2. Answering("OPENDIR", 0, <<h>>, "more", h)
      BY <2>1 DEF Answering, Closes
    <2>3. /\ UNCHANGED <<call, held, backlog, client_q, main, do_exit, calls, ghost>>
          /\ Answering(worker[w].req.type, 0, <<h>>, "more", h) /\ worker[w].req.type \in Opens
          /\ Running /\ worker[w].pc = "serve" /\ failures' \in Nat
      BY <1>1, <1>2, <1>3, <2>2
    <2>4. PICK z \in Int : z = 0
      OBVIOUS
    <2>5. Send(w, Item("status", z), <<h>>, "more", h) /\ Answering(worker[w].req.type, z, <<h>>, "more", h)
      BY <1>3, <2>3, <2>4
    <2> QED
      BY ONLY ProxyInv, w \in Workers, <1>3, <2>1, <2>3, <2>5, OpenedKeeps
  <1>4. ASSUME ghost' = [ghost EXCEPT !.null = TRUE], TheEnd("crashed"), UNCHANGED worker PROVE ProxyInv'
    <2>1. ghost \in [missed : BOOLEAN, lost : SUBSET Int, null : BOOLEAN]
      BY DEF ProxyInv, ProxyType
    <2>2. ghost' \in [missed : BOOLEAN, lost : SUBSET Int, null : BOOLEAN] /\ ghost'.null = TRUE
      BY ONLY <1>4, <2>1
    <2> QED
      BY <1>1, <1>4, <2>2, EndKeeps
  <1> QED
    BY <1>3, <1>4 DEF serve_opendir

\* The last item of a turn: the data, the structure, or the second status of a write.
LEMMA LastSendKeeps ==
    ASSUME ProxyInv, Running, NEW w \in Workers, worker[w].pc \in {"more", "answer"}, NEW item \in Items,
           item.v = worker[w].ret, Send(w, item, <<>>, "close", 0),
           UNCHANGED <<call, held, backlog, client_q, main, do_exit, calls, handle, failures, ghost>>
    PROVE  ProxyInv'
  <1>0. worker[w].pc \in Serving /\ <<>> \in Seq(Int)
    BY DEF Serving
  <1>1. PICK k \in ConnRecs, b \in WorkerRecs, c \in Clients, a \in CallRecs :
          k = C(w) /\ b = worker[w] /\ c = k.client /\ a = call[c]
    BY <1>0, InTurn
  <1>2. /\ Turn(b, k, a, handle) /\ b.pc \in {"more", "answer"} /\ item.v = b.ret
        /\ a.pc # "dead" => /\ a.pc \in Busy /\ a.conn = worker[w].conn /\ worker[w].conn \in Conns
                            /\ k = conn[worker[w].conn] /\ k.cl = TRUE /\ Talk(c, a, k)
    BY <1>0, <1>1, InTurn
  <1>3. PICK d : d = Sent(k, item, <<>>, "close")
    OBVIOUS
  <1>4. k.down \in Seq(Items) /\ k.ran \in Seq(Int)
    BY DEF ConnRecs
  <1>5. /\ d.client = c /\ d.cl = k.cl /\ d.sv = FALSE /\ d.down = Append(k.down, item) /\ d.ran = k.ran
    <2>1. k.ran \o <<>> = k.ran
      BY ONLY <1>4
    <2> QED
      BY <1>1, <1>3, <2>1 DEF Sent
  <1>6. PICK p \in Seq(Items), q \in Seq(Items), m \in Nat :
          p = k.down /\ q = d.down /\ m = Len(p) /\ q = Append(p, item)
    <2>1. PICK p \in Seq(Items) : p = k.down
      BY <1>4
    <2>2. Append(p, item) \in Seq(Items) /\ Len(p) \in Nat
      BY ONLY p \in Seq(Items), item \in Items
    <2> QED
      BY <1>5, <2>1, <2>2
  <1>6a. /\ Len(q) = m + 1 /\ DOMAIN p = 1..m /\ DOMAIN q = 1..(m + 1) /\ q[m + 1] = item
         /\ \A n \in 1..m : q[n] = p[n]
    BY ONLY <1>6, p \in Seq(Items), item \in Items, m \in Nat
  <1>6b. /\ \A n \in DOMAIN q : (n \in DOMAIN p /\ q[n] = p[n]) \/ (n = m + 1 /\ q[n] = item)
         /\ q # <<>>
    BY ONLY <1>6a, m \in Nat
  <1>7. ASSUME a.pc # "dead" PROVE Talk(c, a, d) /\ Answers(a, d)
    <2>0. a.req = b.req /\ Talk(c, a, k) /\ k.cl = TRUE
      BY <1>2, <1>7 DEF Turn
    <2>1. Truth(a, k, b.ret)
      BY <1>2, <2>0 DEF Turn, Truth
    <2>2. a.pc \in First => m = 1
      BY <1>2, <1>6, <1>7 DEF Turn, First
    <2>3. ASSUME NEW n \in DOMAIN d.down
          PROVE  IF n = 1 /\ a.pc \in First /\ a.req.type \in {"WRITE", "OPENDIR"}
                 THEN d.down[n].v = 0 \/ (a.req.type = "WRITE" /\ d.down[n].v = -1)
                 ELSE a.pc # "data" => Truth(a, d, d.down[n].v)
      <3>1. (n \in DOMAIN k.down /\ d.down[n] = k.down[n]) \/ (n = m + 1 /\ d.down[n] = item)
        BY ONLY <1>6, <1>6b, <2>3
      <3>2. CASE n \in DOMAIN k.down /\ d.down[n] = k.down[n]
        <4>1. IF n = 1 /\ a.pc \in First /\ a.req.type \in {"WRITE", "OPENDIR"}
              THEN k.down[n].v = 0 \/ (a.req.type = "WRITE" /\ k.down[n].v = -1)
              ELSE a.pc # "data" => Truth(a, k, k.down[n].v)
          BY ONLY <2>0, <3>2 DEF Talk
        <4> QED
          BY ONLY <1>5, <3>2, <4>1 DEF Truth
      <3>3. CASE n = m + 1 /\ d.down[n] = item
        <4>1. a.pc \in First => n # 1
          BY ONLY <2>2, <3>3
        <4>2. Truth(a, d, d.down[n].v)
          BY ONLY <1>2, <1>5, <2>1, <3>3 DEF Truth
        <4> QED
          BY ONLY <4>1, <4>2
      <3> QED
        BY ONLY <3>1, <3>2, <3>3
    <2>4. Talk(c, a, d)
      BY ONLY <1>5, <2>0, <2>3 DEF Talk, Truth
    <2>5. Answers(a, d)
      <3>1. a.pc \in First => Len(q) > 1
        BY ONLY <1>6a, <2>2
      <3> QED
        BY ONLY <1>6, <1>6b, <3>1 DEF Answers
    <2> QED
      BY <2>4, <2>5
  <1>8. handle' \in [Handles -> Clients \cup {Nobody}] /\ HandlesOf(k.client) /\ failures' \in Nat
    BY DEF HandlesOf, ProxyInv, ProxyType
  <1>9. ASSUME a.pc # "dead", Running', K(c)'.ran = d.ran PROVE OwnsOk(c)'
    <2>1. PICK i \in Conns : i = worker[w].conn /\ a.conn = i /\ k = conn[i] /\ a.pc \in Busy
      BY <1>2, <1>9
    <2>2. K(c)' = conn'[i]
      BY <1>1, <2>1 DEF K
    <2>3. conn'[i].ran = conn[i].ran /\ call[c].pc \in Busy /\ call[c].conn = i
          /\ UNCHANGED <<call, held, handle, ghost>>
      BY <1>1, <1>5, <1>9, <2>1, <2>2
    <2> QED
      BY ONLY ProxyInv, Running, <1>9, c \in Clients, i \in Conns, <2>3, OwnsStay
  <1>10. /\ ProxyInv /\ Running /\ worker[w].pc \in Serving /\ Send(w, item, <<>>, "close", 0) /\ k = C(w)
         /\ d = Sent(k, item, <<>>, "close")
         /\ UNCHANGED <<call, held, backlog, client_q, main, do_exit, calls, ghost>>
    BY <1>0, <1>1, <1>3
  <1>11. call[k.client].pc # "dead" => Talk(k.client, call[k.client], d) /\ Answers(call[k.client], d)
    BY <1>1, <1>7
  <1>12. call[k.client].pc # "dead" /\ Running' /\ K(k.client)'.ran = d.ran => OwnsOk(k.client)'
    BY <1>1, <1>9
  <1> QED
    BY ONLY w \in Workers, item \in Items, <1>0, <1>8, <1>10, <1>11, <1>12, 0 \in Int, SendKeeps

LEMMA send_moreKeeps == ASSUME ProxyInv, NEW w \in Workers, send_more(w) PROVE ProxyInv'
  <1>1. /\ Running /\ worker[w].pc = "more" /\ Send(w, Item("more", worker[w].ret), <<>>, "close", 0)
        /\ UNCHANGED <<call, held, backlog, client_q, main, do_exit, calls, handle, failures, ghost>>
        /\ worker[w].ret \in Int
    BY DEF send_more, At, servely, workerly, ProxyInv, ProxyType, WorkerRecs
  <1>2. PICK item \in Items : item = Item("more", worker[w].ret) /\ item.v = worker[w].ret
    BY <1>1 DEF Items, Item
  <1> QED
    BY <1>1, <1>2, LastSendKeeps

LEMMA write_answerKeeps == ASSUME ProxyInv, NEW w \in Workers, write_answer(w) PROVE ProxyInv'
  <1>1. /\ Running /\ worker[w].pc = "answer" /\ Send(w, Item("status", worker[w].ret), <<>>, "close", 0)
        /\ UNCHANGED <<call, held, backlog, client_q, main, do_exit, calls, handle, failures, ghost>>
        /\ worker[w].ret \in Int
    BY DEF write_answer, At, servely, workerly, ProxyInv, ProxyType, WorkerRecs
  <1>2. PICK item \in Items : item = Item("status", worker[w].ret) /\ item.v = worker[w].ret
    BY <1>1 DEF Items, Item
  <1> QED
    BY <1>1, <1>2, LastSendKeeps

LEMMA write_bodyKeeps == ASSUME ProxyInv, NEW w \in Workers, write_body(w) PROVE ProxyInv'
  <1>0. /\ Running /\ worker[w].pc = "body" /\ worker[w].pc \in Serving
        /\ UNCHANGED <<call, held, backlog, client_q, main, do_exit, calls, handle, failures, ghost>>
        /\ conn \in [Conns -> ConnRecs] /\ worker \in [Workers -> WorkerRecs]
        /\ handle \in [Handles -> Clients \cup {Nobody}] /\ failures \in Nat
    BY DEF write_body, At, servely, workerly, Serving, ProxyInv, ProxyType
  <1>1. PICK i \in Conns, k \in ConnRecs, b \in WorkerRecs, c \in Clients :
          i = worker[w].conn /\ k = conn[i] /\ k = C(w) /\ b = worker[w] /\ c = k.client
    BY <1>0, InTurn
  <1>2. /\ k.sv = TRUE /\ Turn(b, k, call[c], handle) /\ b.pc = "body"
        /\ call[c].pc # "dead" => /\ call[c].pc \in Busy /\ call[c].conn = i
                                  /\ Talk(c, call[c], k) /\ Answers(call[c], k)
    BY <1>0, <1>1, InTurn
  <1>3. /\ k.ran = <<>> /\ b.req.type = "WRITE" /\ b.req \in Requests
        /\ call[c].pc # "dead" => /\ call[c].req = b.req
                                  /\ \/ call[c].pc \in First /\ Len(k.down) = 1
                                     \/ call[c].pc \in {"send", "status2"} /\ k.down = <<>>
    BY <1>2 DEF Turn
  <1>4. PICK v \in Int, k2 \in ConnRecs :
          /\ worker' = [worker EXCEPT ![w].pc = "answer", ![w].ret = v] /\ conn' = [conn EXCEPT ![i] = k2]
          /\ k2.client = c /\ k2.sv = TRUE /\ k2.cl = k.cl /\ k2.down = k.down
          /\ k2.ran = <<v>> \/ (v = -1 /\ k2.ran = <<>>)
    <2>1. ASSUME k.up # <<>>, NEW v \in {-1, 1}, worker' = [worker EXCEPT ![w].pc = "answer", ![w].ret = v],
                 conn' = [conn EXCEPT ![i].up = Tail(@), ![i].ran = Append(@, v)]
          PROVE  \E k2 \in ConnRecs :
                   /\ conn' = [conn EXCEPT ![i] = k2]
                   /\ k2.client = c /\ k2.sv = TRUE /\ k2.cl = k.cl /\ k2.down = k.down
                   /\ k2.ran = <<v>>
      <3>1. PICK k2 : k2 = [k EXCEPT !.up = Tail(@), !.ran = Append(@, v)]
        OBVIOUS
      <3>2. k2 = [client |-> c, up |-> Tail(k.up), down |-> k.down, cl |-> k.cl, sv |-> TRUE, ran |-> <<v>>]
        <4>1. Append(k.ran, v) = <<v>>
          BY <1>3
        <4> QED
          BY <1>1, <1>2, <3>1, <4>1 DEF ConnRecs
      <3>3. k2 \in ConnRecs
        <4>1. k.up \in Seq(Requests \cup {"tail", "data"})
          BY DEF ConnRecs
        <4>2. Tail(k.up) \in Seq(Requests \cup {"tail", "data"}) /\ <<v>> \in Seq(Int)
          BY ONLY <2>1, <4>1
        <4> QED
          BY <3>2, <4>2 DEF ConnRecs
      <3>4. conn' = [conn EXCEPT ![i] = [k EXCEPT !.up = Tail(@), !.ran = Append(@, v)]]
        BY ONLY <1>0, <1>1, <2>1, i \in Conns DEF ConnRecs
      <3>5. k2.client = c /\ k2.sv = TRUE /\ k2.cl = k.cl /\ k2.down = k.down /\ k2.ran = <<v>>
        BY ONLY <3>2
      <3> QED
        BY ONLY <3>1, <3>3, <3>4, <3>5
    <2>2. ASSUME worker' = [worker EXCEPT ![w].pc = "answer", ![w].ret = -1], conn' = conn
          PROVE  \E v \in Int : /\ v = -1 /\ worker' = [worker EXCEPT ![w].pc = "answer", ![w].ret = v]
                                /\ conn' = [conn EXCEPT ![i] = k]
      <3>1. PICK v \in Int : v = -1
        OBVIOUS
      <3>2. worker' = [worker EXCEPT ![w].pc = "answer", ![w].ret = v]
        BY <2>2, <3>1
      <3>3. conn' = [conn EXCEPT ![i] = k]
        BY <1>0, <1>1, <2>2
      <3> QED
        BY ONLY <3>1, <3>2, <3>3, v \in Int
    <2>3. CASE Came(C(w)) /\ \E v \in {-1, 1} :
                 /\ worker' = [worker EXCEPT ![w].pc = "answer", ![w].ret = v]
                 /\ conn' = [conn EXCEPT ![worker[w].conn].up = Tail(@), ![worker[w].conn].ran = Append(@, v)]
      <3>1. k.up # <<>>
        BY <1>1, <2>3 DEF Came
      <3>2. PICK v \in {-1, 1} : /\ worker' = [worker EXCEPT ![w].pc = "answer", ![w].ret = v]
                                 /\ conn' = [conn EXCEPT ![i].up = Tail(@), ![i].ran = Append(@, v)]
        BY <1>1, <2>3
      <3>3. v \in Int
        OBVIOUS
      <3> QED
        BY <2>1, <3>1, <3>2, <3>3
    <2>4. CASE worker' = [worker EXCEPT ![w].pc = "answer", ![w].ret = -1] /\ conn' = conn
      BY <1>1, <1>2, <1>3, <2>2, <2>4
    <2> QED
      BY <2>3, <2>4 DEF write_body
  <1>5. PICK d \in WorkerRecs : /\ worker' = [worker EXCEPT ![w] = d]
                                /\ d = [pc |-> "answer", conn |-> i, req |-> b.req, ret |-> v]
    <2>1. PICK d : d = [b EXCEPT !.pc = "answer", !.ret = v]
      OBVIOUS
    <2>2. d = [pc |-> "answer", conn |-> i, req |-> b.req, ret |-> v]
      BY <1>1, <2>1 DEF WorkerRecs
    <2>3. d \in WorkerRecs
      BY <2>2 DEF WorkerRecs, Serving
    <2>4. worker' = [worker EXCEPT ![w] = [b EXCEPT !.pc = "answer", !.ret = v]]
      BY ONLY <1>0, <1>1, <1>4, w \in Workers DEF WorkerRecs
    <2> QED
      BY <2>1, <2>2, <2>3, <2>4
  <1>6. /\ worker' \in [Workers -> WorkerRecs] /\ worker'[w] = d /\ \A u \in Workers \ {w} : worker'[u] = worker[u]
        /\ conn' \in [Conns -> ConnRecs] /\ conn'[i] = k2 /\ \A j \in Conns \ {i} : conn'[j] = conn[j]
    BY ONLY <1>0, <1>4, <1>5, w \in Workers, d \in WorkerRecs, i \in Conns, k2 \in ConnRecs
  <1>7. ASSUME call[c].pc # "dead" PROVE Talk(c, call[c], k2) /\ Answers(call[c], k2)
    <2>0. PICK a : a = call[c]
      OBVIOUS
    <2>1. /\ Talk(c, a, k) /\ a.req.type = "WRITE"
          /\ (a.pc \in First /\ Len(k.down) = 1) \/ (a.pc \in {"send", "status2"} /\ k.down = <<>>)
          /\ k2.cl = k.cl /\ k2.client = c /\ k2.down = k.down /\ k2.sv = TRUE
      BY <1>2, <1>3, <1>4, <1>7, <2>0
    <2>2. a.pc # "data" /\ a.pc # "more" /\ a.req.type \notin Opens \cup Closes
      BY <2>1 DEF First, Opens, Closes
    <2>3. \A n \in DOMAIN k2.down : n = 1 /\ a.pc \in First
      <3>1. k.down \in Seq(Items)
        BY DEF ConnRecs
      <3> QED
        BY <2>1, <3>1
    <2>4. Talk(c, a, k2)
      BY ONLY <2>1, <2>2, <2>3 DEF Talk
    <2>5. Answers(a, k2)
      BY ONLY <2>1 DEF Answers
    <2> QED
      BY <2>0, <2>4, <2>5
  <1>8. Turn(d, k2, call[c], handle)
    <2>1. d.pc = "answer" /\ d.req = b.req /\ d.ret = v
      BY ONLY <1>5
    <2> QED
      BY ONLY <1>3, <1>4, <2>1 DEF Turn
  <1>9. Running'
    BY <1>0 DEF Running
  <1>10. call[c].pc # "dead" => OwnsOk(c)'
    <2> SUFFICES ASSUME call[c].pc # "dead" PROVE OwnsOk(c)'
      OBVIOUS
    <2>1. /\ call[c].pc \in Busy /\ call[c].conn = i /\ call[c].req.type \notin Opens \cup Closes
          /\ UNCHANGED <<call, held, handle, ghost>>
      BY <1>0, <1>2, <1>3 DEF Opens, Closes
    <2> QED
      BY ONLY ProxyInv, <1>0, <1>9, c \in Clients, i \in Conns, <2>1, OwnsStay
  <1>11. /\ conn'[i].sv = TRUE /\ conn'[i].client = c /\ worker'[w].pc \in Serving /\ worker'[w].conn = i
         /\ Turn(worker'[w], conn'[i], call[c], handle') /\ handle' = handle /\ failures' \in Nat
         /\ handle' \in [Handles -> Clients \cup {Nobody}] /\ HandlesOf(c)
    BY <1>0, <1>1, <1>4, <1>5, <1>6, <1>8 DEF Serving, HandlesOf
  <1>12. /\ call[c].pc # "dead" => Talk(c, call[c], conn'[i]) /\ Answers(call[c], conn'[i]) /\ OwnsOk(c)'
         /\ UNCHANGED <<call, held, backlog, client_q, main, do_exit, calls, ghost>>
         /\ worker[w].conn = i /\ conn[i].client = c
    BY <1>0, <1>1, <1>6, <1>7, <1>10
  <1> QED
    BY <1>0, <1>6, <1>11, <1>12, TurnKeeps

LEMMA handle_petitionKeeps == ASSUME ProxyInv, NEW w \in Workers, handle_petition(w) PROVE ProxyInv'
  <1>1. CASE xpn_proxy_server_read_fullpath(w)
    BY <1>1, xpn_proxy_server_read_fullpathKeeps
  <1>2. CASE serve_open(w) \/ serve_creat(w)
    <2>1. PICK type \in {"OPEN", "CREAT"} : Serves(w, type) /\ OpenHandle(w, "close") /\ UNCHANGED <<servely, failures>>
      BY <1>2 DEF serve_open, serve_creat
    <2> QED
      BY <2>1, OpenHandleKeeps
  <1>3. CASE serve_close(w) \/ serve_closedir(w)
    <2>1. PICK type \in Closes : Serves(w, type) /\ DropHandle(w) /\ UNCHANGED <<servely, failures, ghost>>
      BY <1>3 DEF serve_close, serve_closedir, Closes
    <2> QED
      BY <2>1, DropHandleKeeps
  <1>4. CASE serve_rm(w) \/ serve_rename(w) \/ serve_mkdir(w) \/ serve_rmdir(w)
    <2>1. PICK type \in {"RM", "RENAME", "MKDIR", "RMDIR"} :
            Serves(w, type) /\ Answer(w, "close") /\ UNCHANGED <<servely, handle, failures, ghost>>
      BY <1>4 DEF serve_rm, serve_rename, serve_mkdir, serve_rmdir
    <2> QED
      BY <2>1, AnswerKeeps
  <1>5. CASE serve_stat(w) \/ serve_readdir(w)
    <2>1. PICK type \in {"GETATTR", "READDIR"} :
            Serves(w, type) /\ Answer(w, "more") /\ UNCHANGED <<servely, handle, failures, ghost>>
      BY <1>5 DEF serve_stat, serve_readdir
    <2> QED
      BY <2>1, AnswerKeeps
  <1>6. CASE NoBuffer(w) \/ serve_read(w) \/ serve_write(w)
    BY <1>6, NoBufferKeeps, serve_readKeeps, serve_writeKeeps
  <1>7. CASE write_body(w) \/ write_answer(w) \/ serve_opendir(w) \/ send_more(w) \/ SIGPIPE(w)
    BY <1>7, write_bodyKeeps, write_answerKeeps, serve_opendirKeeps, send_moreKeeps, SIGPIPEKeeps
  <1> QED
    BY <1>1, <1>2, <1>3, <1>4, <1>5, <1>6, <1>7 DEF handle_petition

-----------------------------------------------------------------------------
(* The theorems *)

LEMMA InitProxyInv == Init => ProxyInv
  <1> SUFFICES ASSUME Init PROVE ProxyInv
    OBVIOUS
  <1>1. /\ call = [c \in Clients |-> Idle] /\ conn = [i \in Conns |-> Free] /\ handle \in Opened
        /\ held = [c \in Clients |-> {h \in Handles : handle[h] = c}] /\ backlog = <<>> /\ client_q = <<>>
        /\ main = "test" /\ worker = [w \in Workers |-> AtLoop] /\ do_exit = FALSE /\ calls = 0 /\ failures = 0
        /\ ghost = [missed |-> FALSE, lost |-> {}, null |-> FALSE]
    BY DEF Init
  <1>2. ProxyType
    <2>1. handle \in [Handles -> Clients \cup {Nobody}]
      BY <1>1, HandlesAre, ProxyAssumption
    <2>2. backlog \in Seq(Conns) /\ client_q \in Seq(Conns)
      BY <1>1
    <2>3. ghost \in [missed : BOOLEAN, lost : SUBSET Int, null : BOOLEAN]
      BY ONLY <1>1
    <2>4. call \in [Clients -> CallRecs] /\ conn \in [Conns -> ConnRecs] /\ worker \in [Workers -> WorkerRecs]
      BY <1>1, IdleIsCall, FreeIsConn, LoopIsWorker
    <2> QED
      BY <1>1, <2>1, <2>2, <2>3, <2>4 DEF ProxyType
  <1>3. DOMAIN backlog = {} /\ DOMAIN client_q = {} /\ (\A i : ~Queued(i))
    <2>1. DOMAIN backlog = {} /\ DOMAIN client_q = {}
      BY <1>1
    <2> QED
      BY <2>1 DEF Queued
  <1>4. \A w \in Workers : worker[w].pc \notin Serving
    BY <1>1, LoopIsWorker DEF Serving
  <1>5. \A i \in Conns : conn[i].sv = FALSE
    BY <1>1, FreeIsConn
  <1>6. \A c \in Clients : call[c].pc = "done" /\ call[c].told = TRUE /\ call[c].pc \notin Busy
    BY <1>1, IdleIsCall DEF Busy, First
  <1>7. PlacesOk
    BY <1>3, <1>4, <1>5 DEF PlacesOk, ServedBy
  <1>8. CrashHasCause
    BY <1>1 DEF CrashHasCause, Crashed
  <1>9. ASSUME NEW c \in Clients PROVE CallOk(c) /\ OwnsOk(c)
    <2>1. \A h : ~Closed(c, h) /\ ~Gets(c, h)
      BY <1>6 DEF Closed, Gets
    <2>2. held[c] = {h \in Handles : handle[h] = c}
      BY <1>1
    <2> QED
      BY <1>6, <2>1, <2>2 DEF CallOk, OwnsOk
  <1>10. \A i \in Conns : ConnOk(i)
    BY <1>5 DEF ConnOk
  <1>11. \A w \in Workers : WorkerOk(w)
    BY <1>4 DEF WorkerOk
  <1> QED
    BY <1>2, <1>3, <1>7, <1>8, <1>9, <1>10, <1>11 DEF ProxyInv

LEMMA NextProxyInv == ProxyInv /\ [Next]_vars => ProxyInv'
  <1> SUFFICES ASSUME ProxyInv, [Next]_vars PROVE ProxyInv'
    OBVIOUS
  <1>1. CASE UNCHANGED vars
    <2>0. UNCHANGED <<call, held, conn, backlog, client_q, main, worker, handle, do_exit, calls, failures, ghost>>
      BY <1>1 DEF vars
    <2>1. ProxyType /\ PlacesOk /\ CrashHasCause
      BY DEF ProxyInv
    <2>2. ProxyType'
      BY ONLY <2>0, <2>1 DEF ProxyType
    <2>3. PlacesOk'
      BY ONLY <2>0, <2>1 DEF PlacesOk, ServedBy, Queued, Running
    <2>4. CrashHasCause'
      BY ONLY <2>0, <2>1 DEF CrashHasCause, Crashed
    <2>5. ASSUME NEW c \in Clients PROVE CallOk(c)' /\ OwnsOk(c)'
      <3>1. CallOk(c) /\ OwnsOk(c)
        BY DEF ProxyInv
      <3>2. CallOk(c)'
        BY ONLY <2>0, <3>1 DEF CallOk, Running, K
      <3>3. OwnsOk(c)'
        BY ONLY <2>0, <3>1 DEF OwnsOk, Closed, Gets, Running, K
      <3> QED
        BY <3>2, <3>3
    <2>6. ASSUME NEW i \in Conns PROVE ConnOk(i)' /\ (Queued(i)' => QueuedOk(i)')
      <3>1. ConnOk(i) /\ (Queued(i) => QueuedOk(i))
        BY DEF ProxyInv
      <3>2. ConnOk(i)'
        BY ONLY <2>0, <3>1 DEF ConnOk, Running
      <3>3. Queued(i)' => QueuedOk(i)'
        BY ONLY <2>0, <3>1 DEF Queued, QueuedOk
      <3> QED
        BY <3>2, <3>3
    <2>7. ASSUME NEW w \in Workers PROVE WorkerOk(w)'
      <3>1. WorkerOk(w)
        BY DEF ProxyInv
      <3> QED
        BY ONLY <2>0, <3>1 DEF WorkerOk, Running, C
    <2> QED
      BY <2>2, <2>3, <2>4, <2>5, <2>6, <2>7 DEF ProxyInv
  <1>2. ASSUME NEW c \in Clients, Calls(c) \/ ClientStep(c) \/ Dies(c) \/ DiesConnected(c) PROVE ProxyInv'
    BY <1>2, CallsKeep, d_connectKeeps, d_sendKeeps, d_receiveKeeps, read_dataKeeps, write_dataKeeps,
       write_statusKeeps, get_structKeeps, DiesKeeps, DiesConnectedKeeps DEF ClientStep
  <1>3. CASE MainStep
    BY <1>3, main_testKeeps, main_acceptKeeps, main_notifyKeeps, main_joinKeeps DEF MainStep
  <1>4. CASE sigHandler
    BY <1>4, sigHandlerKeeps
  <1>5. ASSUME NEW w \in Workers, WorkerStep(w) PROVE ProxyInv'
    BY <1>5, worker_lockKeeps, worker_waitKeeps, handle_petitionKeeps DEF WorkerStep
  <1> QED
    BY <1>1, <1>2, <1>3, <1>4, <1>5 DEF Next

\* The inductive invariant holds of the proxy, for any number of clients, workers,
\* connections and handles.
THEOREM ProxyInvariant == Spec => []ProxyInv
  BY InitProxyInv, NextProxyInv, PTL DEF Spec

\* What a call of the API returns through the proxy is what the API answered in the proxy
\* to this very request, made once, or -1: no status, data or structure of another call
\* reaches a client, whatever the order of the workers and the deaths of other clients.
THEOREM ProxyToldTheTruth == Spec => []ToldTheTruth
  <1>1. ProxyInv => ToldTheTruth
    BY DEF ProxyInv, CallOk, ToldTheTruth
  <1> QED
    BY <1>1, ProxyInvariant, PTL

\* A handle of the proxy is held by the client it was opened for, or that client is in a
\* call, unless it died or had no memory for its DIR; and only a client that died or an
\* opendir that failed takes the proxy down.
THEOREM ProxyDamageHasCause == Spec => []DamageHasCause
  <1>1. ProxyInv => DamageHasCause
    <2> SUFFICES ASSUME ProxyInv PROVE DamageHasCause
      OBVIOUS
    <2>1. CrashHasCause
      BY DEF ProxyInv
    <2>2. ASSUME NEW h \in Handles, Running, handle[h] # Nobody, h \notin ghost.lost
          PROVE  h \in held[handle[h]] \/ call[handle[h]].pc # "done"
      <3>1. PICK c \in Clients : c = handle[h]
        BY <2>2 DEF ProxyInv, ProxyType
      <3>2. OwnsOk(c)
        BY DEF ProxyInv
      <3>3. Gets(c, h) => call[c].pc # "done"
        BY DEF Gets, Busy, First
      <3> QED
        BY <2>2, <3>1, <3>2, <3>3 DEF OwnsOk
    <2>3. ASSUME NEW c \in Clients, NEW h \in held[c], Running, call[c].pc = "done" PROVE handle[h] = c
      <3>1. OwnsOk(c) /\ h \in Handles
        BY DEF ProxyInv, ProxyType
      <3>2. ~Closed(c, h)
        BY <2>3 DEF Closed, Busy, First
      <3> QED
        BY <2>3, <3>1, <3>2 DEF OwnsOk
    <2> QED
      BY <2>1, <2>2, <2>3 DEF DamageHasCause, HandlesAccountedFor
  <1> QED
    BY <1>1, ProxyInvariant, PTL
=============================================================================
