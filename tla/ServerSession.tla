---------------------------- MODULE ServerSession ----------------------------
(***************************************************************************)
(* One client process and one xpn_server talking over sockets: the request *)
(* functions of nfi_xpn_server.c on one side, xpn_server_dispatcher,       *)
(* xpn_server_dispatcher_connectionless and the handlers of                *)
(* xpn_server_ops.c on the other.  Neither side frames its messages: each  *)
(* reads as many bytes as it believes the other one sends, so the two      *)
(* programs have to agree on the shape of every request and every answer.  *)
(* The shapes are written down twice, from the client's function and from  *)
(* the server's handler, and the streams carry what each side really sends.*)
(*                                                                         *)
(* An item of a stream is one socket_send: a code, the struct of the       *)
(* request (head), the rest of a long path (tail), data, or the struct of  *)
(* the answer.  What the server's file system answers is a free choice.    *)
(* In sockets mode the server runs operations in the dispatcher's thread.  *)
(***************************************************************************)
EXTENDS Integers, Sequences, FiniteSetsExt

CONSTANTS PathMax,      \* XPN_PATH_MAX: the bytes of a path in the head
          MaxBuffer,    \* MAX_BUFFER_SIZE: the bytes of one piece of data
          MaxSize,      \* bound on the bytes of a read or a write
          MaxRequests,  \* bound on the calls of the client
          Keeps,        \* the values of XPN_CONNECTED that are explored
          Deaths        \* who may die: a subset of {"client", "server"}

ASSUME SessionAssumption ==
  /\ PathMax \in Nat \ {0} /\ MaxBuffer \in Nat \ {0}
  /\ MaxSize \in Nat /\ MaxRequests \in Nat \ {0}
  /\ Keeps \subseteq {0, 1} /\ Keeps # {}
  /\ Deaths \subseteq {"client", "server"}

VARIABLES keep,     \* serv->keep_connected
          made,     \* the connections made so far: 1..made
          up,       \* connection -> items on their way to the server
          down,     \* connection -> items on their way to the client
          hung,     \* connections the client has closed
          freed,    \* connections the server has closed and whose comm it freed
          cl,       \* the client
          sv,       \* the server's dispatcher and the handler it runs
          ran,      \* call -> how often the server ran it; 0: nobody's request
          written,  \* call -> bytes of it that the server wrote
          fault     \* what went wrong so far

sessionVars == <<keep, made, up, down, hung, freed, cl, sv, ran, written, fault>>

Calls == 1 .. MaxRequests
Conns == 1 .. MaxRequests
Lens  == {PathMax - 1, PathMax, PathMax + 1}

(* What the functions of the client send and wait for: the code, how many  *)
(* paths follow the head, and the struct they read as the answer.          *)
nfi_xpn_server_open    == [op |-> "OPEN", paths |-> 1, reply |-> "status"]
nfi_xpn_server_read    == [op |-> "READ", paths |-> 1, reply |-> "rw_req"]
nfi_xpn_server_write   == [op |-> "WRITE", paths |-> 1, reply |-> "rw_req"]
nfi_xpn_server_close   == [op |-> "CLOSE", paths |-> 1, reply |-> "status"]
nfi_xpn_server_remove  == [op |-> "RM", paths |-> 1, reply |-> "status"]
nfi_xpn_server_rename  == [op |-> "RENAME", paths |-> 2, reply |-> "status"]
nfi_xpn_server_getattr == [op |-> "GETATTR", paths |-> 1, reply |-> "attr_req"]
nfi_xpn_server_mkdir   == [op |-> "MKDIR", paths |-> 1, reply |-> "status"]
nfi_xpn_server_opendir == [op |-> "OPENDIR", paths |-> 1, reply |-> "opendir_req"]
nfi_xpn_server_readdir == [op |-> "READDIR", paths |-> 1, reply |-> "readdir_req"]
nfi_xpn_server_closedir == [op |-> "CLOSEDIR", paths |-> 0, reply |-> "status"]
nfi_xpn_server_rmdir   == [op |-> "RMDIR", paths |-> 1, reply |-> "status"]
nfi_xpn_server_read_mdata == [op |-> "READ_MDATA", paths |-> 1, reply |-> "mdata_req"]
nfi_xpn_server_write_mdata ==
  {[op |-> o, paths |-> 1, reply |-> "status"] : o \in {"WRITE_MDATA", "WRITE_MDATA_FILE_SIZE"}}

ClientFunctions ==
  {nfi_xpn_server_open, nfi_xpn_server_read, nfi_xpn_server_write,
   nfi_xpn_server_close, nfi_xpn_server_remove, nfi_xpn_server_rename,
   nfi_xpn_server_getattr, nfi_xpn_server_mkdir, nfi_xpn_server_opendir,
   nfi_xpn_server_readdir, nfi_xpn_server_closedir, nfi_xpn_server_rmdir,
   nfi_xpn_server_read_mdata} \union nfi_xpn_server_write_mdata

(* What the handlers of the server read after the head, in which order,    *)
(* and the struct they answer with.                                        *)
xpn_server_op_open    == [paths |-> <<1>>, reply |-> "status"]
xpn_server_op_read    == [paths |-> <<1>>, reply |-> "rw_req"]
xpn_server_op_write   == [paths |-> <<1>>, reply |-> "rw_req"]
xpn_server_op_close   == [paths |-> <<1>>, reply |-> "status"]
xpn_server_op_rm      == [paths |-> <<1>>, reply |-> "status"]
xpn_server_op_rename_one_path == [paths |-> <<1>>, reply |-> "status"]
xpn_server_op_rename  == [paths |-> <<1, 2>>, reply |-> "status"]
xpn_server_op_getattr == [paths |-> <<1>>, reply |-> "attr_req"]
xpn_server_op_mkdir   == [paths |-> <<1>>, reply |-> "status"]
xpn_server_op_opendir == [paths |-> <<1>>, reply |-> "opendir_req"]
xpn_server_op_readdir == [paths |-> <<1>>, reply |-> "readdir_req"]
xpn_server_op_closedir == [paths |-> <<>>, reply |-> "status"]
xpn_server_op_rmdir   == [paths |-> <<1>>, reply |-> "status"]
xpn_server_op_read_mdata == [paths |-> <<1>>, reply |-> "mdata_req"]
xpn_server_op_write_mdata == [paths |-> <<1>>, reply |-> "status"]
xpn_server_op_write_mdata_file_size == [paths |-> <<1>>, reply |-> "status"]

Handler ==
  [OPEN |-> xpn_server_op_open, READ |-> xpn_server_op_read,
   WRITE |-> xpn_server_op_write, CLOSE |-> xpn_server_op_close,
   RM |-> xpn_server_op_rm, RENAME |-> xpn_server_op_rename,
   GETATTR |-> xpn_server_op_getattr, MKDIR |-> xpn_server_op_mkdir,
   OPENDIR |-> xpn_server_op_opendir, READDIR |-> xpn_server_op_readdir,
   CLOSEDIR |-> xpn_server_op_closedir, RMDIR |-> xpn_server_op_rmdir,
   READ_MDATA |-> xpn_server_op_read_mdata,
   WRITE_MDATA |-> xpn_server_op_write_mdata,
   WRITE_MDATA_FILE_SIZE |-> xpn_server_op_write_mdata_file_size]

Item(k, v, id) == [k |-> k, v |-> v, id |-> id]

NoClient == [pc |-> "idle", f |-> nfi_xpn_server_open, id |-> 0, conn |-> 0,
             out |-> <<>>, size |-> 0, cont |-> 0, res |-> "none"]
NoServer == [pc |-> "accept", comm |-> 0, type_op |-> "OPEN", id |-> 0,
             need |-> <<>>, size |-> 0, cont |-> 0, garbled |-> FALSE]

SessionInit ==
  /\ keep \in Keeps
  /\ made = 0
  /\ up = [c \in Conns |-> <<>>] /\ down = [c \in Conns |-> <<>>]
  /\ hung = {} /\ freed = {}
  /\ cl = [NoClient EXCEPT !.pc = IF keep = 1 THEN "connect" ELSE "idle"]
  /\ sv = NoServer
  /\ ran = [i \in 0 .. MaxRequests |-> 0] /\ written = [i \in Calls |-> 0]
  /\ fault = {}

------------------------------------------------------------------------------
(* The client. *)

(* The rest of a path that does not fit in the head.  A send of no bytes   *)
(* puts nothing on the stream.  Only a rename has a second path.           *)
Tail128(len) == IF len >= PathMax THEN len - PathMax ELSE 0
SentTail(len, id) == IF Tail128(len) > 0 THEN <<Item("tail", Tail128(len), id)>> ELSE <<>>
SentTails(lens, id) ==
  (IF Len(lens) >= 1 THEN SentTail(lens[1], id) ELSE <<>>)
    \o (IF Len(lens) >= 2 THEN SentTail(lens[2], id) ELSE <<>>)

(* The pieces a write sends its data in. *)
Pieces(size) == (size + MaxBuffer - 1) \div MaxBuffer
SentData(size, id) ==
  [i \in 1 .. Pieces(size) |->
     Item("data", Min({MaxBuffer, size - (i - 1) * MaxBuffer}), id)]

(* nfi_write_operation: the code and the head of the request, then the     *)
(* tails and, for a write, the data.                                       *)
Request(f, lens, size, id) ==
  <<Item("op", f.op, id), Item("head", [lens |-> lens, size |-> size], id)>>
    \o SentTails(lens, id)
    \o (IF f.op = "WRITE" THEN SentData(size, id) ELSE <<>>)

(* nfi_xpn_server_connect at the start of a kept connection. *)
Connect ==
  /\ cl.pc = "connect" /\ sv.pc # "dead"
  /\ made' = made + 1
  /\ cl' = [cl EXCEPT !.pc = "idle", !.conn = made + 1]
  /\ UNCHANGED <<keep, up, down, hung, freed, sv, ran, written, fault>>

(* A call that has a request to send; nfi_xpn_server_keep_connected        *)
(* connects first when the connection is not kept.                         *)
StartCall(f, lens, size) ==
  /\ cl.pc = "idle" /\ cl.id < MaxRequests
  /\ keep = 1 \/ sv.pc # "dead"
  /\ f.op = "WRITE" => size > 0
  /\ made' = IF keep = 0 THEN made + 1 ELSE made
  /\ cl' = [pc |-> "sending", f |-> f, id |-> cl.id + 1,
            conn |-> IF keep = 0 THEN made + 1 ELSE cl.conn,
            out |-> Request(f, lens, size, cl.id + 1),
            size |-> size, cont |-> 0, res |-> "none"]
  /\ UNCHANGED <<keep, up, down, hung, freed, sv, ran, written, fault>>

(* A call that returns without a request: setattr, a close without a       *)
(* session, a path that ParseURL refuses.  A connection that is not kept   *)
(* is made and closed all the same.                                        *)
SilentCall ==
  /\ cl.pc = "idle" /\ cl.id < MaxRequests
  /\ keep = 1 \/ sv.pc # "dead"
  /\ cl' = [cl EXCEPT !.id = @ + 1, !.size = 0, !.cont = 0, !.res = "silent"]
  /\ made' = IF keep = 0 THEN made + 1 ELSE made
  /\ hung' = IF keep = 0 THEN hung \union {made + 1} ELSE hung
  /\ UNCHANGED <<keep, up, down, freed, sv, ran, written, fault>>

(* socket_send of the next item.  If the server has closed the connection  *)
(* the item is lost, or SIGPIPE, which the client does not ignore, ends it.*)
Send ==
  /\ cl.pc = "sending" /\ cl.out # <<>>
  /\ IF cl.conn \in freed
     THEN \/ /\ cl' = [cl EXCEPT !.pc = "dead"]
             /\ hung' = hung \union {cl.conn}
             /\ UNCHANGED up
          \/ /\ cl' = [cl EXCEPT !.out = Tail(@)]
             /\ UNCHANGED <<up, hung>>
     ELSE /\ up' = [up EXCEPT ![cl.conn] = Append(@, Head(cl.out))]
          /\ cl' = [cl EXCEPT !.out = Tail(@)]
          /\ UNCHANGED hung
  /\ UNCHANGED <<keep, made, down, freed, sv, ran, written, fault>>

(* The end of a call; the connection is closed when it is not kept. *)
Return(res, cont) ==
  /\ cl' = [cl EXCEPT !.pc = "idle", !.res = res, !.cont = cont,
                      !.conn = IF keep = 0 THEN 0 ELSE @]
  /\ hung' = IF keep = 0 THEN hung \union {cl.conn} ELSE hung

(* What a call makes of the answer.  nfi_xpn_server_remove and _rename set *)
(* errno but return what ParseURL or the last read returned, never -1.     *)
Result(f, v) == IF v < 0 /\ f.op \notin {"RM", "RENAME"} THEN "error" ELSE "ok"

(* The answer of every call but a read. *)
ReceiveStatus ==
  /\ cl.pc = "sending" /\ cl.out = <<>> /\ cl.f.op # "READ"
  /\ down[cl.conn] # <<>>
  /\ LET it == Head(down[cl.conn]) IN
       /\ it.k = cl.f.reply
       /\ down' = [down EXCEPT ![cl.conn] = Tail(@)]
       /\ Return(Result(cl.f, it.v), IF cl.f.op = "WRITE" /\ it.v >= 0 THEN cl.size ELSE 0)
  /\ UNCHANGED <<keep, made, up, freed, sv, ran, written, fault>>

(* One turn of the loop of nfi_xpn_server_read: how many bytes, the bytes. *)
ReceiveRead ==
  /\ cl.pc = "sending" /\ cl.out = <<>> /\ cl.f.op = "READ"
  /\ down[cl.conn] # <<>>
  /\ LET it == Head(down[cl.conn])
         cont == cl.cont + it.v
         taken == IF it.v > 0 THEN 2 ELSE 1
     IN  /\ it.k = "rw_req"
         /\ Len(down[cl.conn]) >= taken
         /\ taken = 2 => down[cl.conn][2].k = "data" /\ down[cl.conn][2].v = it.v
         /\ down' = [down EXCEPT ![cl.conn] = SubSeq(@, taken + 1, Len(@))]
         /\ IF it.v < 0 THEN Return("error", cl.cont)
            ELSE IF cl.size - cont > 0 /\ it.v # 0
            THEN cl' = [cl EXCEPT !.cont = cont] /\ UNCHANGED hung
            ELSE Return("ok", cont)
  /\ UNCHANGED <<keep, made, up, freed, sv, ran, written, fault>>

(* The server has closed the connection: socket_recv returns 0, which no   *)
(* caller tells from an answer, so the call goes by the uninitialised      *)
(* struct it wanted to fill.                                               *)
ReceiveEof ==
  /\ cl.pc = "sending" /\ cl.out = <<>>
  /\ down[cl.conn] = <<>> /\ cl.conn \in freed
  /\ \/ Return("error", cl.cont)
     \/ Return("ok", IF cl.f.op = "WRITE" THEN cl.size ELSE cl.cont)
  /\ fault' = fault \union {"no_answer"}
  /\ UNCHANGED <<keep, made, up, down, freed, sv, ran, written>>

(* nfi_xpn_server_disconnect, when the partition is left or the server is  *)
(* marked in error.                                                        *)
Disconnect ==
  /\ cl.pc = "idle"
  /\ cl' = [cl EXCEPT !.pc = "ended"]
  /\ IF keep = 1
     THEN /\ up' = IF cl.conn \in freed THEN up
                   ELSE [up EXCEPT ![cl.conn] = Append(@, Item("op", "DISCONNECT", 0))]
          /\ hung' = hung \union {cl.conn}
     ELSE UNCHANGED <<up, hung>>
  /\ UNCHANGED <<keep, made, down, freed, sv, ran, written, fault>>

ClientDies ==
  /\ "client" \in Deaths
  /\ cl.pc \in {"idle", "sending"} /\ sv.pc # "dead"
  /\ cl' = [cl EXCEPT !.pc = "dead"]
  /\ hung' = hung \union ({cl.conn} \ {0})
  /\ fault' = fault \union {"client_died"}
  /\ UNCHANGED <<keep, made, up, down, freed, sv, ran, written>>

------------------------------------------------------------------------------
(* The server. *)

Eof == up[sv.comm] = <<>> /\ sv.comm \in hung
Next1 == Head(up[sv.comm])
Taken == [up EXCEPT ![sv.comm] = Tail(@)]

(* xpn_server_comm_write_data: what is sent after the client hung up is    *)
(* lost.                                                                   *)
Answer(items) ==
  down' = IF sv.comm \in hung THEN down ELSE [down EXCEPT ![sv.comm] = @ \o items]

(* The end of xpn_server_run: the connection is closed if a send found the *)
(* client gone (EPIPE) or if it was made for this operation (close4me).    *)
Close4me(epipe) == epipe \/ keep = 0

RunEnds(wrote, garbled) ==
  \E epipe \in (IF sv.comm \in hung THEN BOOLEAN ELSE {FALSE}) :
    LET id == IF garbled THEN 0 ELSE sv.id IN
    /\ ran' = [ran EXCEPT ![id] = Min({@ + 1, 2})]
    /\ written' = IF id = 0 THEN written ELSE [written EXCEPT ![id] = wrote]
    /\ freed' = IF Close4me(epipe) THEN freed \union {sv.comm} ELSE freed
    /\ sv' = [NoServer EXCEPT !.pc = IF keep = 1 THEN "op" ELSE "accept",
                              !.comm = sv.comm, !.type_op = sv.type_op]

(* The accept loop of xpn_server_up for a kept connection, that of         *)
(* xpn_server_dispatcher_connectionless for the others.                    *)
Accept ==
  /\ sv.pc = "accept" /\ sv.comm < made
  /\ sv' = [sv EXCEPT !.pc = "op", !.comm = @ + 1]
  /\ UNCHANGED <<keep, made, up, down, hung, freed, cl, ran, written, fault>>

(* The end of xpn_server_dispatcher closes the connection and frees comm. *)
AfterDisconnect == freed \union {sv.comm}

(* xpn_server_comm_read_operation finds a code. *)
ReadOperation ==
  /\ sv.pc = "op" /\ sv.comm \notin freed
  /\ up[sv.comm] # <<>> /\ Next1.k = "op"
  /\ up' = Taken
  /\ IF Next1.v = "DISCONNECT"
     THEN /\ freed' = AfterDisconnect
          /\ sv' = [sv EXCEPT !.pc = "done"]
     ELSE /\ sv' = [sv EXCEPT !.pc = "head", !.type_op = Next1.v, !.id = Next1.id]
          /\ UNCHANGED freed
  /\ UNCHANGED <<keep, made, down, hung, cl, ran, written, fault>>

(* It finds what is left of an abandoned write.  Data that is no code runs *)
(* nothing (the switch of xpn_server_do_operation has no default); data    *)
(* that is a code, and 0 is OPEN, starts an operation whose head is data   *)
(* too: from there on the model does not follow the server.                *)
ReadOperationFindsData ==
  /\ sv.pc = "op" /\ sv.comm \notin freed
  /\ up[sv.comm] # <<>> /\ Next1.k = "data"
  /\ up' = Taken
  /\ \E code \in BOOLEAN : sv' = [sv EXCEPT !.pc = IF code THEN "astray" ELSE "op"]
  /\ UNCHANGED <<keep, made, down, hung, freed, cl, ran, written, fault>>

(* It finds the end of the stream.  The connectionless dispatcher closes;  *)
(* the other one returns without closing if the read failed, and if it     *)
(* returned 0 runs the last operation again, head unread.                  *)
EofSeen == keep = 0
ReadOperationFindsEof ==
  /\ sv.pc = "op" /\ sv.comm \notin freed /\ Eof
  /\ \/ /\ EofSeen
        /\ freed' = freed \union {sv.comm}
        /\ sv' = [sv EXCEPT !.pc = "accept"]
     \/ /\ keep = 1
        /\ sv' = [sv EXCEPT !.pc = "done"]
        /\ UNCHANGED freed
     \/ /\ ~EofSeen
        /\ sv' = [sv EXCEPT !.pc = "head"]
        /\ UNCHANGED freed
  /\ UNCHANGED <<keep, made, up, down, hung, cl, ran, written, fault>>

(* The dispatcher goes on with a comm that xpn_server_run closed and freed *)
(* (EPIPE): the read fails and it returns.                                 *)
ReadOperationAfterFree ==
  /\ sv.pc = "op" /\ sv.comm \in freed
  /\ sv' = [sv EXCEPT !.pc = "done"]
  /\ fault' = fault \union {"comm_used_after_free"}
  /\ UNCHANGED <<keep, made, up, down, hung, freed, cl, ran, written>>

(* xpn_server_read_path: which bytes of the paths are still to come. *)
Rest(len) == IF len > PathMax THEN len - PathMax ELSE 0
WantedTail(len) == IF Rest(len) > 0 THEN <<Rest(len)>> ELSE <<>>
Wanted(op, lens) ==
  LET paths == Handler[op].paths
  IN  (IF Len(paths) >= 1 THEN WantedTail(lens[paths[1]]) ELSE <<>>)
        \o (IF Len(paths) >= 2 THEN WantedTail(lens[paths[2]]) ELSE <<>>)

(* xpn_server_do_operation reads the head.  At the end of the stream       *)
(* nothing is read, ret is 0 and not -1, and the handler runs on what the  *)
(* stack holds: some size, no tail left to wait for.                       *)
ReadHead ==
  /\ sv.pc = "head"
  /\ \/ /\ up[sv.comm] # <<>> /\ Next1.k = "head"
        /\ up' = Taken
        /\ sv' = [sv EXCEPT !.pc = "path", !.size = Next1.v.size,
                            !.need = Wanted(sv.type_op, Next1.v.lens)]
     \/ /\ Eof
        /\ \E size \in 0 .. MaxSize :
             sv' = [sv EXCEPT !.pc = "path", !.size = size, !.garbled = TRUE]
        /\ UNCHANGED up
  /\ UNCHANGED <<keep, made, down, hung, freed, cl, ran, written, fault>>

(* xpn_server_read_path reads a tail; at the end of the stream the path    *)
(* stays cut off at XPN_PATH_MAX bytes and the handler goes on.            *)
ReadTail ==
  /\ sv.pc = "path" /\ sv.need # <<>>
  /\ \/ /\ up[sv.comm] # <<>> /\ Next1.k = "tail" /\ Next1.v = Head(sv.need)
        /\ up' = Taken
        /\ sv' = [sv EXCEPT !.need = Tail(@)]
     \/ /\ Eof
        /\ sv' = [sv EXCEPT !.need = Tail(@), !.garbled = TRUE]
        /\ UNCHANGED up
  /\ UNCHANGED <<keep, made, down, hung, freed, cl, ran, written, fault>>

(* The handlers that make one call of the file system and answer. *)
Plain ==
  /\ sv.pc = "path" /\ sv.need = <<>> /\ sv.type_op \notin {"READ", "WRITE"}
  /\ \E ret \in {0, -1} : Answer(<<Item(Handler[sv.type_op].reply, ret, sv.id)>>)
  /\ RunEnds(0, sv.garbled)
  /\ UNCHANGED <<keep, made, up, hung, cl, fault>>

RwReq(size) == Item(Handler[sv.type_op].reply, size, sv.id)

(* xpn_server_op_read and _write open the file (with a session they have   *)
(* the descriptor) and get a buffer. *)
OpenFile ==
  /\ sv.pc = "path" /\ sv.need = <<>> /\ sv.type_op \in {"READ", "WRITE"}
  /\ sv' = [sv EXCEPT !.pc = sv.type_op]
  /\ UNCHANGED <<keep, made, up, down, hung, freed, cl, ran, written, fault>>

(* A handler that leaves its data on the stream. *)
Abandons(left) == IF left > 0 THEN fault \union {"data_abandoned"} ELSE fault

OpenFileFailsSilently ==
  /\ sv.pc = "path" /\ sv.need = <<>> /\ sv.type_op \in {"READ", "WRITE"}
  /\ RunEnds(0, sv.garbled)
  /\ UNCHANGED <<keep, made, up, down, hung, cl, fault>>

OpenFileFails ==
  /\ sv.pc = "path" /\ sv.need = <<>> /\ sv.type_op \in {"READ", "WRITE"}
  /\ Answer(<<RwReq(-1)>>)
  /\ RunEnds(0, sv.garbled)
  /\ fault' = IF sv.type_op = "WRITE" THEN Abandons(sv.size) ELSE fault
  /\ UNCHANGED <<keep, made, up, hung, cl>>

ToRead == Min({MaxBuffer, sv.size, sv.size - sv.cont})

(* One turn of the loop of xpn_server_op_read.  The first turn may fail    *)
(* for no reason: it tests req.status.ret before anything was put in it.   *)
ReadPiece ==
  /\ sv.pc = "READ"
  /\ \/ /\ Answer(<<RwReq(-1)>>)
        /\ RunEnds(0, sv.garbled)
     \/ \E n \in 0 .. ToRead :
          /\ Answer(<<RwReq(n)>> \o (IF n > 0 THEN <<Item("data", n, sv.id)>> ELSE <<>>))
          /\ IF sv.size - (sv.cont + n) > 0 /\ n # 0
             THEN /\ sv' = [sv EXCEPT !.cont = @ + n]
                  /\ UNCHANGED <<ran, written, freed>>
             ELSE RunEnds(0, sv.garbled)
  /\ UNCHANGED <<keep, made, up, hung, cl, fault>>

ToWrite == Min({MaxBuffer, sv.size - sv.cont})

(* The piece of data that xpn_server_op_write reads next. *)
PieceArrives ==
  \/ /\ up[sv.comm] # <<>> /\ Next1.k = "data" /\ Next1.v = ToWrite
     /\ up' = Taken
  \/ ToWrite = 0 /\ UNCHANGED up

Wrote(garbled) ==
  LET cont == sv.cont + ToWrite IN
  IF cont < sv.size
  THEN /\ sv' = [sv EXCEPT !.cont = cont, !.garbled = garbled]
       /\ UNCHANGED <<down, ran, written, freed>>
  ELSE Answer(<<RwReq(cont)>>) /\ RunEnds(cont, garbled)

(* One turn of the loop of xpn_server_op_write: a piece is read and        *)
(* written; after the last one the total is the answer.                    *)
WritePiece ==
  /\ sv.pc = "WRITE"
  /\ PieceArrives
  /\ Wrote(sv.garbled)
  /\ UNCHANGED <<keep, made, hung, cl, fault>>

(* The stream has ended: the read returns 0, which is not < 0, and the     *)
(* buffer is written with what it holds.                                   *)
WriteMissingPiece ==
  /\ sv.pc = "WRITE" /\ ToWrite > 0 /\ Eof
  /\ Wrote(TRUE)
  /\ UNCHANGED <<keep, made, up, hung, cl, fault>>

SizeOfFailedWriteCounted == sv.cont
SizeOfFailedWrite == -1

(* filesystem_write fails. *)
WriteFails ==
  /\ sv.pc = "WRITE"
  /\ PieceArrives
  /\ Answer(<<RwReq(SizeOfFailedWrite)>>)
  /\ RunEnds(sv.cont, sv.garbled)
  /\ fault' = Abandons(sv.size - sv.cont - ToWrite)
  /\ UNCHANGED <<keep, made, hung, cl>>

(* filesystem_lseek fails: req.size is not set, so it is what the stack    *)
(* held, or the size of the piece before.                                  *)
SeekFails ==
  /\ sv.pc = "WRITE"
  /\ PieceArrives
  /\ \E n \in (IF sv.cont = 0 THEN {-1, 0} ELSE {MaxBuffer}) : Answer(<<RwReq(n)>>)
  /\ RunEnds(sv.cont, sv.garbled)
  /\ fault' = Abandons(sv.size - sv.cont - ToWrite) \union {"seek_failed"}
  /\ UNCHANGED <<keep, made, hung, cl>>

(* The server's process ends and its connections with it (one of the two   *)
(* dies, not both).                                                        *)
ServerDies ==
  /\ "server" \in Deaths
  /\ sv.pc # "dead" /\ made > 0 /\ cl.pc \in {"idle", "sending"}
  /\ sv' = [sv EXCEPT !.pc = "dead"]
  /\ freed' = freed \union 1 .. made
  /\ UNCHANGED <<keep, made, up, down, hung, cl, ran, written, fault>>

------------------------------------------------------------------------------
Paths(f) == [1 .. f.paths -> Lens]
SizesOf(f) == IF f.op \in {"READ", "WRITE"} THEN 0 .. MaxSize ELSE {0}

ClientStep == Connect \/ Send \/ ReceiveStatus \/ ReceiveRead \/ ReceiveEof
ServerStep ==
  \/ Accept \/ ReadOperation \/ ReadOperationFindsData \/ ReadOperationFindsEof
  \/ ReadOperationAfterFree \/ ReadHead \/ ReadTail \/ Plain \/ OpenFile
  \/ OpenFileFails \/ ReadPiece \/ WritePiece \/ WriteMissingPiece \/ WriteFails
  \/ SeekFails

(* Nobody has anything left to do, or the model stops following. *)
Over ==
  /\ cl.pc \in {"ended", "dead", "connect"} \/ sv.pc \in {"astray", "dead"}
  /\ sv.pc \in {"done", "accept", "astray", "dead"}
  /\ UNCHANGED sessionVars

SessionNext ==
  \/ ClientStep
  \/ \E f \in ClientFunctions : \E lens \in Paths(f), size \in SizesOf(f) :
       StartCall(f, lens, size)
  \/ SilentCall \/ Disconnect \/ ClientDies
  \/ ServerStep \/ ServerDies
  \/ Over

SessionSpec == SessionInit /\ [][SessionNext]_sessionVars /\ WF_sessionVars(ClientStep) /\ WF_sessionVars(ServerStep)

------------------------------------------------------------------------------
(* Whatever the server reads next from the connection is what it takes it  *)
(* for: a code when the dispatcher waits for an operation, and the head,   *)
(* the rest of each path and each piece of data, of the request it is      *)
(* serving, when the handler asks for them.  It may not hold once a write  *)
(* was given up with its data unread.                                      *)
ServerInStep ==
  "data_abandoned" \notin fault /\ sv.comm # 0 /\ sv.comm \notin freed /\ up[sv.comm] # <<>> =>
    /\ sv.pc = "op" => Next1.k = "op"
    /\ sv.pc = "head" => Next1.k = "head" /\ Next1.id = sv.id
    /\ sv.pc = "path" /\ sv.need # <<>> =>
         Next1.k = "tail" /\ Next1.id = sv.id /\ Next1.v = Head(sv.need)
    /\ sv.pc = "WRITE" => Next1.k = "data" /\ Next1.id = sv.id /\ Next1.v = ToWrite

(* Whatever the client reads is the struct it expects, sent in answer to   *)
(* the call it is making, and when no call is being made no part of an     *)
(* answer is left to be taken for the next one.                            *)
ClientInStep ==
  "data_abandoned" \notin fault /\ cl.conn # 0 =>
    /\ cl.pc = "sending" /\ down[cl.conn] # <<>> =>
         /\ Head(down[cl.conn]).k = cl.f.reply
         /\ \A i \in 1 .. Len(down[cl.conn]) : down[cl.conn][i].id = cl.id
    /\ cl.pc = "idle" => down[cl.conn] = <<>>

(* Neither end takes a part of the stream for another. *)
InStep == ServerInStep /\ ClientInStep

(* The server runs nothing that was not asked for, and a call that the     *)
(* server answered was run exactly once.  A client that dies and a write   *)
(* given up with its data unread are left out here.                        *)
RequestsRunOnce ==
  fault \intersect {"client_died", "data_abandoned"} = {} =>
    /\ ran[0] = 0
    /\ cl.pc = "idle" /\ cl.res \in {"ok", "error"} /\ "no_answer" \notin fault => ran[cl.id] = 1

(* A read never puts more bytes in the caller's buffer than its size, and  *)
(* what it reports is what it put there. *)
ReadFitsBuffer ==
  cl.f.op = "READ" /\ "data_abandoned" \notin fault => cl.cont <= cl.size

(* A write that returns success was written to the server's file in full,  *)
(* unless the server never answered or its lseek failed.                   *)
WriteOkMeansWritten ==
  /\ cl.pc = "idle" /\ cl.res = "ok" /\ cl.f.op = "WRITE"
  /\ fault \intersect {"no_answer", "seek_failed"} = {}
  => written[cl.id] = cl.size

(* The dispatcher never goes on with a comm that was freed, unless the     *)
(* client died.                                                            *)
FreedCommNotUsed ==
  "client_died" \notin fault => "comm_used_after_free" \notin fault

(* What a call did is what it says. *)
CallsDoWhatTheySay == RequestsRunOnce /\ ReadFitsBuffer /\ WriteOkMeansWritten /\ FreedCommNotUsed

(* A call does not wait for ever: it returns whatever the file system of   *)
(* the server answers, and also when the server dies.                      *)
CallsReturn ==
  cl.pc = "sending" ~> (cl.pc # "sending" \/ "data_abandoned" \in fault)

(* A connection that the client closed in an orderly way is closed by the  *)
(* server and its comm freed.                                              *)
ConnectionReleased ==
  \A c \in Conns :
    c \in hung ~> (c \in freed \/ fault \intersect {"client_died", "data_abandoned"} # {})

(* Calls return and connections are closed. *)
SessionGoesOn == CallsReturn /\ ConnectionReleased
=============================================================================
