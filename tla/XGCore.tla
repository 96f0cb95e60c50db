------------------------------- MODULE XGCore -------------------------------
(***************************************************************************)
(* The gateway's proxy core (xlinkgateway/src/XGCore.c and XGProtocol.c).  *)
(*                                                                         *)
(* Sub-devices connect to the gateway over TCP.  The core thread keeps one *)
(* Connect record per sub-device, parses one frame of each connection per  *)
(* pass, logs the device in against the device table, and proxies it to    *)
(* the cloud over a second socket.  Opening that second socket may block   *)
(* for five seconds, so a connect thread does it: the core thread queues a *)
(* task that carries only the DEVICE ID, and later applies the result to   *)
(* the first connection of its list that has this id.                      *)
(*                                                                         *)
(* Three kinds of actors interleave: the core thread (variable pc walks    *)
(* through the stages of one pass of its loop), the connect thread, and    *)
(* the threads of the application that queue data or change the table.     *)
(* Time is not represented: wherever the code compares the clock with a    *)
(* recorded time, the comparison may go either way.                        *)
(***************************************************************************)
EXTENDS Integers, Sequences, FiniteSets

CONSTANTS
  Conn,          \* addresses of Connect records (XGConnectFactory)
  Device,        \* device ids other than 0
  NoDevice,      \* device id 0: no CONNECT frame accepted yet
  MaxFd,         \* file descriptors are 0..MaxFd; the kernel hands out the lowest
  Transient,     \* the devices that users may add and remove while the gateway runs
  MaxTasks,      \* bound on the connect tasks under way
  MaxSend,       \* bound on the items the application has queued
  MaxQueue,      \* bound on the data waiting in or for one connection
  MaxRx,         \* bound on the complete frames waiting in one recvBuffer
  ClientFrames,  \* frames a sub-device may send; "IGNORED" is one that is
                 \* consumed without effect (CONNECT with id 0, short PIPE)
  ServerFrames   \* frames the cloud may send

ASSUME ConstantsAssumption ==
  /\ NoDevice \notin Device
  /\ MaxFd \in Nat
  /\ Transient \subseteq Device
  /\ MaxTasks \in Nat /\ MaxSend \in Nat
  /\ MaxQueue \in Nat
  /\ MaxRx \in Nat
  /\ ClientFrames \subseteq {"CONNECT", "IGNORED", "CONNECT_SHORT", "PING", "PIPE", "OTHER"}
  /\ ServerFrames \subseteq {"CONNECT", "IGNORED", "PIPE", "OTHER"}

VARIABLES
  list,       \* core->Connects: the connections, newest first
  conn,       \* the Connect records
  peer,       \* who is at the other end of a connection (environment)
  pc, cur,    \* the stage of the core thread's pass, and its cursor in list
  polled,     \* the connections put into the fd_sets of this pass
  head,       \* XGConnectTask's local list of new tasks
  batch,      \* task results the core thread has taken and not yet applied
  tasks,      \* core->ConnectTasks: device ids
  worker,     \* the task the connect thread is working on
  results,    \* core->ConnectTasksResult
  clientQ,    \* core->ClientSendQueue: device ids of the queued items
  cloudQ,     \* core->CloudSendQueue
  openFds,    \* the descriptors open in this process
  db,         \* table "device": the row's status, or "absent"
  fresh       \* rows inserted by a join and not written since (history)

coreVars == <<list, conn, peer, pc, cur, polled, head, batch>>
taskVars == <<tasks, worker, results>>
dataVars == <<clientQ, cloudQ>>
dbVars   == <<db, fresh>>
vars     == <<coreVars, taskVars, dataVars, openFds, dbVars>>

Fd == 0..MaxFd
DeviceId == Device \cup {NoDevice}

\* e_server_status_t
ServerStatus == {"E_SER_WAIT_CLIENT_LOGIN", "E_SER_WAIT_CONECT", "E_SER_CONNECTING",
                 "E_SER_WAIT_LOGIN_RESULT", "E_SER_LOGINED"}
\* e_client_status_t
ClientStatus == {"E_CLI_WAIT_LOGIN", "E_CLI_LOGINED"}

\* The stages of one pass of the core thread's loop, in order.
Stages == {"Remove", "Protocol", "SendQueue", "Task", "Result", "Timeout",
           "FdSet", "Accept", "Udp", "Send", "Recv"}

(* struct Connect.  A socket handle of 0 means "none"; sendQueues hold the *)
(* device ids of their items, recvBuffers the frames received.             *)
ConnectState ==
  [id : DeviceId, active : BOOLEAN, islogined : BOOLEAN,
   client : ClientStatus, clientSock : Fd, clientRx : Seq(ClientFrames), clientOut : Seq(DeviceId),
   server : ServerStatus, serverSock : Fd, serverRx : Seq(ServerFrames), serverOut : Seq(DeviceId)]

\* XGMemFactory returns zeroed memory
Zeroed ==
  [id |-> NoDevice, active |-> FALSE, islogined |-> FALSE,
   client |-> "E_CLI_WAIT_LOGIN", clientSock |-> 0, clientRx |-> <<>>, clientOut |-> <<>>,
   server |-> "E_SER_WAIT_CLIENT_LOGIN", serverSock |-> 0, serverRx |-> <<>>, serverOut |-> <<>>]

ConnectTask == [id : DeviceId, fd : Fd]

\* The connect thread: idle, about to create a socket, or waiting in select().
Idle == [phase |-> "idle", id |-> NoDevice, fd |-> 0]
Worker == {Idle} \cup [phase : {"resolve", "connect"}, id : DeviceId, fd : Fd]

TypeOK ==
  /\ list \in Seq(Conn)
  /\ conn \in [Conn -> ConnectState]
  /\ peer \in [Conn -> DeviceId]
  /\ pc \in Stages
  /\ cur \in Nat \ {0}
  /\ polled \subseteq Conn
  /\ head \in Seq(DeviceId)
  /\ batch \in Seq(ConnectTask)
  /\ tasks \in Seq(DeviceId)
  /\ worker \in Worker
  /\ results \in Seq(ConnectTask)
  /\ clientQ \in Seq(DeviceId)
  /\ cloudQ \in Seq(DeviceId)
  /\ openFds \subseteq Fd
  /\ db \in [Device -> {"absent", "0", "1"}]
  /\ fresh \subseteq Device

-----------------------------------------------------------------------------
Listed == {list[i] : i \in 1..Len(list)}

\* Descriptors above 0 that some record refers to.
HandlesOf(c) == {conn[c].clientSock, conn[c].serverSock} \ {0}

\* What the kernel returns for socket() and accept(); -1 when the table is full.
NewFd ==
  IF openFds = Fd THEN -1
  ELSE CHOOSE f \in Fd \ openFds : \A g \in Fd \ openFds : f <= g

\* XGGetConnectByDeviceid, and the search loops of XGSendQueueClient/Cloud:
\* the first connection of the list with this id, active or not.
Found(d) == \E i \in 1..Len(list) : conn[list[i]].id = d
XGGetConnectByDeviceid(d) ==
  list[CHOOSE i \in 1..Len(list) :
         /\ conn[list[i]].id = d
         /\ \A j \in 1..(i - 1) : conn[list[j]].id # d]

\* Bound: the environment sends nothing more to or for c while this much is pending.
Room(c) ==
  /\ Len(conn[c].clientOut) + Len(conn[c].clientRx) + Len(conn[c].serverRx) + Len(clientQ) < MaxQueue
  /\ Len(conn[c].serverOut) + Len(conn[c].clientRx) + Len(cloudQ) < MaxQueue

\* Bound: tasks queued, worked on, or waiting to be applied.
TasksUnderWay ==
  Len(head) + Len(tasks) + Len(results) + Len(batch) + (IF worker = Idle THEN 0 ELSE 1)

Init ==
  /\ list = <<>>
  /\ conn = [c \in Conn |-> Zeroed]
  /\ peer = [c \in Conn |-> NoDevice]
  /\ pc = "Remove" /\ cur = 1 /\ polled = {} /\ head = <<>>
  /\ batch = <<>> /\ tasks = <<>> /\ worker = Idle /\ results = <<>>
  /\ clientQ = <<>> /\ cloudQ = <<>>
  /\ openFds = {0}                          \* standard input
  /\ db \in [Device -> {"absent", "0"}]     \* dbCreateDeviceTable: all offline
  /\ \A d \in Device \ Transient : db[d] = "0"
  /\ fresh = {}

Goto(stage) == pc' = stage /\ cur' = 1

-----------------------------------------------------------------------------
(* The core thread, stage by stage.                                        *)

\* XGRemoveNotActive, one turn of its loop.  An inactive connection has both its
\* sockets closed, handle 0 included; OnLoginout is called if it was logged in; it
\* is unlinked and freed.
XGRemoveNotActive ==
  /\ pc = "Remove" /\ cur <= Len(list)
  /\ LET c == list[cur]
         logout == conn[c].islogined /\ conn[c].id # NoDevice
     IN IF conn[c].active
        THEN cur' = cur + 1 /\ UNCHANGED <<list, conn, openFds, dbVars>>
        ELSE /\ openFds' = openFds \ {conn[c].clientSock, conn[c].serverSock}
             /\ db' = IF logout /\ db[conn[c].id] # "absent"
                      THEN [db EXCEPT ![conn[c].id] = "0"] ELSE db
             /\ fresh' = IF logout THEN fresh \ {conn[c].id} ELSE fresh
             /\ list' = SubSeq(list, 1, cur - 1) \o SubSeq(list, cur + 1, Len(list))
             /\ conn' = [conn EXCEPT ![c] = Zeroed]
             /\ cur' = cur
  /\ UNCHANGED <<peer, pc, polled, head, batch, taskVars, dataVars>>

\* Mutant: the equal ids are not looked for.
RemoveNobody(cs, d) == cs

\* Mutant: islogined of the retired connections is not reset.
RemoveKeepsLogin(cs, d) ==
  [c \in Conn |-> IF c \in Listed /\ cs[c].id = d THEN [cs[c] EXCEPT !.active = FALSE] ELSE cs[c]]

\* XGRemoveConnectByDeviceID: every connection with the id, the caller's included.
XGRemoveConnectByDeviceID(cs, d) ==
  [c \in Conn |-> IF c \in Listed /\ cs[c].id = d
                  THEN [cs[c] EXCEPT !.active = FALSE, !.islogined = FALSE]
                  ELSE cs[c]]

\* An item linked to the end of a sendQueue.
ToClient(r, d) == [r EXCEPT !.clientOut = Append(@, d)]
ToServer(r, d) == [r EXCEPT !.serverOut = Append(@, d)]

\* The CONNECT branch of XGProtocolClient for a well-formed frame with id d.
\* known is the result of OnDeviceLogin: the device has a row in the table.
Login(cs, c, d, known) ==
  LET others == XGRemoveConnectByDeviceID(cs, d)
      named == ToClient([others[c] EXCEPT !.id = d], d)
  IN [others EXCEPT ![c] =
        IF known THEN [named EXCEPT !.islogined = TRUE, !.client = "E_CLI_LOGINED",
                                    !.server = "E_SER_WAIT_CONECT"]
                 ELSE named]

\* What XGProtocolClient does to the Connect records for frame f of connection c.
ClientFrameEffect(cs, c, f) ==
  CASE f = "CONNECT"       -> Login(cs, c, peer[c], db[peer[c]] # "absent")
    [] f = "CONNECT_SHORT" -> [cs EXCEPT ![c] = [@ EXCEPT !.active = FALSE]]
    [] f = "PING"          -> [cs EXCEPT ![c] = ToServer(ToClient(cs[c], cs[c].id), cs[c].id)]
    [] f \in {"PIPE", "IGNORED"} -> cs
    [] f = "OTHER"         -> [cs EXCEPT ![c] = ToServer(cs[c], cs[c].id)]

\* XGProtocolServer: a CONNECT reply, whatever its result byte, means logged in;
\* everything but PIPE is relayed to the sub-device.
ServerFrameEffect(cs, c, f) ==
  CASE f = "CONNECT" -> [cs EXCEPT ![c] = [ToClient(cs[c], cs[c].id) EXCEPT !.server = "E_SER_LOGINED"]]
    [] f \in {"PIPE", "IGNORED"} -> cs
    [] f = "OTHER"   -> [cs EXCEPT ![c] = ToClient(cs[c], cs[c].id)]

\* The frame a parser finds in a recvBuffer.
NextFrame(rx) == IF rx # <<>> THEN Head(rx) ELSE "none"

\* The Connect records after the client's, and after the server's, next frame.
XGProtocolClient(cs, c) ==
  IF cs[c].clientRx = <<>> THEN cs
  ELSE ClientFrameEffect([cs EXCEPT ![c].clientRx = Tail(@)], c, NextFrame(cs[c].clientRx))
XGProtocolServer(cs, c) ==
  IF cs[c].serverRx = <<>> THEN cs
  ELSE ServerFrameEffect([cs EXCEPT ![c].serverRx = Tail(@)], c, NextFrame(cs[c].serverRx))

\* XGProtocolStart, one turn of its loop: XGProtocol parses at most one client
\* frame, then at most one server frame.
XGProtocol ==
  /\ pc = "Protocol" /\ cur <= Len(list)
  /\ LET c == list[cur]
         cs == XGProtocolClient(conn, c)
         cf == NextFrame(conn[c].clientRx)
         sf == NextFrame(conn[c].serverRx)
         login == cf = "CONNECT" /\ db[peer[c]] # "absent"
     IN /\ conn' = XGProtocolServer(cs, c)
        /\ db' = IF login THEN [db EXCEPT ![peer[c]] = "1"] ELSE db
        /\ fresh' = IF login THEN fresh \ {peer[c]} ELSE fresh
        /\ cloudQ' = IF cf = "PIPE" THEN Append(cloudQ, conn[c].id) ELSE cloudQ
        /\ clientQ' = IF sf = "PIPE" THEN Append(clientQ, cs[c].id) ELSE clientQ
  /\ cur' = cur + 1
  /\ UNCHANGED <<list, peer, pc, polled, head, batch, taskVars, openFds>>

\* Mutant: the search compares nothing and takes the first logged-in connection.
RoutedToAnyone(queue, c, ready) ==
  IF ready /\ c \in Listed THEN queue ELSE <<>>

\* XGSendQueueClient and XGSendQueueCloud append an item to the sendQueue of the
\* first connection with its id, if that one is logged in; else it is dropped.
Routed(queue, c, ready) ==
  IF ready /\ c \in Listed /\ XGGetConnectByDeviceid(conn[c].id) = c
  THEN [i \in 1..Cardinality({k \in 1..Len(queue) : queue[k] = conn[c].id}) |-> conn[c].id]
  ELSE <<>>

\* XGPSendQueeu: drains both queues, unless the lock is taken.
XGPSendQueeu ==
  /\ pc = "SendQueue"
  /\ Goto("Task")
  /\ \/ /\ conn' = [c \in Conn |->
             [conn[c] EXCEPT
                !.clientOut = @ \o Routed(clientQ, c, conn[c].client = "E_CLI_LOGINED"),
                !.serverOut = @ \o Routed(cloudQ, c, conn[c].server = "E_SER_LOGINED")]]
        /\ clientQ' = <<>> /\ cloudQ' = <<>>
     \/ UNCHANGED <<conn, dataVars>>
  /\ UNCHANGED <<list, peer, polled, head, batch, taskVars, openFds, dbVars>>

\* XGConnectTask, one turn of its loop: whether three seconds have passed since
\* server.time is the environment's choice.  The data queued for the old cloud
\* session is thrown away.
WantsServer(c) == conn[c].server = "E_SER_WAIT_CONECT" /\ conn[c].active

XGConnectTask ==
  /\ pc = "Task" /\ cur <= Len(list)
  /\ \/ /\ WantsServer(list[cur])
        /\ TasksUnderWay < MaxTasks
        /\ conn' = [conn EXCEPT ![list[cur]].server = "E_SER_CONNECTING",
                                ![list[cur]].serverOut = <<>>]
        /\ head' = Append(head, conn[list[cur]].id)
     \/ UNCHANGED <<conn, head>>
  /\ cur' = cur + 1
  /\ UNCHANGED <<list, peer, pc, polled, batch, taskVars, dataVars, openFds, dbVars>>

\* The end of XGConnectTask: the new tasks are linked behind the queued ones.
AddTasks ==
  /\ pc = "Task" /\ cur > Len(list)
  /\ tasks' = tasks \o head /\ head' = <<>>
  /\ Goto("Result")
  /\ UNCHANGED <<list, conn, peer, polled, batch, worker, results, dataVars, openFds, dbVars>>

\* XGConnectTaskResult, first half: take the whole result list, unless it is empty
\* or locked.
TakeResults ==
  /\ pc = "Result" /\ batch = <<>>
  /\ \/ /\ results # <<>>
        /\ batch' = results /\ results' = <<>>
        /\ UNCHANGED <<pc, cur>>
     \/ Goto("Timeout") /\ UNCHANGED <<batch, results>>
  /\ UNCHANGED <<list, conn, peer, polled, head, tasks, worker, dataVars, openFds, dbVars>>

\* XGConnectTaskResult, the loop: apply one result to the connection found by id.
\* sent: the cached CONNECT frame went out on the new socket.
ApplyResult(sent) ==
  /\ pc = "Result" /\ batch # <<>>
  /\ LET t == Head(batch)
         c == XGGetConnectByDeviceid(t.id)
         use == Found(t.id) /\ t.fd > 0 /\ sent
     IN /\ conn' =
             IF ~Found(t.id) THEN conn
             ELSE IF use THEN [conn EXCEPT ![c].server = "E_SER_WAIT_LOGIN_RESULT",
                                           ![c].serverSock = t.fd]
             ELSE [conn EXCEPT ![c].server = "E_SER_WAIT_CONECT"]
        /\ openFds' = IF t.fd > 0 /\ ~use THEN openFds \ {t.fd} ELSE openFds
  /\ batch' = Tail(batch)
  /\ IF Len(batch) = 1 THEN Goto("Timeout") ELSE UNCHANGED <<pc, cur>>
  /\ UNCHANGED <<list, peer, polled, head, taskVars, dataVars, dbVars>>

\* XGTimeout: serverLate are the connections whose cloud login took over 15 s,
\* clientLate those whose device was silent for 20 s (180 s once logged in).
XGTimeout ==
  /\ pc = "Timeout"
  /\ \E serverLate \in SUBSET Listed : \E clientLate \in SUBSET Listed :
       LET dropped == {c \in serverLate : conn[c].server = "E_SER_WAIT_LOGIN_RESULT"
                                          /\ conn[c].serverSock > 0}
       IN /\ openFds' = openFds \ {conn[c].serverSock : c \in dropped}
          /\ conn' = [c \in Conn |->
               [conn[c] EXCEPT !.active = @ /\ c \notin clientLate,
                               !.server = IF c \in dropped THEN "E_SER_WAIT_CONECT" ELSE @,
                               !.serverSock = IF c \in dropped THEN 0 ELSE @]]
  /\ Goto("FdSet")
  /\ UNCHANGED <<list, peer, polled, head, batch, taskVars, dataVars, dbVars>>

\* Building the fd_sets marks connections without a client socket inactive.
FdSet ==
  LET ok == {c \in Listed : conn[c].active /\ conn[c].clientSock > 0}
  IN /\ pc = "FdSet"
     /\ conn' = [c \in Conn |-> [conn[c] EXCEPT !.active = c \in ok]]
     /\ polled' = ok
     /\ Goto("Accept")
     /\ UNCHANGED <<list, peer, head, batch, taskVars, dataVars, openFds, dbVars>>

\* XGAcceptConnect.  A descriptor of 0 is taken for an error and stays open.
XGAcceptConnect ==
  /\ pc = "Accept"
  /\ Goto("Udp")
  /\ \/ UNCHANGED <<list, conn, peer, openFds>>
     \/ /\ NewFd = 0
        /\ openFds' = openFds \cup {0}
        /\ UNCHANGED <<list, conn, peer>>
     \/ /\ NewFd > 0
        /\ \E c \in Conn \ Listed, d \in Device :
             /\ list' = <<c>> \o list
             /\ conn' = [conn EXCEPT ![c] = [Zeroed EXCEPT !.active = TRUE, !.clientSock = NewFd]]
             /\ peer' = [peer EXCEPT ![c] = d]
        /\ openFds' = openFds \cup {NewFd}
  /\ UNCHANGED <<polled, head, batch, taskVars, dataVars, dbVars>>

\* XGRecvUdpData: a join request inside the join window inserts a row, as online
\* (OnDiscoverDevice, dbAddDevice); other datagrams leave this state alone.
XGRecvUdpData ==
  /\ pc = "Udp"
  /\ Goto("Send")
  /\ \/ UNCHANGED dbVars
     \/ \E d \in Transient :
                          /\ db[d] = "absent"
                          /\ db' = [db EXCEPT ![d] = "1"]
                          /\ fresh' = fresh \cup {d}
  /\ UNCHANGED <<list, conn, peer, polled, head, batch, taskVars, dataVars, openFds>>

\* XGConnectSend for the sockets select() reported writable: one item each.
CanSendClient(c) == c \in polled /\ conn[c].clientOut # <<>>
CanSendServer(c) == c \in polled /\ conn[c].serverSock > 0 /\ conn[c].serverOut # <<>>

XGConnectSend ==
  /\ pc = "Send"
  /\ \E toClient \in SUBSET {c \in Conn : CanSendClient(c)} :
     \E toServer \in SUBSET {c \in Conn : CanSendServer(c)} :
       conn' = [c \in Conn |->
                 [conn[c] EXCEPT !.clientOut = IF c \in toClient THEN Tail(@) ELSE @,
                                 !.serverOut = IF c \in toServer THEN Tail(@) ELSE @]]
  /\ Goto("Recv")
  /\ UNCHANGED <<list, peer, polled, head, batch, taskVars, dataVars, openFds, dbVars>>

\* The outcomes of XGRecvConnectClient for a readable socket (the Connect record
\* afterwards and the descriptors closed): a frame, or end of file.  recv() with
\* no room left in the buffer returns 0 too and is taken for end of file.
XGRecvConnectClient(r, room) ==
  {[r |-> [r EXCEPT !.active = FALSE, !.clientSock = 0], closed |-> {r.clientSock}]} \cup
  {[r |-> [r EXCEPT !.clientRx = Append(@, f)], closed |-> {}] :
     f \in {g \in ClientFrames : room /\ Len(r.clientRx) < MaxRx}}

\* Mutant: the closed handle stays in the record.
RecvServerKeepsHandle(r, room) ==
  {[r |-> [r EXCEPT !.server = "E_SER_WAIT_CONECT"], closed |-> {r.serverSock}]} \cup
  {[r |-> [r EXCEPT !.serverRx = Append(@, f)], closed |-> {}] :
     f \in {g \in ServerFrames : room /\ Len(r.serverRx) < MaxRx}}

\* XGRecvConnectServer; the frames in the buffer survive the end of the session.
XGRecvConnectServer(r, room) ==
  {[r |-> [r EXCEPT !.server = "E_SER_WAIT_CONECT", !.serverSock = 0], closed |-> {r.serverSock}]} \cup
  {[r |-> [r EXCEPT !.serverRx = Append(@, f)], closed |-> {}] :
     f \in {g \in ServerFrames : room /\ Len(r.serverRx) < MaxRx}}

\* One turn of the receive loop of XGCoreThread: either socket may be readable.
Recv ==
  /\ pc = "Recv" /\ cur <= Len(list)
  /\ LET c == list[cur]
         same(r) == {[r |-> r, closed |-> {}]}
         inSet == c \in polled
     IN \E x \in same(conn[c]) \cup
               (IF inSet THEN XGRecvConnectClient(conn[c], Room(c)) ELSE {}) :
        \E y \in same(x.r) \cup
               (IF inSet /\ conn[c].serverSock > 0 THEN XGRecvConnectServer(x.r, Room(c)) ELSE {}) :
          /\ conn' = [conn EXCEPT ![c] = y.r]
          /\ openFds' = openFds \ (x.closed \cup y.closed)
  /\ cur' = cur + 1
  /\ UNCHANGED <<list, peer, pc, polled, head, batch, taskVars, dataVars, dbVars>>

\* A loop over the list has reached its end: the pass goes on with what follows.
LoopEnd ==
  /\ cur > Len(list)
  /\ \/ pc = "Remove" /\ Goto("Protocol") /\ UNCHANGED polled
     \/ pc = "Protocol" /\ Goto("SendQueue") /\ UNCHANGED polled
     \/ pc = "Recv" /\ Goto("Remove") /\ polled' = {}
  /\ UNCHANGED <<list, conn, peer, head, batch, taskVars, dataVars, openFds, dbVars>>

-----------------------------------------------------------------------------
(* The connect thread.                                                     *)

\* XGCoreConnectServerThread takes the first task.
TakeTask ==
  /\ worker = Idle /\ tasks # <<>>
  /\ worker' = [phase |-> "resolve", id |-> Head(tasks), fd |-> 0]
  /\ tasks' = Tail(tasks)
  /\ UNCHANGED <<coreVars, results, dataVars, openFds, dbVars>>

\* The thread appends its task, with the descriptor it obtained, to the results.
PutResult(fd) ==
  /\ results' = Append(results, [id |-> worker.id, fd |-> fd])
  /\ worker' = Idle

\* Mutant: the result of socket() is not checked.
CreateSocketUnchecked ==
  /\ worker.phase = "resolve"
  /\ openFds' = openFds \cup {NewFd}
  /\ worker' = [worker EXCEPT !.phase = "connect", !.fd = NewFd]
  /\ UNCHANGED <<coreVars, tasks, results, dataVars, dbVars>>

\* XGConnectServer up to connect(): no address, or no usable descriptor (0 is
\* refused and stays open), ends the attempt.
CreateSocket ==
  /\ worker.phase = "resolve"
  /\ \/ PutResult(0) /\ UNCHANGED openFds
     \/ NewFd = 0 /\ openFds' = openFds \cup {0} /\ PutResult(0)
     \/ /\ NewFd > 0
        /\ openFds' = openFds \cup {NewFd}
        /\ worker' = [worker EXCEPT !.phase = "connect", !.fd = NewFd]
        /\ UNCHANGED results
  /\ UNCHANGED <<coreVars, tasks, dataVars, dbVars>>

\* Mutant: a failed attempt is not reported back.
FinishConnectSilent ==
  /\ worker.phase = "connect"
  /\ \/ PutResult(worker.fd) /\ UNCHANGED openFds
     \/ worker' = Idle /\ UNCHANGED results /\ openFds' = openFds \ {worker.fd}
  /\ UNCHANGED <<coreVars, tasks, dataVars, dbVars>>

\* connect() and select(): connected, or refused or timed out and closed.
FinishConnect ==
  /\ worker.phase = "connect"
  /\ \/ PutResult(worker.fd) /\ UNCHANGED openFds
     \/ PutResult(0) /\ openFds' = openFds \ {worker.fd}
  /\ UNCHANGED <<coreVars, tasks, dataVars, dbVars>>

-----------------------------------------------------------------------------
(* Other threads of the gateway, and its environment.                      *)

\* A frame for device d: SendPipeClient.
SendPipeClient(d) == clientQ' = Append(clientQ, d) /\ UNCHANGED cloudQ

\* A frame of device d for one app, or for all of them: SendPipeCloud, SendPipeSyncCloud.
SendPipeCloud(d) == cloudQ' = Append(cloudQ, d) /\ UNCHANGED clientQ

\* XGCoreSendData, called by the application for a device.
XGCoreSendData ==
  /\ Len(clientQ) + Len(cloudQ) < MaxSend
  /\ \A c \in Conn : Room(c)
  /\ \E d \in Device : SendPipeClient(d) \/ SendPipeCloud(d)
  /\ UNCHANGED dbVars

\* dbDeleteDevice, called when a user removes a device.
dbDeleteDevice ==
  /\ \E d \in Transient :
                       /\ db[d] # "absent"
                       /\ db' = [db EXCEPT ![d] = "absent"]
                       /\ fresh' = fresh \ {d}
  /\ UNCHANGED dataVars

\* The application's threads: they touch the send queues or the table, and nothing of the core's own.
ApplicationThread ==
  /\ XGCoreSendData \/ dbDeleteDevice
  /\ UNCHANGED <<coreVars, taskVars, openFds>>

\* Mutant: the statuses of the previous life are kept.
TableAsLeft == db

\* The rows after dbCreateDeviceTable has run on an existing table: all offline.
dbCreateDeviceTable == [d \in Device |-> IF db[d] = "1" THEN "0" ELSE db[d]]

\* The process dies and is started again: everything but the table is lost, and
\* dbCreateDeviceTable marks every device offline.
Restart ==
  /\ list' = <<>>
  /\ conn' = [c \in Conn |-> Zeroed]
  /\ peer' = [c \in Conn |-> NoDevice]
  /\ pc' = "Remove" /\ cur' = 1 /\ polled' = {} /\ head' = <<>>
  /\ batch' = <<>> /\ tasks' = <<>> /\ worker' = Idle /\ results' = <<>>
  /\ clientQ' = <<>> /\ cloudQ' = <<>>
  /\ openFds' = {0}
  /\ db' = dbCreateDeviceTable
  /\ fresh' = {}

CoreThread ==
  \/ XGRemoveNotActive \/ XGProtocol \/ XGPSendQueeu \/ XGConnectTask \/ AddTasks
  \/ TakeResults \/ (\E sent \in BOOLEAN : ApplyResult(sent)) \/ XGTimeout \/ FdSet
  \/ XGAcceptConnect \/ XGRecvUdpData \/ XGConnectSend \/ Recv \/ LoopEnd

ConnectThread == TakeTask \/ CreateSocket \/ FinishConnect

Next == CoreThread \/ ConnectThread \/ ApplicationThread \/ Restart

Spec == Init /\ [][Next]_vars

(* Both threads keep running: select() has a timeout and connect() is polled  *)
(* for at most five seconds.  The trylock of XGConnectTaskResult cannot fail  *)
(* for ever, as the connect thread holds that lock for one append per task.   *)
FairSpec ==
  /\ Spec
  /\ WF_vars(CoreThread)
  /\ WF_vars(ConnectThread)
  /\ SF_vars(TakeResults /\ batch' # <<>>)

-----------------------------------------------------------------------------
(* Properties.                                                             *)

\* A device has at most one live connection: XGProDeviceConnectRequest retires every
\* other connection with the id before it gives the id to the caller.
OneActivePerDevice ==
  \A c, e \in Conn :
    /\ c # e /\ conn[c].active /\ conn[e].active
    /\ conn[c].id = conn[e].id
    => conn[c].id = NoDevice

\* Everything that holds a descriptor above 0.  The key tells the holders apart.
Holders ==
  {<<"client", c, conn[c].clientSock>> : c \in Conn} \cup
  {<<"server", c, conn[c].serverSock>> : c \in Conn} \cup
  {<<"batch", i, batch[i].fd>> : i \in 1..Len(batch)} \cup
  {<<"result", i, results[i].fd>> : i \in 1..Len(results)} \cup
  {<<"worker", 0, worker.fd>>}
HoldersOf(f) == {h \in Holders : h[3] = f}

\* A descriptor above 0 kept in a Connect record, by the connect thread or in a task
\* result is open and has no other holder, so that closing it in XGRemoveNotActive,
\* XGTimeout or XGRecvConnect* never closes a socket somebody else still uses.
HandlesExclusive ==
  \A f \in Fd \ {0} :
    /\ Cardinality(HoldersOf(f)) <= 1
    /\ HoldersOf(f) # {} => f \in openFds

\* A device with a live, logged-in connection is never shown offline: the logout of a
\* superseded connection (OnLoginout) must not overwrite the login of its successor.
OnlineNotShownOffline ==
  \A c \in Conn : conn[c].active /\ conn[c].islogined => db[conn[c].id] # "0"

\* A device shown online is logged in on some connection, unless its row was
\* inserted as online by a join and nothing has been written to it since.
ShownOnlineJustified ==
  \A d \in Device : db[d] = "1" =>
    d \in fresh \/ \E c \in Conn : conn[c].islogined /\ conn[c].id = d

\* Data stays with its device: whatever waits in the queues of a connection was
\* addressed to (or came from) the device at the other end, or was queued before it
\* told its id.
DataStaysWithDevice ==
  \A c \in Conn : LET q == conn[c].clientOut \o conn[c].serverOut
                 IN \A i \in 1..Len(q) : q[i] \in {peer[c], NoDevice}

\* A connection that has asked for a cloud socket gets an answer, and so does not
\* stay in E_SER_CONNECTING, from where nothing retries.
ConnectingResolves ==
  \A c \in Conn : conn[c].server = "E_SER_CONNECTING" ~> conn[c].server # "E_SER_CONNECTING"

=============================================================================
