---------------------------- MODULE XGCoreProofs ----------------------------
(***************************************************************************)
(* Proofs about the proxy core, for any number of connections, devices and *)
(* descriptors and for every bound: its type invariant; that a device has  *)
(* at most one live connection; and what the core must keep apart: a       *)
(* device that is logged in is not shown offline, one shown online is      *)
(* logged in or has just joined, queued data stays with its device; and    *)
(* whatever the core thread, the connect thread and a late task result do, *)
(* no two places refer to the same open socket and none refers to a closed *)
(* one.                                                                    *)
(***************************************************************************)
EXTENDS XGCore, FiniteSetTheorems, SequenceTheorems, WellFoundedInduction, TLAPS

USE DEF Goto

\* A non-empty set of naturals has a least element.
LEMMA LeastNatural ==
  ASSUME NEW T \in SUBSET Nat, T # {}
  PROVE  \E x \in T : \A y \in T : x <= y
<1> DEFINE Less == OpToRel(<, Nat)
<1>1. IsWellFoundedOn(Less, Nat)
  BY NatLessThanWellFounded
<1>2. \A x \in Nat, y \in Nat : y < x => <<y, x>> \in Less
  BY DEF OpToRel
<1> HIDE DEF Less
<1>3. PICK x \in T : \A y \in T : ~(<<y, x>> \in Less)
  BY <1>1, WFMin
<1>4. ASSUME NEW y \in T PROVE x <= y
  <2>1. x \in Nat /\ y \in Nat /\ ~(y < x)
    BY <1>2, <1>3
  <2> QED BY <2>1
<1> QED BY <1>4

\* The kernel's answer is a closed descriptor, or -1 when there is none.
LEMMA NewFdType ==
  ASSUME openFds \subseteq Fd
  PROVE  NewFd = -1 \/ NewFd \in Fd \ openFds
<1>1. CASE openFds = Fd
  BY <1>1 DEF NewFd
<1>2. CASE openFds # Fd
  <2> DEFINE free == Fd \ openFds
  <2>1. free # {} /\ free \in SUBSET Nat
    <3>1. free # {}
      BY <1>2
    <3>2. Fd \subseteq Nat
      BY ConstantsAssumption DEF Fd
    <3> QED BY <3>1, <3>2
  <2> HIDE DEF free
  <2>2. \E f \in free : \A g \in free : f <= g
    BY <2>1, LeastNatural
  <2> QED BY <1>2, <2>2 DEF NewFd, free
<1> QED BY <1>1, <1>2

\* A Connect record given field by field.
LEMMA ZeroedType == Zeroed \in ConnectState
BY ConstantsAssumption DEF Zeroed, ConnectState, DeviceId, ClientStatus, ServerStatus, Fd

\* The empty queue, of ids or of task results.
LEMMA EmptyType == <<>> \in Seq(DeviceId) /\ <<>> \in Seq(ConnectTask)
OBVIOUS

\* The items routed to one connection.
LEMMA RoutedType ==
  ASSUME TypeOK, NEW queue \in Seq(DeviceId), NEW c \in Conn, NEW ready \in BOOLEAN
  PROVE  Routed(queue, c, ready) \in Seq(DeviceId)
<1>1. conn[c].id \in DeviceId
  BY DEF TypeOK, ConnectState
<1> DEFINE S == {k \in 1..Len(queue) : queue[k] = conn[c].id}
<1>2. IsFiniteSet(1..Len(queue)) /\ S \in SUBSET (1..Len(queue))
  BY FS_Interval
<1>3. Cardinality(S) \in Nat
  BY <1>2, FS_Subset, FS_CardinalityType
<1>4. [i \in 1..Cardinality(S) |-> conn[c].id] \in Seq(DeviceId)
  <2> HIDE DEF S
  <2> QED BY <1>1, <1>3, IsASeq
<1>5. <<>> \in Seq(DeviceId)
  OBVIOUS
<1> QED BY <1>4, <1>5 DEF Routed

-----------------------------------------------------------------------------
(* The effects of the frames keep the records well-formed.                 *)

\* An item put in a connection's send queue: the id appended is a device id.
LEMMA QueueType ==
  ASSUME NEW r \in ConnectState, NEW d \in DeviceId
  PROVE  /\ ToClient(r, d) \in ConnectState
         /\ ToServer(r, d) \in ConnectState
<1>1. Append(r.clientOut, d) \in Seq(DeviceId) /\ Append(r.serverOut, d) \in Seq(DeviceId)
  BY DEF ConnectState
<1> QED BY <1>1 DEF ToClient, ToServer, ConnectState

\* An item queued under the connection's own id.
LEMMA OwnQueueType ==
  ASSUME NEW r \in ConnectState
  PROVE  /\ ToClient(r, r.id) \in ConnectState
         /\ ToServer(r, r.id) \in ConnectState
         /\ ToServer(ToClient(r, r.id), r.id) \in ConnectState
<1>1. r.id \in DeviceId
  BY DEF ConnectState
<1>2. \A q \in ConnectState : ToClient(q, r.id) \in ConnectState /\ ToServer(q, r.id) \in ConnectState
  BY <1>1, QueueType
<1> QED BY <1>2

\* Retiring connections changes flags only.
LEMMA RemoveType ==
  ASSUME NEW cs \in [Conn -> ConnectState], NEW d \in DeviceId
  PROVE  XGRemoveConnectByDeviceID(cs, d) \in [Conn -> ConnectState]
BY DEF XGRemoveConnectByDeviceID, ConnectState

\* A login frame, accepted or refused, leaves every Connect well-formed.
LEMMA LoginType ==
  ASSUME NEW cs \in [Conn -> ConnectState], NEW c \in Conn, NEW d \in DeviceId,
         NEW known \in BOOLEAN
  PROVE  Login(cs, c, d, known) \in [Conn -> ConnectState]
<1> DEFINE others == XGRemoveConnectByDeviceID(cs, d)
           plain == [others[c] EXCEPT !.id = d]
           named == ToClient(plain, d)
           logged == [named EXCEPT !.islogined = TRUE, !.client = "E_CLI_LOGINED",
                                   !.server = "E_SER_WAIT_CONECT"]
<1>1. others \in [Conn -> ConnectState]
  BY RemoveType
<1>2. named \in ConnectState
  <2>1. plain \in ConnectState
    <3> HIDE DEF others
    <3> QED BY <1>1 DEF ConnectState
  <2> HIDE DEF plain
  <2> QED BY <2>1, QueueType
<1>3. logged \in ConnectState
  <2> HIDE DEF named
  <2> QED BY <1>2 DEF ConnectState, ClientStatus, ServerStatus
<1>4. Login(cs, c, d, known) = [others EXCEPT ![c] = IF known THEN logged ELSE named]
  BY DEF Login
<1> QED
  <2> HIDE DEF others, named, logged
  <2> QED BY <1>1, <1>2, <1>3, <1>4

\* So does every frame a client can send, one case per packet type.
LEMMA ClientFrameType ==
  ASSUME NEW cs \in [Conn -> ConnectState], NEW c \in Conn, NEW f \in ClientFrames,
         peer[c] \in DeviceId
  PROVE  ClientFrameEffect(cs, c, f) \in [Conn -> ConnectState]
<1>1. CASE f = "CONNECT"
  BY <1>1, LoginType DEF ClientFrameEffect
<1>2. CASE f = "CONNECT_SHORT"
  <2>1. [cs[c] EXCEPT !.active = FALSE] \in ConnectState
    BY DEF ConnectState
  <2> QED BY <1>2, <2>1 DEF ClientFrameEffect
<1>3. CASE f = "PING"
  <2>1. ToServer(ToClient(cs[c], cs[c].id), cs[c].id) \in ConnectState
    BY OwnQueueType
  <2> QED BY <1>3, <2>1 DEF ClientFrameEffect
<1>4. CASE f = "OTHER"
  <2>1. ToServer(cs[c], cs[c].id) \in ConnectState
    BY OwnQueueType
  <2> QED BY <1>4, <2>1 DEF ClientFrameEffect
<1>5. CASE f \in {"PIPE", "IGNORED"}
  BY <1>5 DEF ClientFrameEffect
<1> QED BY <1>1, <1>2, <1>3, <1>4, <1>5, ConstantsAssumption

\* So does every frame the cloud can send, one case per packet type.
LEMMA ServerFrameType ==
  ASSUME NEW cs \in [Conn -> ConnectState], NEW c \in Conn, NEW f \in ServerFrames
  PROVE  ServerFrameEffect(cs, c, f) \in [Conn -> ConnectState]
<1>1. CASE f = "CONNECT"
  <2>1. ToClient(cs[c], cs[c].id) \in ConnectState
    BY OwnQueueType
  <2>2. [ToClient(cs[c], cs[c].id) EXCEPT !.server = "E_SER_LOGINED"] \in ConnectState
    <3> DEFINE r == ToClient(cs[c], cs[c].id)
    <3> SUFFICES [r EXCEPT !.server = "E_SER_LOGINED"] \in ConnectState
      OBVIOUS
    <3>1. r \in ConnectState
      BY <2>1
    <3> HIDE DEF r
    <3> QED BY <3>1 DEF ConnectState, ServerStatus
  <2> QED BY <1>1, <2>2 DEF ServerFrameEffect
<1>2. CASE f = "OTHER"
  <2>1. ToClient(cs[c], cs[c].id) \in ConnectState
    BY OwnQueueType
  <2> QED BY <1>2, <2>1 DEF ServerFrameEffect
<1>3. CASE f \in {"PIPE", "IGNORED"}
  BY <1>3 DEF ServerFrameEffect
<1> QED BY <1>1, <1>2, <1>3, ConstantsAssumption

-----------------------------------------------------------------------------
(* The steps of the core thread.                                           *)

\* Unlinking a connection leaves a list of connections.
LEMMA RemoveNotActiveType ==
  ASSUME TypeOK, XGRemoveNotActive
  PROVE  TypeOK'
<1> DEFINE c == list[cur]
<1>0. c \in Conn /\ conn[c] \in ConnectState
  BY DEF TypeOK, XGRemoveNotActive
<1>1. CASE conn[c].active
  BY <1>1 DEF TypeOK, XGRemoveNotActive, taskVars, dataVars, dbVars
<1>2. CASE ~conn[c].active
  <2>1. list' \in Seq(Conn)
    <3>1. SubSeq(list, 1, cur - 1) \in Seq(Conn) /\ SubSeq(list, cur + 1, Len(list)) \in Seq(Conn)
      BY DEF TypeOK, XGRemoveNotActive
    <3>2. list' = SubSeq(list, 1, cur - 1) \o SubSeq(list, cur + 1, Len(list))
      BY <1>2 DEF XGRemoveNotActive
    <3> QED BY <3>1, <3>2
  <2>2. conn' \in [Conn -> ConnectState]
    BY <1>2, ZeroedType DEF TypeOK, XGRemoveNotActive
  <2>3. db' \in [Device -> {"absent", "0", "1"}] /\ fresh' \subseteq Device
    BY <1>2 DEF TypeOK, XGRemoveNotActive
  <2>4. openFds' \subseteq Fd /\ cur' = cur
    BY <1>2 DEF TypeOK, XGRemoveNotActive
  <2> QED BY <2>1, <2>2, <2>3, <2>4 DEF TypeOK, XGRemoveNotActive, taskVars, dataVars
<1> QED BY <1>1, <1>2

\* A parser that takes a frame out of a recvBuffer hands on well-formed records.
LEMMA ParserType ==
  ASSUME NEW cs \in [Conn -> ConnectState], NEW c \in Conn
  PROVE  /\ cs[c].clientRx # <<>> => /\ NextFrame(cs[c].clientRx) \in ClientFrames
                                     /\ [cs EXCEPT ![c].clientRx = Tail(@)] \in [Conn -> ConnectState]
         /\ cs[c].serverRx # <<>> => /\ NextFrame(cs[c].serverRx) \in ServerFrames
                                     /\ [cs EXCEPT ![c].serverRx = Tail(@)] \in [Conn -> ConnectState]
<1>1. ASSUME cs[c].clientRx # <<>>
      PROVE  /\ NextFrame(cs[c].clientRx) \in ClientFrames
             /\ [cs EXCEPT ![c].clientRx = Tail(@)] \in [Conn -> ConnectState]
  <2>1. Head(cs[c].clientRx) \in ClientFrames /\ Tail(cs[c].clientRx) \in Seq(ClientFrames)
    BY <1>1 DEF ConnectState
  <2>2. [cs[c] EXCEPT !.clientRx = Tail(@)] \in ConnectState
    BY <2>1 DEF ConnectState
  <2> QED BY <1>1, <2>1, <2>2 DEF NextFrame
<1>2. ASSUME cs[c].serverRx # <<>>
      PROVE  /\ NextFrame(cs[c].serverRx) \in ServerFrames
             /\ [cs EXCEPT ![c].serverRx = Tail(@)] \in [Conn -> ConnectState]
  <2>1. Head(cs[c].serverRx) \in ServerFrames /\ Tail(cs[c].serverRx) \in Seq(ServerFrames)
    BY <1>2 DEF ConnectState
  <2>2. [cs[c] EXCEPT !.serverRx = Tail(@)] \in ConnectState
    BY <2>1 DEF ConnectState
  <2> QED BY <1>2, <2>1, <2>2 DEF NextFrame
<1> QED BY <1>1, <1>2

\* Parsing a client frame, or a server frame, keeps the records well-formed.
LEMMA ProtocolRecords ==
  ASSUME NEW cs \in [Conn -> ConnectState], NEW c \in Conn, peer[c] \in DeviceId
  PROVE  /\ XGProtocolClient(cs, c) \in [Conn -> ConnectState]
         /\ XGProtocolServer(cs, c) \in [Conn -> ConnectState]
<1>1. XGProtocolClient(cs, c) \in [Conn -> ConnectState]
  <2> DEFINE cs0 == [cs EXCEPT ![c].clientRx = Tail(@)]
             f == NextFrame(cs[c].clientRx)
  <2>1. cs[c].clientRx # <<>> => f \in ClientFrames /\ cs0 \in [Conn -> ConnectState]
    BY ParserType
  <2>2. XGProtocolClient(cs, c) = IF cs[c].clientRx = <<>> THEN cs ELSE ClientFrameEffect(cs0, c, f)
    BY DEF XGProtocolClient
  <2> HIDE DEF cs0, f
  <2> QED BY <2>1, <2>2, ClientFrameType
<1>2. XGProtocolServer(cs, c) \in [Conn -> ConnectState]
  <2> DEFINE cs0 == [cs EXCEPT ![c].serverRx = Tail(@)]
             f == NextFrame(cs[c].serverRx)
  <2>1. cs[c].serverRx # <<>> => f \in ServerFrames /\ cs0 \in [Conn -> ConnectState]
    BY ParserType
  <2>2. XGProtocolServer(cs, c) = IF cs[c].serverRx = <<>> THEN cs ELSE ServerFrameEffect(cs0, c, f)
    BY DEF XGProtocolServer
  <2> HIDE DEF cs0, f
  <2> QED BY <2>1, <2>2, ServerFrameType
<1> QED BY <1>1, <1>2

\* A whole protocol pass, over either recvBuffer, preserves TypeOK.
LEMMA ProtocolType ==
  ASSUME TypeOK, XGProtocol
  PROVE  TypeOK'
<1> DEFINE c == list[cur]
           cs == XGProtocolClient(conn, c)
           cf == NextFrame(conn[c].clientRx)
           sf == NextFrame(conn[c].serverRx)
           login == cf = "CONNECT" /\ db[peer[c]] # "absent"
<1>0. c \in Conn /\ conn \in [Conn -> ConnectState] /\ peer[c] \in DeviceId
  <2>0. cur <= Len(list)
    BY Zenon DEF XGProtocol
  <2>1. c \in Conn
    BY <2>0 DEF TypeOK
  <2> HIDE DEF c
  <2> QED BY <2>1 DEF TypeOK
<1>1. /\ conn' = XGProtocolServer(cs, c)
      /\ db' = (IF login THEN [db EXCEPT ![peer[c]] = "1"] ELSE db)
      /\ fresh' = (IF login THEN fresh \ {peer[c]} ELSE fresh)
      /\ cloudQ' = (IF cf = "PIPE" THEN Append(cloudQ, conn[c].id) ELSE cloudQ)
      /\ clientQ' = (IF sf = "PIPE" THEN Append(clientQ, cs[c].id) ELSE clientQ)
  BY DEF XGProtocol
<1> HIDE DEF c
<1>2. cs \in [Conn -> ConnectState]
  BY <1>0, ProtocolRecords
<1> HIDE DEF cs
<1>3. conn' \in [Conn -> ConnectState]
  BY <1>0, <1>1, <1>2, ProtocolRecords
<1> HIDE DEF cf, sf
<1>4. cloudQ' \in Seq(DeviceId) /\ clientQ' \in Seq(DeviceId)
  <2>1. conn[c].id \in DeviceId /\ cs[c].id \in DeviceId
    BY <1>0, <1>2 DEF ConnectState
  <2> QED BY <1>1, <2>1 DEF TypeOK
<1>5. db' \in [Device -> {"absent", "0", "1"}] /\ fresh' \subseteq Device
  BY <1>1 DEF TypeOK
<1>6. cur' = cur + 1 /\ UNCHANGED <<list, peer, pc, polled, head, batch, taskVars, openFds>>
  BY Zenon DEF XGProtocol
<1> QED BY <1>3, <1>4, <1>5, <1>6 DEF TypeOK, taskVars

\* Routing appends ids to the queues of the records.
LEMMA SendQueueType ==
  ASSUME TypeOK, XGPSendQueeu
  PROVE  TypeOK'
<1> DEFINE R(c) == Routed(clientQ, c, conn[c].client = "E_CLI_LOGINED")
           T(c) == Routed(cloudQ, c, conn[c].server = "E_SER_LOGINED")
           rec(c) == [conn[c] EXCEPT !.clientOut = @ \o R(c), !.serverOut = @ \o T(c)]
<1>1. ASSUME NEW c \in Conn PROVE rec(c) \in ConnectState
  <2>1. conn[c] \in ConnectState
    BY DEF TypeOK
  <2>2. R(c) \in Seq(DeviceId) /\ T(c) \in Seq(DeviceId)
    BY RoutedType DEF TypeOK
  <2> HIDE DEF R, T
  <2>3. conn[c].clientOut \o R(c) \in Seq(DeviceId) /\ conn[c].serverOut \o T(c) \in Seq(DeviceId)
    BY <2>1, <2>2 DEF ConnectState
  <2> QED BY <2>1, <2>3 DEF ConnectState
<1>2. \/ conn' = [c \in Conn |-> rec(c)] /\ clientQ' = <<>> /\ cloudQ' = <<>>
      \/ UNCHANGED <<conn, dataVars>>
  BY DEF XGPSendQueeu
<1>3. conn' \in [Conn -> ConnectState]
  <2> HIDE DEF rec
  <2> QED BY <1>1, <1>2 DEF TypeOK
<1>4. clientQ' \in Seq(DeviceId) /\ cloudQ' \in Seq(DeviceId)
  BY <1>2, EmptyType DEF TypeOK, dataVars
<1>5. /\ pc' = "Task" /\ cur' = 1
      /\ UNCHANGED <<list, peer, polled, head, batch, taskVars, openFds, dbVars>>
  BY DEF XGPSendQueeu
<1> QED BY <1>3, <1>4, <1>5 DEF TypeOK, Stages, taskVars, dbVars

\* Starting connect tasks.
LEMMA ConnectTaskType ==
  ASSUME TypeOK, XGConnectTask \/ AddTasks
  PROVE  TypeOK'
<1>1. CASE XGConnectTask
  <2> DEFINE c == list[cur]
  <2>1. c \in Conn /\ conn[c] \in ConnectState
    BY <1>1 DEF TypeOK, XGConnectTask
  <2>2. [conn[c] EXCEPT !.server = "E_SER_CONNECTING", !.serverOut = <<>>] \in ConnectState
    BY <2>1, EmptyType DEF ConnectState, ServerStatus
  <2>3. conn[c].id \in DeviceId
    BY <2>1 DEF ConnectState
  <2>4. conn' \in [Conn -> ConnectState] /\ head' \in Seq(DeviceId)
    <3>1. CASE UNCHANGED <<conn, head>>
      BY <3>1 DEF TypeOK
    <3>2. CASE /\ conn' = [conn EXCEPT ![c].server = "E_SER_CONNECTING", ![c].serverOut = <<>>]
               /\ head' = Append(head, conn[c].id)
      <4> HIDE DEF c
      <4> QED BY <2>1, <2>2, <2>3, <3>2 DEF TypeOK
    <3> QED BY <1>1, <3>1, <3>2 DEF XGConnectTask
  <2> QED BY <1>1, <2>4 DEF TypeOK, XGConnectTask, taskVars, dataVars, dbVars
<1>2. CASE AddTasks
  BY <1>2 DEF TypeOK, AddTasks, Stages, dataVars, dbVars
<1> QED BY <1>1, <1>2

\* Taking and applying the results of the connect tasks.
LEMMA ResultType ==
  ASSUME TypeOK, TakeResults \/ \E sent \in BOOLEAN : ApplyResult(sent)
  PROVE  TypeOK'
<1>1. CASE TakeResults
  <2>1. batch' \in Seq(ConnectTask) /\ results' \in Seq(ConnectTask)
    BY <1>1, EmptyType DEF TypeOK, TakeResults
  <2>2. pc' \in Stages /\ cur' \in Nat \ {0}
    BY <1>1 DEF TypeOK, TakeResults, Stages
  <2> QED BY <1>1, <2>1, <2>2 DEF TypeOK, TakeResults, dataVars, dbVars
<1>2. ASSUME NEW sent \in BOOLEAN, ApplyResult(sent)
      PROVE  TypeOK'
  <2> DEFINE t == Head(batch)
             c == XGGetConnectByDeviceid(t.id)
             use == Found(t.id) /\ t.fd > 0 /\ sent
  <2>1. t \in ConnectTask /\ Tail(batch) \in Seq(ConnectTask)
    BY <1>2 DEF TypeOK, ApplyResult
  <2>2. t.id \in DeviceId /\ t.fd \in Fd
    BY <2>1 DEF ConnectTask
  <2>3. conn' = IF ~Found(t.id) THEN conn
                ELSE IF use THEN [conn EXCEPT ![c].server = "E_SER_WAIT_LOGIN_RESULT",
                                              ![c].serverSock = t.fd]
                ELSE [conn EXCEPT ![c].server = "E_SER_WAIT_CONECT"]
    BY <1>2 DEF ApplyResult
  <2>4. conn' \in [Conn -> ConnectState]
    <3> HIDE DEF t, c, use
    <3>1. ASSUME NEW e \in Conn
          PROVE  /\ [conn[e] EXCEPT !.server = "E_SER_WAIT_LOGIN_RESULT", !.serverSock = t.fd] \in ConnectState
                 /\ [conn[e] EXCEPT !.server = "E_SER_WAIT_CONECT"] \in ConnectState
      <4>1. conn[e] \in ConnectState
        BY DEF TypeOK
      <4> QED BY <4>1, <2>2 DEF ConnectState, ServerStatus
    <3> QED BY <2>3, <3>1 DEF TypeOK
  <2>5. openFds' \subseteq Fd /\ batch' \in Seq(ConnectTask)
    BY <1>2, <2>1 DEF TypeOK, ApplyResult
  <2>6. pc' \in Stages /\ cur' \in Nat \ {0}
    BY <1>2 DEF TypeOK, ApplyResult, Stages
  <2>7. UNCHANGED <<list, peer, polled, head, taskVars, dataVars, dbVars>>
    BY <1>2 DEF ApplyResult
  <2> QED BY <2>4, <2>5, <2>6, <2>7 DEF TypeOK, taskVars, dataVars, dbVars
<1> QED BY <1>1, <1>2

\* Timeouts and the building of the fd_sets.
LEMMA TimeoutType ==
  ASSUME TypeOK, XGTimeout \/ FdSet
  PROVE  TypeOK'
<1>0. 0 \in Fd
  BY ConstantsAssumption DEF Fd
<1>1. CASE XGTimeout
  <2>1. PICK S \in SUBSET Listed, T \in SUBSET Listed :
          LET dropped == {c \in S : conn[c].server = "E_SER_WAIT_LOGIN_RESULT"
                                    /\ conn[c].serverSock > 0}
          IN /\ openFds' = openFds \ {conn[c].serverSock : c \in dropped}
             /\ conn' = [c \in Conn |->
                  [conn[c] EXCEPT !.active = @ /\ c \notin T,
                                  !.server = IF c \in dropped THEN "E_SER_WAIT_CONECT" ELSE @,
                                  !.serverSock = IF c \in dropped THEN 0 ELSE @]]
    BY ZenonT(60), <1>1 DEF XGTimeout
  <2> DEFINE dropped == {c \in S : conn[c].server = "E_SER_WAIT_LOGIN_RESULT"
                                   /\ conn[c].serverSock > 0}
             rec(c) == [conn[c] EXCEPT !.active = @ /\ c \notin T,
                                  !.server = IF c \in dropped THEN "E_SER_WAIT_CONECT" ELSE @,
                                  !.serverSock = IF c \in dropped THEN 0 ELSE @]
  <2>2. conn' = [c \in Conn |-> rec(c)] /\ openFds' = openFds \ {conn[c].serverSock : c \in dropped}
    BY <2>1
  <2>3. ASSUME NEW c \in Conn PROVE rec(c) \in ConnectState
    <3> HIDE DEF dropped
    <3>1. conn[c] \in ConnectState
      BY DEF TypeOK
    <3> QED BY <1>0, <3>1 DEF ConnectState, ServerStatus
  <2>4. conn' \in [Conn -> ConnectState]
    <3> HIDE DEF rec, dropped
    <3> QED BY <2>2, <2>3
  <2>5. openFds' \subseteq Fd
    <3> HIDE DEF rec, dropped
    <3> QED BY <2>2 DEF TypeOK
  <2>6. /\ pc' = "FdSet" /\ cur' = 1
        /\ UNCHANGED <<list, peer, polled, head, batch, taskVars, dataVars, dbVars>>
    BY <1>1 DEF XGTimeout
  <2> QED BY <2>4, <2>5, <2>6 DEF TypeOK, Stages, taskVars, dataVars, dbVars
<1>2. CASE FdSet
  <2> DEFINE ok == {c \in Listed : conn[c].active /\ conn[c].clientSock > 0}
             rec(c) == [conn[c] EXCEPT !.active = c \in ok]
  <2>1. ASSUME NEW c \in Conn PROVE rec(c) \in ConnectState
    <3> DEFINE b == c \in ok
    <3>1. conn[c] \in ConnectState /\ b \in BOOLEAN
      BY DEF TypeOK
    <3> HIDE DEF b
    <3>2. [conn[c] EXCEPT !.active = b] \in ConnectState
      BY <3>1 DEF ConnectState
    <3> QED BY <3>2 DEF b
  <2>2. conn' = [c \in Conn |-> rec(c)] /\ polled' = ok
    BY <1>2 DEF FdSet
  <2>3. ok \subseteq Conn
    BY DEF Listed, TypeOK
  <2>4. conn' \in [Conn -> ConnectState] /\ polled' \subseteq Conn
    <3> HIDE DEF rec, ok
    <3> QED BY <2>1, <2>2, <2>3
  <2>5. /\ pc' = "Accept" /\ cur' = 1
        /\ UNCHANGED <<list, peer, head, batch, taskVars, dataVars, openFds, dbVars>>
    BY <1>2 DEF FdSet
  <2> QED BY <2>4, <2>5 DEF TypeOK, Stages, taskVars, dataVars, dbVars
<1> QED BY <1>1, <1>2

\* A new connection at the head of the list; a datagram; data sent.
LEMMA AcceptType ==
  ASSUME TypeOK, XGAcceptConnect
  PROVE  TypeOK'
<1>1. /\ pc' = "Udp" /\ cur' = 1
      /\ UNCHANGED <<polled, head, batch, taskVars, dataVars, dbVars>>
  BY DEF XGAcceptConnect
<1>2. CASE UNCHANGED <<list, conn, peer, openFds>>
  BY <1>1, <1>2 DEF TypeOK, Stages, taskVars, dataVars, dbVars
<1>3. CASE NewFd = 0 /\ openFds' = openFds \cup {0} /\ UNCHANGED <<list, conn, peer>>
  <2>1. openFds' \subseteq Fd
    BY <1>3, ConstantsAssumption DEF TypeOK, Fd
  <2> QED BY <1>1, <1>3, <2>1 DEF TypeOK, Stages, taskVars, dataVars, dbVars
<1>4. ASSUME NewFd > 0, openFds' = openFds \cup {NewFd}, NEW c \in Conn \ Listed, NEW d \in Device,
             list' = <<c>> \o list,
             conn' = [conn EXCEPT ![c] = [Zeroed EXCEPT !.active = TRUE, !.clientSock = NewFd]],
             peer' = [peer EXCEPT ![c] = d]
      PROVE  TypeOK'
  <2>1. NewFd \in Fd
    BY <1>4, NewFdType DEF TypeOK
  <2>2. [Zeroed EXCEPT !.active = TRUE, !.clientSock = NewFd] \in ConnectState
    BY <2>1, ZeroedType DEF ConnectState
  <2>3. conn' \in [Conn -> ConnectState]
    <3> DEFINE r == [Zeroed EXCEPT !.active = TRUE, !.clientSock = NewFd]
    <3>1. r \in ConnectState /\ conn' = [conn EXCEPT ![c] = r]
      BY <1>4, <2>2
    <3> HIDE DEF r
    <3> QED BY <3>1 DEF TypeOK
  <2>4. peer' \in [Conn -> DeviceId] /\ list' \in Seq(Conn) /\ openFds' \subseteq Fd
    BY <1>4, <2>1 DEF TypeOK, DeviceId
  <2> QED BY <1>1, <2>3, <2>4 DEF TypeOK, Stages, taskVars, dataVars, dbVars
<1> QED BY <1>2, <1>3, <1>4 DEF XGAcceptConnect

LEMMA SendType ==
  ASSUME TypeOK, XGConnectSend
  PROVE  TypeOK'
<1>1. PICK S \in SUBSET {c \in Conn : CanSendClient(c)}, T \in SUBSET {c \in Conn : CanSendServer(c)} :
        conn' = [c \in Conn |->
                  [conn[c] EXCEPT !.clientOut = IF c \in S THEN Tail(@) ELSE @,
                                  !.serverOut = IF c \in T THEN Tail(@) ELSE @]]
  BY DEF XGConnectSend
<1> DEFINE rec(c) == [conn[c] EXCEPT !.clientOut = IF c \in S THEN Tail(@) ELSE @,
                                     !.serverOut = IF c \in T THEN Tail(@) ELSE @]
<1>2. ASSUME NEW c \in Conn PROVE rec(c) \in ConnectState
  <2>1. conn[c] \in ConnectState
    BY DEF TypeOK
  <2>2. /\ c \in S => Tail(conn[c].clientOut) \in Seq(DeviceId)
        /\ c \in T => Tail(conn[c].serverOut) \in Seq(DeviceId)
    BY <2>1 DEF CanSendClient, CanSendServer, ConnectState
  <2> QED BY <2>1, <2>2 DEF ConnectState
<1>3. conn' \in [Conn -> ConnectState]
  <2>1. conn' = [c \in Conn |-> rec(c)]
    BY <1>1, Zenon
  <2> HIDE DEF rec
  <2> QED BY <1>2, <2>1
<1>4. /\ pc' = "Recv" /\ cur' = 1
      /\ UNCHANGED <<list, peer, polled, head, batch, taskVars, dataVars, openFds, dbVars>>
  BY DEF XGConnectSend
<1> QED BY <1>3, <1>4 DEF TypeOK, Stages, taskVars, dataVars, dbVars

\* What either recv() leaves behind is a Connect record.
LEMMA RecvOutcomes ==
  ASSUME NEW r \in ConnectState, NEW room \in BOOLEAN
  PROVE  /\ \A x \in XGRecvConnectClient(r, room) : x.r \in ConnectState
         /\ \A x \in XGRecvConnectServer(r, room) : x.r \in ConnectState
<1>1. 0 \in Fd
  BY ConstantsAssumption DEF Fd
<1>2. [r EXCEPT !.active = FALSE, !.clientSock = 0] \in ConnectState
  BY <1>1 DEF ConnectState
<1>3. [r EXCEPT !.server = "E_SER_WAIT_CONECT", !.serverSock = 0] \in ConnectState
  BY <1>1 DEF ConnectState, ServerStatus
<1>4. \A f \in ClientFrames : [r EXCEPT !.clientRx = Append(@, f)] \in ConnectState
  <2> SUFFICES ASSUME NEW f \in ClientFrames PROVE [r EXCEPT !.clientRx = Append(@, f)] \in ConnectState
    OBVIOUS
  <2>1. Append(r.clientRx, f) \in Seq(ClientFrames)
    BY DEF ConnectState
  <2> QED BY <2>1 DEF ConnectState
<1>5. \A f \in ServerFrames : [r EXCEPT !.serverRx = Append(@, f)] \in ConnectState
  <2> SUFFICES ASSUME NEW f \in ServerFrames PROVE [r EXCEPT !.serverRx = Append(@, f)] \in ConnectState
    OBVIOUS
  <2>1. Append(r.serverRx, f) \in Seq(ServerFrames)
    BY DEF ConnectState
  <2> QED BY <2>1 DEF ConnectState
<1>6. \A x \in XGRecvConnectClient(r, room) : x.r \in ConnectState
  BY <1>2, <1>4 DEF XGRecvConnectClient
<1>7. \A x \in XGRecvConnectServer(r, room) : x.r \in ConnectState
  BY <1>3, <1>5 DEF XGRecvConnectServer
<1> QED BY <1>6, <1>7

LEMMA RecvType ==
  ASSUME TypeOK, Recv
  PROVE  TypeOK'
<1> DEFINE c == list[cur]
           same(r) == {[r |-> r, closed |-> {}]}
           X == same(conn[c]) \cup
                (IF c \in polled THEN XGRecvConnectClient(conn[c], Room(c)) ELSE {})
           Y(x) == same(x.r) \cup
                (IF c \in polled /\ conn[c].serverSock > 0
                 THEN XGRecvConnectServer(x.r, Room(c)) ELSE {})
<1>0. cur <= Len(list)
  BY Zenon DEF Recv
<1>1. c \in Conn
  BY <1>0 DEF TypeOK
<1>2. conn[c] \in ConnectState /\ Room(c) \in BOOLEAN
  BY <1>1 DEF TypeOK, Room
<1>3. PICK x \in X : \E y \in Y(x) :
        conn' = [conn EXCEPT ![c] = y.r] /\ openFds' = openFds \ (x.closed \cup y.closed)
  BY DEF Recv
<1>4. PICK y \in Y(x) :
        conn' = [conn EXCEPT ![c] = y.r] /\ openFds' = openFds \ (x.closed \cup y.closed)
  BY <1>3
<1>5. x.r \in ConnectState
  <2> HIDE DEF c
  <2> QED BY <1>2, <1>3, RecvOutcomes
<1>6. y.r \in ConnectState
  <2> HIDE DEF c
  <2> QED BY <1>2, <1>4, <1>5, RecvOutcomes
<1>7. conn' \in [Conn -> ConnectState] /\ openFds' \subseteq Fd
  <2> HIDE DEF c
  <2> QED BY <1>1, <1>4, <1>6 DEF TypeOK
<1>8. cur' = cur + 1 /\ UNCHANGED <<list, peer, pc, polled, head, batch, taskVars, dataVars, dbVars>>
  BY Zenon DEF Recv
<1> QED BY <1>7, <1>8 DEF TypeOK, taskVars, dataVars, dbVars

\* The connect thread's steps.
LEMMA ConnectThreadType ==
  ASSUME TypeOK, ConnectThread
  PROVE  TypeOK'
<1>0. 0 \in Fd /\ Idle \in Worker
  BY ConstantsAssumption DEF Fd, Idle, Worker
<1>1. worker.id \in DeviceId /\ worker.fd \in Fd
  BY <1>0 DEF TypeOK, Worker, Idle, DeviceId
<1>2. ASSUME NEW fd \in Fd, PutResult(fd)
      PROVE  results' \in Seq(ConnectTask) /\ worker' \in Worker
  <2>1. [id |-> worker.id, fd |-> fd] \in ConnectTask
    BY <1>1 DEF ConnectTask
  <2> QED BY <1>0, <1>2, <2>1 DEF PutResult, TypeOK
<1>3. CASE TakeTask
  <2>1. worker' \in Worker /\ tasks' \in Seq(DeviceId)
    BY <1>0, <1>3 DEF TakeTask, TypeOK, Worker
  <2> QED BY <1>3, <2>1 DEF TakeTask, TypeOK, coreVars, dataVars, dbVars
<1>4. CASE CreateSocket
  <2>1. NewFd > 0 => NewFd \in Fd
    BY NewFdType DEF TypeOK
  <2>2. worker' \in Worker /\ results' \in Seq(ConnectTask) /\ openFds' \subseteq Fd
    <3>1. CASE PutResult(0) /\ UNCHANGED openFds
      BY <1>0, <1>2, <3>1 DEF TypeOK
    <3>2. CASE NewFd = 0 /\ openFds' = openFds \cup {0} /\ PutResult(0)
      BY <1>0, <1>2, <3>2 DEF TypeOK
    <3>3. CASE /\ NewFd > 0
               /\ openFds' = openFds \cup {NewFd}
               /\ worker' = [worker EXCEPT !.phase = "connect", !.fd = NewFd]
               /\ UNCHANGED results
      BY <1>1, <2>1, <3>3, <1>4 DEF TypeOK, Worker, Idle, CreateSocket
    <3> QED BY <1>4, <3>1, <3>2, <3>3 DEF CreateSocket
  <2> QED BY <1>4, <2>2 DEF CreateSocket, TypeOK, coreVars, dataVars, dbVars
<1>5. CASE FinishConnect
  <2>1. worker' \in Worker /\ results' \in Seq(ConnectTask) /\ openFds' \subseteq Fd
    BY <1>0, <1>1, <1>2, <1>5 DEF FinishConnect, TypeOK
  <2> QED BY <1>5, <2>1 DEF FinishConnect, TypeOK, coreVars, dataVars, dbVars
<1> QED BY <1>3, <1>4, <1>5 DEF ConnectThread

\* The type invariant is inductive.
LEMMA TypeStep ==
  ASSUME TypeOK, [Next]_vars
  PROVE  TypeOK'
<1>1. CASE XGRecvUdpData
  <2>1. db' \in [Device -> {"absent", "0", "1"}] /\ fresh' \subseteq Device
    BY <1>1, ConstantsAssumption DEF TypeOK, XGRecvUdpData, dbVars
  <2> QED BY <1>1, <2>1 DEF TypeOK, XGRecvUdpData, Stages, taskVars, dataVars
<1>2. CASE LoopEnd
  BY <1>2 DEF TypeOK, LoopEnd, Stages, taskVars, dataVars, dbVars
<1>3. CASE ApplicationThread /\ XGCoreSendData
  <2>1. clientQ' \in Seq(DeviceId) /\ cloudQ' \in Seq(DeviceId)
    <3>1. PICK d \in Device : \/ clientQ' = Append(clientQ, d) /\ UNCHANGED cloudQ
                              \/ cloudQ' = Append(cloudQ, d) /\ UNCHANGED clientQ
      BY <1>3 DEF XGCoreSendData, SendPipeClient, SendPipeCloud
    <3>2. d \in DeviceId
      BY DEF DeviceId
    <3>3. clientQ \in Seq(DeviceId) /\ cloudQ \in Seq(DeviceId)
      BY DEF TypeOK
    <3>4. Append(clientQ, d) \in Seq(DeviceId) /\ Append(cloudQ, d) \in Seq(DeviceId)
      BY <3>2, <3>3
    <3> QED BY <3>1, <3>3, <3>4
  <2> QED BY <1>3, <2>1 DEF TypeOK, ApplicationThread, XGCoreSendData, SendPipeClient, SendPipeCloud, coreVars, taskVars, dbVars
<1>4. CASE ApplicationThread /\ dbDeleteDevice
  BY <1>4, ConstantsAssumption DEF TypeOK, ApplicationThread, dbDeleteDevice, coreVars, taskVars, dataVars
<1>5. CASE Restart
  <2>1. db' \in [Device -> {"absent", "0", "1"}] /\ openFds' \subseteq Fd
    BY <1>5, ConstantsAssumption DEF TypeOK, Restart, dbCreateDeviceTable, Fd
  <2>2. conn' \in [Conn -> ConnectState] /\ peer' \in [Conn -> DeviceId]
    BY <1>5, ZeroedType DEF Restart, DeviceId
  <2>3. list' \in Seq(Conn) /\ worker' \in Worker /\ pc' \in Stages
    BY <1>5 DEF Restart, Worker, Stages
  <2> QED BY <1>5, <2>1, <2>2, <2>3, EmptyType DEF TypeOK, Restart
<1>6. CASE UNCHANGED vars
  BY <1>6 DEF TypeOK, vars, coreVars, taskVars, dataVars, dbVars
<1> QED
  BY <1>1, <1>2, <1>3, <1>4, <1>5, <1>6, RemoveNotActiveType, ProtocolType, SendQueueType,
     ConnectTaskType, ResultType, TimeoutType, AcceptType, SendType, RecvType, ConnectThreadType
  DEF Next, CoreThread, ApplicationThread

LEMMA TypeInit == Init => TypeOK
BY EmptyType, ZeroedType, ConstantsAssumption DEF Init, TypeOK, Stages, Fd, DeviceId, Worker

\* The records, queues, descriptors and table rows keep their types in every reachable
\* state, whatever the interleaving of core thread, connect thread and application.
THEOREM TypeCorrect == Spec => []TypeOK
BY TypeInit, TypeStep, PTL DEF Spec

-----------------------------------------------------------------------------
(* One live connection per device.                                         *)

\* A live connection is in the list, where XGRemoveConnectByDeviceID looks for it.
ActiveListed == \A c \in Conn : conn[c].active => c \in Listed

LiveInv == ActiveListed /\ OneActivePerDevice

\* From records a to records b nothing comes to life, and no id or login changes.
Keeps(a, b) ==
  \A e \in Conn : /\ b[e].id = a[e].id /\ b[e].islogined = a[e].islogined
                  /\ b[e].active => a[e].active

LEMMA KeepsLive ==
  ASSUME LiveInv, list' = list, Keeps(conn, conn')
  PROVE  LiveInv'
<1>1. ActiveListed'
  BY DEF LiveInv, ActiveListed, Keeps, Listed
<1>2. OneActivePerDevice'
  BY DEF LiveInv, OneActivePerDevice, Keeps
<1> QED BY <1>1, <1>2 DEF LiveInv

\* Changing the cloud side of a record keeps its id and its flag.
LEMMA SameRecord ==
  ASSUME TypeOK, NEW c, NEW x, NEW y
  PROVE  /\ Keeps(conn, conn)
         /\ Keeps(conn, [conn EXCEPT ![c].server = x])
         /\ Keeps(conn, [conn EXCEPT ![c].server = x, ![c].serverSock = y])
         /\ Keeps(conn, [conn EXCEPT ![c].server = x, ![c].serverOut = y])
<1>1. \A e \in Conn : conn[e] \in ConnectState
  BY DEF TypeOK
<1>2. ASSUME NEW e \in Conn, NEW r,
             \/ r = [conn[e] EXCEPT !.server = x]
             \/ r = [conn[e] EXCEPT !.server = x, !.serverSock = y]
             \/ r = [conn[e] EXCEPT !.server = x, !.serverOut = y]
      PROVE  r.id = conn[e].id /\ r.active = conn[e].active /\ r.islogined = conn[e].islogined
  BY <1>1, <1>2 DEF ConnectState
<1>3. Keeps(conn, conn)
  BY DEF Keeps
<1>4. Keeps(conn, [conn EXCEPT ![c].server = x])
  BY <1>2 DEF Keeps, TypeOK
<1>5. Keeps(conn, [conn EXCEPT ![c].server = x, ![c].serverSock = y])
  BY <1>2 DEF Keeps, TypeOK
<1>6. Keeps(conn, [conn EXCEPT ![c].server = x, ![c].serverOut = y])
  BY <1>2 DEF Keeps, TypeOK
<1> QED BY <1>3, <1>4, <1>5, <1>6

\* A frame other than CONNECT neither names nor revives a connection.
LEMMA FrameKeeps ==
  ASSUME NEW cs \in [Conn -> ConnectState], NEW c \in Conn, NEW f
  PROVE  /\ f \in ClientFrames /\ f # "CONNECT" => Keeps(cs, ClientFrameEffect(cs, c, f))
         /\ f \in ServerFrames => Keeps(cs, ServerFrameEffect(cs, c, f))
<1>0. \A r \in ConnectState : \A d \in DeviceId :
         /\ ToClient(r, d).id = r.id /\ ToClient(r, d).active = r.active
         /\ ToClient(r, d).islogined = r.islogined
         /\ ToServer(r, d).id = r.id /\ ToServer(r, d).active = r.active
         /\ ToServer(r, d).islogined = r.islogined
  BY DEF ToClient, ToServer, ConnectState
<1>1. cs[c].id \in DeviceId /\ ToClient(cs[c], cs[c].id) \in ConnectState
  BY OwnQueueType DEF ConnectState
<1>2. ASSUME f \in ClientFrames, f # "CONNECT" PROVE Keeps(cs, ClientFrameEffect(cs, c, f))
  <2>1. CASE f = "CONNECT_SHORT"
    BY <2>1 DEF ClientFrameEffect, Keeps, ConnectState
  <2>2. CASE f = "PING"
    <3>1. ClientFrameEffect(cs, c, f) = [cs EXCEPT ![c] = ToServer(ToClient(cs[c], cs[c].id), cs[c].id)]
      BY <2>2 DEF ClientFrameEffect
    <3> QED BY <1>0, <1>1, <3>1 DEF Keeps
  <2>3. CASE f = "OTHER"
    <3>1. ClientFrameEffect(cs, c, f) = [cs EXCEPT ![c] = ToServer(cs[c], cs[c].id)]
      BY <2>3 DEF ClientFrameEffect
    <3> QED BY <1>0, <1>1, <3>1 DEF Keeps
  <2>4. CASE f \in {"PIPE", "IGNORED"}
    BY <2>4 DEF ClientFrameEffect, Keeps
  <2> QED BY <1>2, <2>1, <2>2, <2>3, <2>4, ConstantsAssumption
<1>3. ASSUME f \in ServerFrames PROVE Keeps(cs, ServerFrameEffect(cs, c, f))
  <2>1. CASE f = "CONNECT"
    <3> DEFINE r == ToClient(cs[c], cs[c].id)
    <3>1. ServerFrameEffect(cs, c, f) = [cs EXCEPT ![c] = [r EXCEPT !.server = "E_SER_LOGINED"]]
      BY <2>1 DEF ServerFrameEffect
    <3>2. /\ r \in ConnectState /\ r.id = cs[c].id /\ r.active = cs[c].active
          /\ r.islogined = cs[c].islogined
      BY <1>0, <1>1
    <3> HIDE DEF r
    <3> QED BY <3>1, <3>2 DEF Keeps, ConnectState
  <2>2. CASE f = "OTHER"
    <3>1. ServerFrameEffect(cs, c, f) = [cs EXCEPT ![c] = ToClient(cs[c], cs[c].id)]
      BY <2>2 DEF ServerFrameEffect
    <3> QED BY <1>0, <1>1, <3>1 DEF Keeps
  <2>3. CASE f \in {"PIPE", "IGNORED"}
    BY <2>3 DEF ServerFrameEffect, Keeps
  <2> QED BY <1>3, <2>1, <2>2, <2>3, ConstantsAssumption
<1> QED BY <1>2, <1>3

\* From records a to records b, connection c has logged in as device d, successfully if
\* the device is known, and every other listed connection with that id is retired.
LoggedInAs(a, b, c, d, known) ==
  /\ b[c].id = d
  /\ b[c].active => a[c].active
  /\ known => b[c].islogined
  /\ ~known /\ b[c].islogined => a[c].islogined /\ ~(c \in Listed /\ a[c].id = d)
  /\ \A e \in Conn \ {c} :
       /\ b[e].id = a[e].id
       /\ b[e].active => a[e].active /\ ~(e \in Listed /\ a[e].id = d)
       /\ b[e].islogined <=> a[e].islogined /\ ~(e \in Listed /\ a[e].id = d)

\* That is what a CONNECT frame does.
LEMMA LoginRetires ==
  ASSUME NEW cs \in [Conn -> ConnectState], NEW c \in Conn, NEW d \in DeviceId,
         NEW known \in BOOLEAN
  PROVE  LoggedInAs(cs, Login(cs, c, d, known), c, d, known)
<1> DEFINE others == XGRemoveConnectByDeviceID(cs, d)
           plain == [others[c] EXCEPT !.id = d]
           named == ToClient(plain, d)
           last == IF known THEN [named EXCEPT !.islogined = TRUE, !.client = "E_CLI_LOGINED",
                                               !.server = "E_SER_WAIT_CONECT"]
                   ELSE named
           ds == Login(cs, c, d, known)
<1>1. others \in [Conn -> ConnectState]
  BY RemoveType
<1>2. \A e \in Conn : /\ others[e].id = cs[e].id
                      /\ others[e].active => cs[e].active /\ ~(e \in Listed /\ cs[e].id = d)
                      /\ others[e].islogined <=> cs[e].islogined /\ ~(e \in Listed /\ cs[e].id = d)
  BY DEF XGRemoveConnectByDeviceID, ConnectState
<1>3. ds = [others EXCEPT ![c] = last]
  BY DEF Login
<1>4. /\ plain \in ConnectState /\ plain.id = d /\ plain.active = others[c].active
      /\ plain.islogined = others[c].islogined
  <2> HIDE DEF others
  <2> QED BY <1>1 DEF ConnectState
<1>5. /\ named \in ConnectState /\ named.id = d /\ named.active = others[c].active
      /\ named.islogined = others[c].islogined
  <2> HIDE DEF plain, others
  <2>1. named \in ConnectState
    BY <1>4, QueueType
  <2> QED BY <1>4, <2>1 DEF ToClient, ConnectState
<1>6. /\ last.id = d /\ last.active = others[c].active
      /\ last.islogined <=> known \/ others[c].islogined
  <2> HIDE DEF named, others
  <2> QED BY <1>5 DEF ConnectState
<1> HIDE DEF last, others, ds
<1>7. ds[c] = last /\ \A e \in Conn \ {c} : ds[e] = others[e]
  BY <1>1, <1>3
<1>8. LoggedInAs(cs, ds, c, d, known)
  BY <1>2, <1>6, <1>7 DEF LoggedInAs
<1> QED BY <1>8 DEF ds

\* A turn of the parsers: either c has logged in, as the device at its other end, or no
\* id, login or row of the table has changed.
LEMMA ProtocolEffect ==
  ASSUME TypeOK, XGProtocol
  PROVE  /\ list' = list /\ peer' = peer
         /\ \/ Keeps(conn, conn') /\ UNCHANGED dbVars
            \/ \E c \in Listed : LET known == db[peer[c]] # "absent" IN
                 /\ LoggedInAs(conn, conn', c, peer[c], known)
                 /\ db' = IF known THEN [db EXCEPT ![peer[c]] = "1"] ELSE db
                 /\ fresh' = IF known THEN fresh \ {peer[c]} ELSE fresh
<1> DEFINE c == list[cur]
           cs == XGProtocolClient(conn, c)
           cs0 == [conn EXCEPT ![c].clientRx = Tail(@)]
           f == NextFrame(conn[c].clientRx)
           known == db[peer[c]] # "absent"
<1>0. c \in Conn /\ c \in Listed /\ conn \in [Conn -> ConnectState] /\ peer[c] \in DeviceId
  <2>0. cur <= Len(list)
    BY Zenon DEF XGProtocol
  <2>1. c \in Conn /\ c \in Listed
    BY <2>0 DEF TypeOK, Listed
  <2> HIDE DEF c
  <2> QED BY <2>1 DEF TypeOK
<1>1. /\ conn' = XGProtocolServer(cs, c)
      /\ db' = (IF f = "CONNECT" /\ known THEN [db EXCEPT ![peer[c]] = "1"] ELSE db)
      /\ fresh' = (IF f = "CONNECT" /\ known THEN fresh \ {peer[c]} ELSE fresh)
      /\ list' = list /\ peer' = peer
  BY DEF XGProtocol
<1> HIDE DEF c
<1>2. cs \in [Conn -> ConnectState]
  BY <1>0, ProtocolRecords
<1>3. ASSUME conn[c].clientRx # <<>>
      PROVE  /\ f \in ClientFrames /\ cs0 \in [Conn -> ConnectState]
             /\ cs = ClientFrameEffect(cs0, c, f)
             /\ Keeps(conn, cs0) /\ Keeps(cs0, conn)
  <2>1. f \in ClientFrames /\ cs0 \in [Conn -> ConnectState]
    BY <1>0, <1>3, ParserType
  <2>2. cs = ClientFrameEffect(cs0, c, f)
    BY <1>3 DEF XGProtocolClient
  <2>3. Keeps(conn, cs0) /\ Keeps(cs0, conn)
    BY <1>0 DEF ConnectState, Keeps
  <2> QED BY <2>1, <2>2, <2>3
<1>4. Keeps(cs, conn')
  <2> DEFINE s0 == [cs EXCEPT ![c].serverRx = Tail(@)]
             g == NextFrame(cs[c].serverRx)
  <2>1. CASE cs[c].serverRx = <<>>
    BY <1>1, <2>1 DEF XGProtocolServer, Keeps
  <2>2. CASE cs[c].serverRx # <<>>
    <3> HIDE DEF cs
    <3>1. g \in ServerFrames /\ s0 \in [Conn -> ConnectState]
      BY <1>0, <1>2, <2>2, ParserType
    <3>2. conn' = ServerFrameEffect(s0, c, g)
      BY <1>1, <2>2 DEF XGProtocolServer
    <3>3. Keeps(cs, s0)
      BY <1>0, <1>2 DEF ConnectState, Keeps
    <3> HIDE DEF s0, g
    <3>4. Keeps(s0, conn')
      BY <1>0, <3>1, <3>2, FrameKeeps
    <3> QED BY <3>3, <3>4 DEF Keeps
  <2> QED BY <2>1, <2>2
<1>5. CASE conn[c].clientRx = <<>>
  <2>1. cs = conn /\ f = "none"
    BY <1>5 DEF XGProtocolClient, NextFrame
  <2> QED BY <1>1, <1>4, <2>1 DEF dbVars
<1>6. CASE conn[c].clientRx # <<>> /\ f # "CONNECT"
  <2> HIDE DEF cs, cs0, f
  <2>1. Keeps(cs0, cs)
    BY <1>0, <1>3, <1>6, FrameKeeps
  <2>2. Keeps(conn, conn')
    BY <1>3, <1>4, <1>6, <2>1 DEF Keeps
  <2> QED BY <1>1, <1>6, <2>2 DEF dbVars
<1>7. CASE conn[c].clientRx # <<>> /\ f = "CONNECT"
  <2> HIDE DEF cs0, f
  <2>1. cs = Login(cs0, c, peer[c], known)
    BY <1>3, <1>7 DEF ClientFrameEffect
  <2>2. LoggedInAs(cs0, cs, c, peer[c], known)
    BY <1>0, <1>3, <1>7, <2>1, LoginRetires
  <2> HIDE DEF known, cs
  <2>3. LoggedInAs(conn, conn', c, peer[c], known)
    BY <1>0, <1>3, <1>4, <1>7, <2>2 DEF Keeps, LoggedInAs
  <2> QED BY <1>0, <1>1, <1>7, <2>3 DEF known
<1> QED BY <1>5, <1>6, <1>7

\* A list without its k-th element, position by position.
LEMMA UnlinkAt ==
  ASSUME NEW S, NEW s \in Seq(S), NEW k \in 1..Len(s)
  PROVE  LET t == SubSeq(s, 1, k - 1) \o SubSeq(s, k + 1, Len(s))
         IN /\ Len(t) = Len(s) - 1
            /\ \A j \in 1..(Len(s) - 1) : t[j] = IF j < k THEN s[j] ELSE s[j + 1]
<1> DEFINE a == SubSeq(s, 1, k - 1)
           b == SubSeq(s, k + 1, Len(s))
           t == a \o b
<1>1. /\ a \in Seq(S) /\ Len(a) = k - 1 /\ \A j \in 1..(k - 1) : a[j] = s[j]
  <2>1. \A j \in 1..(k - 1) : s[j] \in S
    OBVIOUS
  <2>2. 1 \in Int /\ k - 1 \in Int
    OBVIOUS
  <2>3. /\ SubSeq(s, 1, k - 1) \in Seq(S)
        /\ Len(SubSeq(s, 1, k - 1)) = IF 1 <= k - 1 THEN (k - 1) - 1 + 1 ELSE 0
        /\ \A j \in 1..((k - 1) - 1 + 1) : SubSeq(s, 1, k - 1)[j] = s[1 + j - 1]
    BY <2>1, <2>2, SubSeqProperties
  <2> HIDE DEF a
  <2>4. a = SubSeq(s, 1, k - 1)
    BY DEF a
  <2> QED BY <2>3, <2>4
<1>2. /\ b \in Seq(S) /\ Len(b) = Len(s) - k /\ \A j \in 1..(Len(s) - k) : b[j] = s[k + j]
  <2>1. \A j \in (k + 1)..Len(s) : s[j] \in S
    OBVIOUS
  <2>2. k + 1 \in Int /\ Len(s) \in Int
    OBVIOUS
  <2>3. /\ SubSeq(s, k + 1, Len(s)) \in Seq(S)
        /\ Len(SubSeq(s, k + 1, Len(s))) = IF k + 1 <= Len(s) THEN Len(s) - (k + 1) + 1 ELSE 0
        /\ \A j \in 1..(Len(s) - (k + 1) + 1) : SubSeq(s, k + 1, Len(s))[j] = s[(k + 1) + j - 1]
    BY <2>1, <2>2, SubSeqProperties
  <2> HIDE DEF b
  <2>4. b = SubSeq(s, k + 1, Len(s))
    BY DEF b
  <2> QED BY <2>3, <2>4
<1> HIDE DEF a, b
<1>3. /\ Len(t) = Len(a) + Len(b)
      /\ \A j \in 1..(Len(a) + Len(b)) : t[j] = IF j <= Len(a) THEN a[j] ELSE b[j - Len(a)]
  BY <1>1, <1>2, ConcatProperties
<1> HIDE DEF t
<1>4. Len(s) \in Nat /\ Len(a) + Len(b) = Len(s) - 1
  BY <1>1, <1>2
<1>5. ASSUME NEW j \in 1..(Len(s) - 1)
      PROVE  t[j] = IF j < k THEN s[j] ELSE s[j + 1]
  <2>1. CASE j < k
    BY <1>1, <1>3, <1>4, <2>1
  <2>2. CASE ~(j < k)
    <3>1. j \in 1..(Len(a) + Len(b)) /\ ~(j <= Len(a)) /\ j - Len(a) = (j + 1) - k
      BY <1>1, <1>4, <2>2
    <3>2. t[j] = b[(j + 1) - k]
      BY <1>3, <3>1
    <3>3. (j + 1) - k \in 1..(Len(s) - k) /\ k + ((j + 1) - k) = j + 1
      BY <1>4, <2>2
    <3> QED BY <1>2, <2>2, <3>2, <3>3
  <2> QED BY <2>1, <2>2
<1> QED BY <1>3, <1>4, <1>5 DEF t, a, b

\* Unlinking the k-th element of a list keeps the others, and adds nothing.
LEMMA UnlinkKeeps ==
  ASSUME NEW S, NEW s \in Seq(S), NEW k \in 1..Len(s)
  PROVE  LET t == SubSeq(s, 1, k - 1) \o SubSeq(s, k + 1, Len(s))
         IN /\ \A i \in 1..Len(s) : i # k => \E j \in 1..Len(t) : t[j] = s[i]
            /\ \A j \in 1..Len(t) : \E i \in 1..Len(s) : t[j] = s[i]
<1> DEFINE t == SubSeq(s, 1, k - 1) \o SubSeq(s, k + 1, Len(s))
<1>1. /\ Len(t) = Len(s) - 1
      /\ \A j \in 1..(Len(s) - 1) : t[j] = IF j < k THEN s[j] ELSE s[j + 1]
  BY UnlinkAt
<1>2. Len(s) \in Nat
  OBVIOUS
<1> HIDE DEF t
<1>3. ASSUME NEW i \in 1..Len(s), i # k PROVE \E j \in 1..Len(t) : t[j] = s[i]
  <2>1. CASE i < k
    <3>1. i \in 1..Len(t) /\ t[i] = s[i]
      BY <1>1, <1>2, <2>1
    <3> QED BY <3>1
  <2>2. CASE i > k
    <3>1. i - 1 \in 1..Len(t) /\ t[i - 1] = s[i]
      <4>1. i - 1 \in 1..(Len(s) - 1) /\ ~(i - 1 < k) /\ (i - 1) + 1 = i
        BY <1>2, <2>2
      <4> QED BY <1>1, <4>1
    <3> QED BY <3>1
  <2> QED BY <1>3, <2>1, <2>2
<1>4. ASSUME NEW j \in 1..Len(t) PROVE \E i \in 1..Len(s) : t[j] = s[i]
  <2>1. j \in 1..(Len(s) - 1) /\ j \in 1..Len(s) /\ j + 1 \in 1..Len(s)
    BY <1>1, <1>2
  <2>2. t[j] = s[j] \/ t[j] = s[j + 1]
    BY <1>1, <2>1
  <2> QED BY <2>1, <2>2
<1> QED BY <1>3, <1>4 DEF t

\* XGRemoveNotActive unlinks and clears one inactive connection, and nothing else
\* about the connections changes; it may write the row of the one it cleared.
LEMMA RemoveEffect ==
  ASSUME TypeOK, XGRemoveNotActive
  PROVE  \/ list' = list /\ conn' = conn /\ peer' = peer /\ UNCHANGED dbVars
         \/ \E c \in Listed : LET logout == conn[c].islogined /\ conn[c].id # NoDevice IN
              /\ ~conn[c].active
              /\ Listed \ {c} \subseteq Listed' /\ Listed' \subseteq Listed /\ peer' = peer
              /\ conn' = [conn EXCEPT ![c] = Zeroed]
              /\ db' = IF logout /\ db[conn[c].id] # "absent"
                       THEN [db EXCEPT ![conn[c].id] = "0"] ELSE db
              /\ fresh' = IF logout THEN fresh \ {conn[c].id} ELSE fresh
<1> DEFINE c == list[cur]
           logout == conn[c].islogined /\ conn[c].id # NoDevice
<1>0. c \in Listed /\ cur \in 1..Len(list)
  BY DEF TypeOK, XGRemoveNotActive, Listed
<1>1. CASE conn[c].active
  BY <1>1 DEF XGRemoveNotActive, dbVars
<1>2. CASE ~conn[c].active
  <2>1. /\ list' = SubSeq(list, 1, cur - 1) \o SubSeq(list, cur + 1, Len(list))
        /\ conn' = [conn EXCEPT ![c] = Zeroed] /\ peer' = peer
        /\ db' = IF logout /\ db[conn[c].id] # "absent"
                 THEN [db EXCEPT ![conn[c].id] = "0"] ELSE db
        /\ fresh' = IF logout THEN fresh \ {conn[c].id} ELSE fresh
    BY <1>2 DEF XGRemoveNotActive
  <2>2. list \in Seq(Conn)
    BY DEF TypeOK
  <2>3. Listed \ {c} \subseteq Listed' /\ Listed' \subseteq Listed
    <3>1. /\ \A i \in 1..Len(list) : i # cur => \E j \in 1..Len(list') : list'[j] = list[i]
          /\ \A j \in 1..Len(list') : \E i \in 1..Len(list) : list'[j] = list[i]
      BY <1>0, <2>1, <2>2, UnlinkKeeps
    <3> QED BY <3>1, SMTT(30) DEF Listed
  <2> HIDE DEF c
  <2> QED BY <1>0, <1>2, <2>1, <2>3
<1> QED BY <1>1, <1>2

\* XGAcceptConnect lists one connection more, without a name.
LEMMA AcceptEffect ==
  ASSUME TypeOK, XGAcceptConnect
  PROVE  /\ UNCHANGED dbVars
         /\ \/ UNCHANGED <<list, conn, peer>>
            \/ \E c \in Conn \ Listed, d \in Device :
                 /\ Listed' = Listed \cup {c}
                 /\ conn' = [conn EXCEPT ![c] = [Zeroed EXCEPT !.active = TRUE, !.clientSock = NewFd]]
                 /\ peer' = [peer EXCEPT ![c] = d]
<1>1. ASSUME NEW c \in Conn \ Listed, list' = <<c>> \o list
      PROVE  Listed' = Listed \cup {c}
  <2>1. list \in Seq(Conn) /\ <<c>> \in Seq(Conn) /\ Len(<<c>>) = 1
    BY DEF TypeOK
  <2>2. /\ Len(list') = 1 + Len(list)
        /\ list'[1] = c
        /\ \A i \in 1..Len(list) : list'[i + 1] = list[i]
    BY <1>1, <2>1, ConcatProperties
  <2>3. Len(list) \in Nat
    BY <2>1
  <2>4. ASSUME NEW x \in Listed' PROVE x \in Listed \cup {c}
    <3>1. PICK j \in 1..Len(list') : x = list'[j]
      BY <2>4 DEF Listed
    <3>2. CASE j = 1
      BY <2>2, <3>1, <3>2
    <3>3. CASE j # 1
      <4>1. j - 1 \in 1..Len(list) /\ (j - 1) + 1 = j
        BY <2>2, <2>3, <3>1, <3>3
      <4>2. x = list[j - 1]
        BY <2>2, <3>1, <4>1
      <4> QED BY <4>1, <4>2 DEF Listed
    <3> QED BY <3>2, <3>3
  <2>5. ASSUME NEW i \in 1..Len(list) PROVE list[i] \in Listed'
    <3>1. i + 1 \in 1..Len(list') /\ list'[i + 1] = list[i]
      BY <2>2, <2>3
    <3> QED BY <3>1 DEF Listed
  <2>6. c \in Listed'
    <3>1. 1 \in 1..Len(list')
      BY <2>2, <2>3
    <3> QED BY <2>2, <3>1 DEF Listed
  <2> QED BY <2>4, <2>5, <2>6 DEF Listed
<1> QED BY <1>1 DEF XGAcceptConnect, dbVars

\* Neither recv() names, revives or logs in its connection.
LEMMA RecvWeaker ==
  ASSUME NEW r \in ConnectState, NEW room \in BOOLEAN
  PROVE  \A x \in XGRecvConnectClient(r, room) \cup XGRecvConnectServer(r, room) :
            x.r.id = r.id /\ x.r.islogined = r.islogined /\ (x.r.active => r.active)
<1> DEFINE Weaker(q) == q.id = r.id /\ q.islogined = r.islogined /\ (q.active => r.active)
<1>1. /\ Weaker([r EXCEPT !.active = FALSE, !.clientSock = 0])
      /\ Weaker([r EXCEPT !.server = "E_SER_WAIT_CONECT", !.serverSock = 0])
  BY DEF ConnectState
<1>2. \A f : /\ Weaker([r EXCEPT !.clientRx = Append(@, f)])
             /\ Weaker([r EXCEPT !.serverRx = Append(@, f)])
  BY DEF ConnectState
<1> HIDE DEF Weaker
<1>3. ASSUME NEW x \in XGRecvConnectClient(r, room)
      PROVE  Weaker(x.r)
  <2>1. \/ x.r = [r EXCEPT !.active = FALSE, !.clientSock = 0]
        \/ \E f \in ClientFrames : x.r = [r EXCEPT !.clientRx = Append(@, f)]
    BY DEF XGRecvConnectClient
  <2> QED BY <1>1, <1>2, <2>1
<1>4. ASSUME NEW x \in XGRecvConnectServer(r, room)
      PROVE  Weaker(x.r)
  <2>1. \/ x.r = [r EXCEPT !.server = "E_SER_WAIT_CONECT", !.serverSock = 0]
        \/ \E f \in ServerFrames : x.r = [r EXCEPT !.serverRx = Append(@, f)]
    BY DEF XGRecvConnectServer
  <2> QED BY <1>1, <1>2, <2>1
<1> QED BY <1>3, <1>4 DEF Weaker

\* The steps that neither parse, accept, unlink nor restart name nothing, revive nothing
\* and log nobody in.
LEMMA QuietStep ==
  ASSUME TypeOK, [Next]_vars
  PROVE  \/ XGRemoveNotActive \/ XGProtocol \/ XGAcceptConnect \/ Restart
         \/ list' = list /\ peer' = peer /\ Keeps(conn, conn')
<1> DEFINE Quiet == list' = list /\ peer' = peer /\ Keeps(conn, conn')
<1>0. \A e \in Conn : conn[e] \in ConnectState
  BY DEF TypeOK
<1>1. CASE XGPSendQueeu
  <2> DEFINE R(c) == Routed(clientQ, c, conn[c].client = "E_CLI_LOGINED")
             T(c) == Routed(cloudQ, c, conn[c].server = "E_SER_LOGINED")
             rec(c) == [conn[c] EXCEPT !.clientOut = @ \o R(c), !.serverOut = @ \o T(c)]
  <2>0. conn' = [c \in Conn |-> rec(c)] \/ conn' = conn
    BY <1>1 DEF XGPSendQueeu
  <2> HIDE DEF R, T
  <2>1. \A c \in Conn : /\ rec(c).id = conn[c].id /\ rec(c).islogined = conn[c].islogined
                        /\ rec(c).active = conn[c].active
    BY <1>0 DEF ConnectState
  <2> HIDE DEF rec
  <2>2. Keeps(conn, conn')
    BY <2>0, <2>1 DEF Keeps
  <2> QED BY <1>1, <2>2 DEF XGPSendQueeu
<1>2. CASE XGConnectTask
  <2>1. \/ conn' = conn
        \/ conn' = [conn EXCEPT ![list[cur]].server = "E_SER_CONNECTING", ![list[cur]].serverOut = <<>>]
    BY <1>2 DEF XGConnectTask
  <2>2. Keeps(conn, conn')
    <3>1. Keeps(conn, [conn EXCEPT ![list[cur]].server = "E_SER_CONNECTING", ![list[cur]].serverOut = <<>>])
      BY SameRecord
    <3> QED BY <2>1, <3>1, SameRecord, Zenon
  <2> QED BY <1>2, <2>2 DEF XGConnectTask
<1>3. ASSUME NEW sent \in BOOLEAN, ApplyResult(sent) PROVE Quiet
  <2> DEFINE t == Head(batch)
             c == XGGetConnectByDeviceid(t.id)
  <2>1. \/ conn' = conn
        \/ conn' = [conn EXCEPT ![c].server = "E_SER_WAIT_LOGIN_RESULT", ![c].serverSock = t.fd]
        \/ conn' = [conn EXCEPT ![c].server = "E_SER_WAIT_CONECT"]
    BY <1>3 DEF ApplyResult
  <2> HIDE DEF t, c
  <2>2. Keeps(conn, conn')
    <3>1. /\ Keeps(conn, [conn EXCEPT ![c].server = "E_SER_WAIT_LOGIN_RESULT", ![c].serverSock = t.fd])
          /\ Keeps(conn, [conn EXCEPT ![c].server = "E_SER_WAIT_CONECT"])
      BY SameRecord
    <3> QED BY <2>1, <3>1, SameRecord, Zenon
  <2> QED BY <1>3, <2>2 DEF ApplyResult
<1>4. CASE XGTimeout
  <2>1. PICK S \in SUBSET Listed, T \in SUBSET Listed :
          LET dropped == {c \in S : conn[c].server = "E_SER_WAIT_LOGIN_RESULT"
                                    /\ conn[c].serverSock > 0}
          IN conn' = [c \in Conn |->
                  [conn[c] EXCEPT !.active = @ /\ c \notin T,
                                  !.server = IF c \in dropped THEN "E_SER_WAIT_CONECT" ELSE @,
                                  !.serverSock = IF c \in dropped THEN 0 ELSE @]]
    BY <1>4 DEF XGTimeout
  <2>2. Keeps(conn, conn')
    <3> SUFFICES ASSUME NEW e \in Conn
                 PROVE  /\ conn'[e].id = conn[e].id /\ conn'[e].islogined = conn[e].islogined
                        /\ conn'[e].active => conn[e].active
      BY DEF Keeps
    <3> DEFINE dropped == {c \in S : conn[c].server = "E_SER_WAIT_LOGIN_RESULT"
                                     /\ conn[c].serverSock > 0}
    <3>1. conn'[e] = [conn[e] EXCEPT !.active = @ /\ e \notin T,
                                  !.server = IF e \in dropped THEN "E_SER_WAIT_CONECT" ELSE @,
                                  !.serverSock = IF e \in dropped THEN 0 ELSE @]
      BY <2>1
    <3> HIDE DEF dropped
    <3> QED BY <1>0, <3>1 DEF ConnectState
  <2> QED BY <1>4, <2>2 DEF XGTimeout
<1>5. CASE FdSet
  <2>1. Keeps(conn, conn')
    BY <1>0, <1>5 DEF FdSet, Keeps, ConnectState
  <2> QED BY <1>5, <2>1 DEF FdSet
<1>6. CASE XGConnectSend
  <2>1. PICK toClient \in SUBSET {c \in Conn : CanSendClient(c)}, toServer \in SUBSET {c \in Conn : CanSendServer(c)} :
          conn' = [c \in Conn |->
                    [conn[c] EXCEPT !.clientOut = IF c \in toClient THEN Tail(@) ELSE @,
                                    !.serverOut = IF c \in toServer THEN Tail(@) ELSE @]]
    BY <1>6 DEF XGConnectSend
  <2>2. Keeps(conn, conn')
    <3> SUFFICES ASSUME NEW e \in Conn
                 PROVE  /\ conn'[e].id = conn[e].id /\ conn'[e].islogined = conn[e].islogined
                        /\ conn'[e].active => conn[e].active
      BY DEF Keeps
    <3>1. conn'[e] = [conn[e] EXCEPT !.clientOut = IF e \in toClient THEN Tail(@) ELSE @,
                                     !.serverOut = IF e \in toServer THEN Tail(@) ELSE @]
      BY <2>1
    <3> QED BY <1>0, <3>1 DEF ConnectState
  <2> QED BY <1>6, <2>2 DEF XGConnectSend
<1>7. CASE Recv
  <2> DEFINE c == list[cur]
  <2>0. c \in Conn
    <3>1. cur <= Len(list)
      BY <1>7, Zenon DEF Recv
    <3> QED BY <3>1 DEF TypeOK
  <2> DEFINE Weaker(a, b) == b.id = a.id /\ b.islogined = a.islogined /\ (b.active => a.active)
             X == {[r |-> conn[c], closed |-> {}]} \cup
                  (IF c \in polled THEN XGRecvConnectClient(conn[c], Room(c)) ELSE {})
             Y(x) == {[r |-> x.r, closed |-> {}]} \cup
                  (IF c \in polled /\ conn[c].serverSock > 0
                   THEN XGRecvConnectServer(x.r, Room(c)) ELSE {})
  <2>1. PICK x \in X : \E y \in Y(x) : conn' = [conn EXCEPT ![c] = y.r]
    BY <1>7 DEF Recv
  <2>2. PICK y \in Y(x) : conn' = [conn EXCEPT ![c] = y.r]
    BY <2>1
  <2>3. Room(c) \in BOOLEAN
    BY DEF Room
  <2> HIDE DEF c
  <2>4. Weaker(conn[c], x.r) /\ x.r \in ConnectState
    BY <1>0, <2>0, <2>1, <2>3, RecvOutcomes, RecvWeaker
  <2>5. Weaker(x.r, y.r)
    BY <2>2, <2>3, <2>4, RecvWeaker
  <2>6. Keeps(conn, conn')
    BY <2>0, <2>2, <2>4, <2>5 DEF Keeps, TypeOK
  <2>7. list' = list /\ peer' = peer
    BY <1>7, Zenon DEF Recv
  <2> QED BY <2>6, <2>7
<1>8. CASE AddTasks \/ TakeResults \/ XGRecvUdpData \/ LoopEnd \/ ConnectThread \/ ApplicationThread
            \/ UNCHANGED vars
  <2>1. UNCHANGED <<list, conn, peer>>
    BY <1>8 DEF AddTasks, TakeResults, XGRecvUdpData, LoopEnd, ConnectThread, TakeTask, CreateSocket,
                FinishConnect, ApplicationThread, vars, coreVars
  <2> QED BY <2>1, SameRecord
<1> QED
  BY <1>1, <1>2, <1>3, <1>4, <1>5, <1>6, <1>7, <1>8 DEF Next, CoreThread

\* No step makes a second connection of a device live.
LEMMA LiveStep ==
  ASSUME TypeOK, LiveInv, [Next]_vars
  PROVE  LiveInv'
<1>1. CASE Keeps(conn, conn') /\ list' = list
  BY <1>1, KeepsLive
<1>2. CASE XGRemoveNotActive
  <2>1. ASSUME NEW c \in Listed, ~conn[c].active, Listed \ {c} \subseteq Listed',
               conn' = [conn EXCEPT ![c] = Zeroed]
        PROVE  LiveInv'
    <3>1. \A e \in Conn : conn'[e].active => e # c /\ conn'[e] = conn[e]
      BY <2>1 DEF TypeOK, Zeroed
    <3>2. ActiveListed'
      BY <2>1, <3>1 DEF LiveInv, ActiveListed
    <3>3. OneActivePerDevice'
      BY <3>1 DEF LiveInv, OneActivePerDevice
    <3> QED BY <3>2, <3>3 DEF LiveInv
  <2> QED BY <1>1, <1>2, <2>1, RemoveEffect, SameRecord
<1>3. CASE XGProtocol
  <2>1. ASSUME NEW c \in Listed, list' = list, LoggedInAs(conn, conn', c, peer[c], db[peer[c]] # "absent")
        PROVE  LiveInv'
    <3>1. c \in Conn
      BY DEF Listed, TypeOK
    <3>2. \A e \in Conn : conn'[e].active =>
             conn[e].active /\ (e # c => conn[e].id # peer[c] /\ conn'[e].id = conn[e].id)
      BY <2>1, <3>1 DEF LoggedInAs, LiveInv, ActiveListed
    <3>3. ActiveListed'
      BY <2>1, <3>2 DEF LiveInv, ActiveListed, Listed
    <3>4. OneActivePerDevice'
      BY <2>1, <3>2 DEF LiveInv, OneActivePerDevice, LoggedInAs
    <3> QED BY <3>3, <3>4 DEF LiveInv
  <2> QED BY <1>1, <1>3, <2>1, ProtocolEffect
<1>4. CASE XGAcceptConnect
  <2>1. ASSUME NEW c \in Conn \ Listed, Listed' = Listed \cup {c},
               conn' = [conn EXCEPT ![c] = [Zeroed EXCEPT !.active = TRUE, !.clientSock = NewFd]]
        PROVE  LiveInv'
    <3>1. conn'[c].id = NoDevice /\ \A e \in Conn \ {c} : conn'[e] = conn[e]
      BY <2>1 DEF TypeOK, Zeroed
    <3>2. ActiveListed'
      BY <2>1, <3>1 DEF LiveInv, ActiveListed
    <3>3. OneActivePerDevice'
      BY <3>1 DEF LiveInv, OneActivePerDevice
    <3> QED BY <3>2, <3>3 DEF LiveInv
  <2> QED BY <1>1, <1>4, <2>1, AcceptEffect, SameRecord
<1>5. CASE Restart
  BY <1>5 DEF Restart, LiveInv, ActiveListed, OneActivePerDevice, Zeroed
<1> QED
  BY <1>1, <1>2, <1>3, <1>4, <1>5, QuietStep

\* A device has at most one live connection in every reachable state: the search of
\* XGRemoveConnectByDeviceID, which looks only at listed connections, misses none.
THEOREM OneLiveConnection == Spec => []OneActivePerDevice
<1>1. Init => LiveInv
  BY DEF Init, LiveInv, ActiveListed, OneActivePerDevice, Zeroed
<1>2. TypeOK /\ LiveInv /\ [Next]_vars => LiveInv'
  BY LiveStep
<1>3. LiveInv => OneActivePerDevice
  BY DEF LiveInv
<1> QED BY <1>1, <1>2, <1>3, TypeCorrect, PTL DEF Spec

-----------------------------------------------------------------------------
(* What the core must keep apart *)

\* A listed connection has a device at its other end, and calls itself nothing or by the
\* id of that device.
IdIsPeer ==
  /\ \A c \in Listed : peer[c] \in Device
  /\ \A c \in Conn : conn[c].id \in {NoDevice, peer[c]}

\* A logged-in connection is listed, where a later login of its device finds it, and no
\* other connection is logged in as the same device.
LoginUnique ==
  /\ \A c \in Conn : conn[c].islogined => c \in Listed /\ conn[c].id \in Device
  /\ \A c, e \in Conn : conn[c].islogined /\ conn[e].islogined /\ conn[c].id = conn[e].id => c = e

\* The inductive invariant.
TableInv == IdIsPeer /\ LoginUnique /\ OnlineNotShownOffline /\ ShownOnlineJustified

\* The table is written by the logins and logouts of the core thread, by joins, by users,
\* and by a restart.
LEMMA TableWrites ==
  ASSUME [Next]_vars
  PROVE  \/ XGRemoveNotActive \/ XGProtocol \/ XGRecvUdpData \/ Restart
         \/ ApplicationThread /\ dbDeleteDevice
         \/ UNCHANGED dbVars
<1>1. CASE XGPSendQueeu \/ XGConnectTask \/ AddTasks \/ TakeResults
  BY <1>1 DEF XGPSendQueeu, XGConnectTask, AddTasks, TakeResults
<1>2. CASE \E sent \in BOOLEAN : ApplyResult(sent)
  BY <1>2 DEF ApplyResult
<1>3. CASE XGTimeout \/ FdSet \/ XGAcceptConnect \/ XGConnectSend
  BY <1>3 DEF XGTimeout, FdSet, XGAcceptConnect, XGConnectSend
<1>4. CASE Recv \/ LoopEnd
  BY <1>4, Zenon DEF Recv, LoopEnd
<1>5. CASE ConnectThread
  BY <1>5 DEF ConnectThread, TakeTask, CreateSocket, FinishConnect
<1>6. CASE ApplicationThread /\ XGCoreSendData
  BY <1>6 DEF XGCoreSendData
<1>7. CASE UNCHANGED vars
  BY <1>7 DEF vars
<1> QED
  BY <1>1, <1>2, <1>3, <1>4, <1>5, <1>6, <1>7 DEF Next, CoreThread, ApplicationThread

\* Without logins and with the table as it was, the invariant stays.
LEMMA QuietTable ==
  ASSUME TypeOK, TableInv, list' = list, peer' = peer, Keeps(conn, conn'), UNCHANGED dbVars
  PROVE  TableInv'
<1>1. Listed' = Listed /\ db' = db /\ fresh' = fresh
  BY DEF Listed, dbVars
<1>2. IdIsPeer'
  BY <1>1 DEF TableInv, IdIsPeer, Keeps
<1>3. LoginUnique'
  BY <1>1 DEF TableInv, LoginUnique, Keeps
<1>4. OnlineNotShownOffline'
  BY <1>1 DEF TableInv, OnlineNotShownOffline, Keeps
<1>5. ShownOnlineJustified'
  BY <1>1 DEF TableInv, ShownOnlineJustified, Keeps
<1> QED BY <1>2, <1>3, <1>4, <1>5 DEF TableInv

\* OnLoginout: the row written belongs to the connection that is cleared, and the device
\* is logged in on no other one.
LEMMA LogoutTable ==
  ASSUME TypeOK, TableInv, XGRemoveNotActive
  PROVE  TableInv'
<1>1. CASE list' = list /\ conn' = conn /\ peer' = peer /\ UNCHANGED dbVars
  BY <1>1, QuietTable, SameRecord
<1>2. ASSUME NEW c \in Listed, ~conn[c].active, peer' = peer,
             Listed \ {c} \subseteq Listed', Listed' \subseteq Listed,
             conn' = [conn EXCEPT ![c] = Zeroed],
             db' = IF (conn[c].islogined /\ conn[c].id # NoDevice) /\ db[conn[c].id] # "absent"
                   THEN [db EXCEPT ![conn[c].id] = "0"] ELSE db,
             fresh' = IF conn[c].islogined /\ conn[c].id # NoDevice
                      THEN fresh \ {conn[c].id} ELSE fresh
      PROVE  TableInv'
  <2>1. c \in Conn
    BY DEF Listed, TypeOK
  <2>2. /\ conn'[c].id = NoDevice /\ ~conn'[c].islogined
        /\ \A e \in Conn \ {c} : conn'[e] = conn[e]
    BY <1>2, <2>1 DEF TypeOK, Zeroed
  <2>3. IdIsPeer'
    BY <1>2, <2>2 DEF TableInv, IdIsPeer
  <2>4. LoginUnique'
    BY <1>2, <2>2 DEF TableInv, LoginUnique
  <2>5. \A e \in Conn \ {c} : conn[c].islogined /\ conn[e].islogined => conn[e].id # conn[c].id
    BY <2>1 DEF TableInv, LoginUnique
  <2>6. \A d \in Device : \/ db'[d] = db[d] /\ (conn[c].islogined => conn[c].id # d)
                          \/ db'[d] = db[d] /\ db[d] = "absent"
                          \/ conn[c].islogined /\ conn[c].id = d /\ db'[d] = "0"
    <3>1. CASE conn[c].islogined
      <4>1. conn[c].id \in Device /\ conn[c].id # NoDevice
        BY <2>1, <3>1, ConstantsAssumption DEF TableInv, LoginUnique
      <4>2. db' = IF db[conn[c].id] # "absent" THEN [db EXCEPT ![conn[c].id] = "0"] ELSE db
        BY <1>2, <3>1, <4>1
      <4> QED BY <3>1, <4>1, <4>2 DEF TypeOK
    <3>2. CASE ~conn[c].islogined
      BY <1>2, <3>2
    <3> QED BY <3>1, <3>2
  <2>7. OnlineNotShownOffline'
    <3> SUFFICES ASSUME NEW e \in Conn, conn'[e].active, conn'[e].islogined
                 PROVE  db'[conn'[e].id] # "0"
      BY DEF OnlineNotShownOffline
    <3>1. e # c /\ conn'[e] = conn[e]
      BY <2>2
    <3>2. conn[e].id \in Device /\ db[conn[e].id] # "0"
      BY <3>1 DEF TableInv, LoginUnique, OnlineNotShownOffline
    <3> QED BY <2>5, <2>6, <3>1, <3>2
  <2>8. ShownOnlineJustified'
    <3> SUFFICES ASSUME NEW d \in Device, db'[d] = "1", d \notin fresh'
                 PROVE  \E e \in Conn : conn'[e].islogined /\ conn'[e].id = d
      BY DEF ShownOnlineJustified
    <3>1. db[d] = "1" /\ (conn[c].islogined => conn[c].id # d)
      BY <2>6
    <3>2. d \notin fresh
      BY <1>2, <3>1
    <3>3. PICK e \in Conn : conn[e].islogined /\ conn[e].id = d
      BY <3>1, <3>2 DEF TableInv, ShownOnlineJustified
    <3>4. e # c
      BY <3>1, <3>3
    <3> QED BY <2>2, <3>3, <3>4
  <2> QED BY <2>3, <2>4, <2>7, <2>8 DEF TableInv
<1> QED BY <1>1, <1>2, RemoveEffect

\* OnDeviceLogin: the connection that logs in replaces every other one of its device.
LEMMA LoginTable ==
  ASSUME TypeOK, TableInv, XGProtocol
  PROVE  TableInv'
<1>1. CASE list' = list /\ peer' = peer /\ Keeps(conn, conn') /\ UNCHANGED dbVars
  BY <1>1, QuietTable
<1>2. ASSUME NEW c \in Listed, list' = list, peer' = peer,
             LoggedInAs(conn, conn', c, peer[c], db[peer[c]] # "absent"),
             db' = IF db[peer[c]] # "absent" THEN [db EXCEPT ![peer[c]] = "1"] ELSE db,
             fresh' = IF db[peer[c]] # "absent" THEN fresh \ {peer[c]} ELSE fresh
      PROVE  TableInv'
  <2> DEFINE d == peer[c]
             known == db[peer[c]] # "absent"
  <2>1. c \in Conn /\ d \in Device /\ Listed' = Listed
    BY <1>2 DEF Listed, TypeOK, TableInv, IdIsPeer
  <2>2. /\ conn'[c].id = d
        /\ known => conn'[c].islogined
        /\ ~known => ~conn'[c].islogined
    BY <1>2, <2>1, ConstantsAssumption DEF LoggedInAs, TableInv, IdIsPeer, LoginUnique
  <2>3. \A e \in Conn \ {c} :
          /\ conn'[e].id = conn[e].id
          /\ conn'[e].active => conn[e].active
          /\ conn'[e].islogined <=> conn[e].islogined /\ conn[e].id # d
    BY <1>2, <2>1 DEF LoggedInAs, TableInv, LoginUnique
  <2>4. IdIsPeer'
    BY <1>2, <2>1, <2>2, <2>3 DEF TableInv, IdIsPeer
  <2>5. LoginUnique'
    <3>1. \A e \in Conn : conn'[e].islogined => e \in Listed /\ conn'[e].id \in Device
      BY <2>1, <2>2, <2>3 DEF TableInv, LoginUnique
    <3>2. ASSUME NEW e \in Conn, NEW g \in Conn, conn'[e].islogined, conn'[g].islogined,
                 conn'[e].id = conn'[g].id
          PROVE  e = g
      <4>1. CASE e # c /\ g # c
        BY <2>3, <3>2, <4>1 DEF TableInv, LoginUnique
      <4>2. CASE e = c \/ g = c
        BY <2>2, <2>3, <3>2, <4>2
      <4> QED BY <4>1, <4>2
    <3> QED BY <2>1, <3>1, <3>2 DEF LoginUnique
  <2>6. OnlineNotShownOffline'
    <3> SUFFICES ASSUME NEW e \in Conn, conn'[e].active, conn'[e].islogined
                 PROVE  db'[conn'[e].id] # "0"
      BY DEF OnlineNotShownOffline
    <3>1. CASE e = c
      BY <1>2, <2>1, <2>2, <3>1 DEF TypeOK
    <3>2. CASE e # c
      <4>1. conn'[e].id = conn[e].id /\ conn[e].active /\ conn[e].islogined /\ conn[e].id # d
        BY <2>3, <3>2
      <4>2. db[conn[e].id] # "0"
        BY <4>1 DEF TableInv, OnlineNotShownOffline
      <4> QED BY <1>2, <2>1, <4>1, <4>2 DEF TypeOK
    <3> QED BY <3>1, <3>2
  <2>7. ShownOnlineJustified'
    <3> SUFFICES ASSUME NEW x \in Device, db'[x] = "1", x \notin fresh'
                 PROVE  \E e \in Conn : conn'[e].islogined /\ conn'[e].id = x
      BY DEF ShownOnlineJustified
    <3>1. CASE x = d /\ known
      BY <2>1, <2>2, <3>1
    <3>2. CASE x = d /\ ~known
      BY <1>2, <2>1, <3>2 DEF TypeOK
    <3>3. CASE x # d
      <4>1. db[x] = "1" /\ x \notin fresh
        BY <1>2, <2>1, <3>3 DEF TypeOK
      <4>2. PICK e \in Conn : conn[e].islogined /\ conn[e].id = x
        BY <4>1 DEF TableInv, ShownOnlineJustified
      <4>3. e # c
        BY <1>2, <2>1, <3>3, <4>2, ConstantsAssumption DEF TableInv, IdIsPeer
      <4> QED BY <2>3, <3>3, <4>2, <4>3
    <3> QED BY <3>1, <3>2, <3>3
  <2> QED BY <2>4, <2>5, <2>6, <2>7 DEF TableInv
<1> QED BY <1>1, <1>2, ProtocolEffect

\* A row that is inserted as online is fresh; a row that is deleted, or that a restart
\* resets, is not shown online any more.
LEMMA RowTable ==
  ASSUME TypeOK, TableInv,
         XGRecvUdpData \/ (ApplicationThread /\ dbDeleteDevice) \/ Restart
  PROVE  TableInv'
<1>1. CASE Restart
  <2>1. \A c \in Conn : ~conn'[c].islogined /\ conn'[c].id = NoDevice
    BY <1>1 DEF Restart, Zeroed
  <2>2. Listed' = {} /\ \A d \in Device : db'[d] # "1"
    BY <1>1 DEF Restart, dbCreateDeviceTable, Listed, TypeOK
  <2> QED BY <2>1, <2>2 DEF TableInv, IdIsPeer, LoginUnique, OnlineNotShownOffline, ShownOnlineJustified
<1>2. CASE XGRecvUdpData \/ (ApplicationThread /\ dbDeleteDevice)
  <2>1. list' = list /\ conn' = conn /\ peer' = peer /\ Listed' = Listed
    BY <1>2 DEF XGRecvUdpData, ApplicationThread, coreVars, Listed
  <2>2. IdIsPeer' /\ LoginUnique'
    BY <2>1 DEF TableInv, IdIsPeer, LoginUnique
  <2>3. \/ UNCHANGED dbVars
        \/ \E d \in Device : db' = [db EXCEPT ![d] = "1"] /\ fresh' = fresh \cup {d}
        \/ \E d \in Device : db' = [db EXCEPT ![d] = "absent"] /\ fresh' = fresh \ {d}
    BY <1>2, ConstantsAssumption DEF XGRecvUdpData, dbDeleteDevice
  <2>4. OnlineNotShownOffline'
    BY <2>1, <2>3 DEF TableInv, OnlineNotShownOffline, LoginUnique, TypeOK, dbVars
  <2>5. ShownOnlineJustified'
    BY <2>1, <2>3 DEF TableInv, ShownOnlineJustified, TypeOK, dbVars
  <2> QED BY <2>2, <2>4, <2>5 DEF TableInv
<1> QED BY <1>1, <1>2

\* A new connection is nameless and logged in as nobody.
LEMMA AcceptTable ==
  ASSUME TypeOK, TableInv, XGAcceptConnect
  PROVE  TableInv'
<1>1. UNCHANGED dbVars
  BY AcceptEffect
<1>2. CASE UNCHANGED <<list, conn, peer>>
  BY <1>1, <1>2, QuietTable, SameRecord
<1>3. ASSUME NEW c \in Conn \ Listed, NEW d \in Device, Listed' = Listed \cup {c},
             conn' = [conn EXCEPT ![c] = [Zeroed EXCEPT !.active = TRUE, !.clientSock = NewFd]],
             peer' = [peer EXCEPT ![c] = d]
      PROVE  TableInv'
  <2>1. /\ conn'[c].id = NoDevice /\ ~conn'[c].islogined /\ peer'[c] = d
        /\ \A e \in Conn \ {c} : conn'[e] = conn[e] /\ peer'[e] = peer[e]
    BY <1>3 DEF TypeOK, Zeroed
  <2>2. ~conn[c].islogined
    BY DEF TableInv, LoginUnique
  <2>3. IdIsPeer'
    <3>1. \A e \in Listed : e \in Conn
      BY DEF Listed, TypeOK
    <3> QED BY <1>3, <2>1, <3>1 DEF TableInv, IdIsPeer
  <2>4. LoginUnique'
    BY <1>3, <2>1 DEF TableInv, LoginUnique
  <2>5. OnlineNotShownOffline'
    BY <1>1, <2>1 DEF TableInv, OnlineNotShownOffline, dbVars
  <2>6. ShownOnlineJustified'
    BY <1>1, <2>1, <2>2 DEF TableInv, ShownOnlineJustified, dbVars
  <2> QED BY <2>3, <2>4, <2>5, <2>6 DEF TableInv
<1> QED BY <1>2, <1>3, AcceptEffect

LEMMA TableInit == Init => TableInv
<1> SUFFICES ASSUME Init PROVE TableInv
  OBVIOUS
<1>1. Listed = {} /\ \A c \in Conn : conn[c] = Zeroed
  BY DEF Init, Listed
<1>2. \A d \in Device : db[d] # "1"
  BY DEF Init
<1> QED BY <1>1, <1>2 DEF TableInv, IdIsPeer, LoginUnique, OnlineNotShownOffline, ShownOnlineJustified, Zeroed

LEMMA TableStep ==
  ASSUME TypeOK, TableInv, [Next]_vars
  PROVE  TableInv'
BY QuietStep, TableWrites, QuietTable, LogoutTable, LoginTable, RowTable, AcceptTable

LEMMA TableInvariant == Spec => []TableInv
<1>1. TypeOK /\ TableInv /\ [Next]_vars => TableInv'
  BY TableStep
<1> QED BY <1>1, TableInit, TypeCorrect, PTL DEF Spec

\* A device that is logged in is never shown offline, though the logout of a superseded
\* connection is only written when that connection is unlinked, after the new login.
THEOREM LoggedInIsOnline == Spec => []OnlineNotShownOffline
<1>1. TableInv => OnlineNotShownOffline
  BY DEF TableInv
<1> QED BY <1>1, TableInvariant, PTL

\* A device is shown online because it is logged in, or because it has just joined.
THEOREM OnlineIsJustified == Spec => []ShownOnlineJustified
<1>1. TableInv => ShownOnlineJustified
  BY DEF TableInv
<1> QED BY <1>1, TableInvariant, PTL

-----------------------------------------------------------------------------
(* Queued data.                                                            *)

\* What may wait in the send queues of connection c.
Own(c) == {NoDevice, peer[c]}
OwnData(r, c) == r.clientOut \in Seq(Own(c)) /\ r.serverOut \in Seq(Own(c))

\* The inductive invariant: everything queued is the connection's own.
DataInv == \A c \in Conn : OwnData(conn[c], c)

\* An item of its own, put into either queue.
LEMMA QueueOwn ==
  ASSUME NEW r \in ConnectState, NEW c, OwnData(r, c), NEW d \in Own(c)
  PROVE  OwnData(ToClient(r, d), c) /\ OwnData(ToServer(r, d), c)
<1>1. Append(r.clientOut, d) \in Seq(Own(c)) /\ Append(r.serverOut, d) \in Seq(Own(c))
  BY DEF OwnData
<1> QED BY <1>1 DEF OwnData, ToClient, ToServer, ConnectState

\* The items routed to a connection carry its id.
LEMMA RoutedOwn ==
  ASSUME TypeOK, IdIsPeer, NEW queue \in Seq(DeviceId), NEW c \in Conn, NEW ready \in BOOLEAN
  PROVE  Routed(queue, c, ready) \in Seq(Own(c))
<1>1. conn[c].id \in Own(c)
  BY DEF IdIsPeer, Own
<1> DEFINE S == {k \in 1..Len(queue) : queue[k] = conn[c].id}
<1>2. IsFiniteSet(1..Len(queue)) /\ S \in SUBSET (1..Len(queue))
  BY FS_Interval
<1>3. Cardinality(S) \in Nat
  BY <1>2, FS_Subset, FS_CardinalityType
<1>4. [i \in 1..Cardinality(S) |-> conn[c].id] \in Seq(Own(c))
  <2> HIDE DEF S
  <2> QED BY <1>1, <1>3, IsASeq
<1>5. <<>> \in Seq(Own(c))
  OBVIOUS
<1> QED BY <1>4, <1>5 DEF Routed

\* A frame puts the id of its connection into queues of that connection only; a CONNECT
\* frame, the id of the device at the other end.
LEMMA FrameOwn ==
  ASSUME IdIsPeer, NEW cs \in [Conn -> ConnectState], NEW c \in Conn, NEW f,
         peer[c] \in DeviceId, cs[c].id \in Own(c),
         \A e \in Conn : OwnData(cs[e], e)
  PROVE  /\ f \in ClientFrames => \A e \in Conn : OwnData(ClientFrameEffect(cs, c, f)[e], e)
         /\ f \in ServerFrames => \A e \in Conn : OwnData(ServerFrameEffect(cs, c, f)[e], e)
<1> DEFINE r == ToClient(cs[c], cs[c].id)
           q == ToServer(cs[c], cs[c].id)
<1>1. r \in ConnectState /\ q \in ConnectState /\ r.id = cs[c].id
  <2>1. r \in ConnectState /\ q \in ConnectState
    BY OwnQueueType
  <2> QED BY <2>1 DEF ToClient, ConnectState
<1>2. OwnData(r, c) /\ OwnData(q, c)
  BY QueueOwn
<1>3. ASSUME f \in ClientFrames, NEW e \in Conn
      PROVE  OwnData(ClientFrameEffect(cs, c, f)[e], e)
  <2>1. CASE f = "CONNECT"
    <3> DEFINE d == peer[c]
               known == db[d] # "absent"
               others == XGRemoveConnectByDeviceID(cs, d)
               plain == [others[c] EXCEPT !.id = d]
               named == ToClient(plain, d)
    <3>1. others \in [Conn -> ConnectState]
      BY RemoveType
    <3>2. \A g \in Conn : OwnData(others[g], g)
      BY DEF XGRemoveConnectByDeviceID, OwnData, ConnectState
    <3>3. ClientFrameEffect(cs, c, f) =
            [others EXCEPT ![c] =
               IF known THEN [named EXCEPT !.islogined = TRUE, !.client = "E_CLI_LOGINED",
                                           !.server = "E_SER_WAIT_CONECT"]
               ELSE named]
      BY <2>1 DEF ClientFrameEffect, Login
    <3> HIDE DEF others
    <3>4. plain \in ConnectState /\ OwnData(plain, c)
      BY <3>1, <3>2 DEF ConnectState, OwnData
    <3> HIDE DEF plain
    <3>5. named \in ConnectState /\ OwnData(named, c)
      <4>1. d \in Own(c)
        BY DEF Own
      <4> QED BY <3>4, <4>1, QueueOwn, QueueType
    <3> HIDE DEF named, known
    <3>6. OwnData([named EXCEPT !.islogined = TRUE, !.client = "E_CLI_LOGINED",
                                !.server = "E_SER_WAIT_CONECT"], c)
      BY <3>5 DEF OwnData, ConnectState
    <3> QED BY <3>1, <3>2, <3>3, <3>5, <3>6
  <2>2. CASE f = "CONNECT_SHORT"
    <3>1. OwnData([cs[c] EXCEPT !.active = FALSE], c)
      BY DEF OwnData, ConnectState
    <3>2. ClientFrameEffect(cs, c, f) = [cs EXCEPT ![c] = [cs[c] EXCEPT !.active = FALSE]]
      BY <2>2 DEF ClientFrameEffect
    <3> QED BY <3>1, <3>2
  <2>3. CASE f = "PING"
    <3>1. OwnData(ToServer(r, cs[c].id), c)
      <4> HIDE DEF r
      <4> QED BY <1>1, <1>2, QueueOwn
    <3>2. ClientFrameEffect(cs, c, f) = [cs EXCEPT ![c] = ToServer(r, cs[c].id)]
      BY <2>3 DEF ClientFrameEffect
    <3> HIDE DEF r
    <3> QED BY <3>1, <3>2
  <2>4. CASE f = "OTHER"
    <3>1. ClientFrameEffect(cs, c, f) = [cs EXCEPT ![c] = q]
      BY <2>4 DEF ClientFrameEffect
    <3> HIDE DEF q
    <3> QED BY <1>2, <3>1
  <2>5. CASE f \in {"PIPE", "IGNORED"}
    BY <2>5 DEF ClientFrameEffect
  <2> QED BY <1>3, <2>1, <2>2, <2>3, <2>4, <2>5, ConstantsAssumption
<1>4. ASSUME f \in ServerFrames, NEW e \in Conn
      PROVE  OwnData(ServerFrameEffect(cs, c, f)[e], e)
  <2>1. CASE f = "CONNECT"
    <3>1. ServerFrameEffect(cs, c, f) = [cs EXCEPT ![c] = [r EXCEPT !.server = "E_SER_LOGINED"]]
      BY <2>1 DEF ServerFrameEffect
    <3> HIDE DEF r
    <3>2. OwnData([r EXCEPT !.server = "E_SER_LOGINED"], c)
      BY <1>1, <1>2 DEF OwnData, ConnectState
    <3> QED BY <3>1, <3>2
  <2>2. CASE f = "OTHER"
    <3>1. ServerFrameEffect(cs, c, f) = [cs EXCEPT ![c] = r]
      BY <2>2 DEF ServerFrameEffect
    <3> HIDE DEF r
    <3> QED BY <1>2, <3>1
  <2>3. CASE f \in {"PIPE", "IGNORED"}
    BY <2>3 DEF ServerFrameEffect
  <2> QED BY <1>4, <2>1, <2>2, <2>3, ConstantsAssumption
<1> QED BY <1>3, <1>4

\* A turn of the parsers.
LEMMA ProtocolOwn ==
  ASSUME TypeOK, IdIsPeer, DataInv, XGProtocol
  PROVE  DataInv'
<1> DEFINE c == list[cur]
           cs == XGProtocolClient(conn, c)
           c0 == [conn EXCEPT ![c].clientRx = Tail(@)]
           f == NextFrame(conn[c].clientRx)
           s0 == [cs EXCEPT ![c].serverRx = Tail(@)]
           g == NextFrame(cs[c].serverRx)
<1>0. /\ c \in Conn /\ conn \in [Conn -> ConnectState] /\ peer[c] \in DeviceId
      /\ conn[c].id \in Own(c)
  <2>0. cur <= Len(list)
    BY Zenon DEF XGProtocol
  <2>1. c \in Conn
    BY <2>0 DEF TypeOK
  <2> HIDE DEF c
  <2> QED BY <2>1 DEF TypeOK, IdIsPeer, Own
<1>1. conn' = XGProtocolServer(cs, c) /\ peer' = peer
  BY DEF XGProtocol
<1> HIDE DEF c
<1>2. cs \in [Conn -> ConnectState]
  BY <1>0, ProtocolRecords
<1>3. (\A e \in Conn : OwnData(cs[e], e)) /\ cs[c].id \in Own(c)
  <2>1. CASE conn[c].clientRx = <<>>
    BY <1>0, <2>1 DEF XGProtocolClient, DataInv
  <2>2. CASE conn[c].clientRx # <<>>
    <3>1. f \in ClientFrames /\ c0 \in [Conn -> ConnectState]
      BY <1>0, <2>2, ParserType
    <3>2. cs = ClientFrameEffect(c0, c, f)
      BY <2>2 DEF XGProtocolClient
    <3>3. (\A e \in Conn : OwnData(c0[e], e)) /\ Keeps(conn, c0)
      BY <1>0 DEF DataInv, OwnData, Keeps, ConnectState
    <3> HIDE DEF cs, c0, f
    <3>4. \A e \in Conn : OwnData(cs[e], e)
      BY <1>0, <3>1, <3>2, <3>3, FrameOwn DEF Keeps
    <3>5. cs[c].id \in Own(c)
      <4>1. CASE f = "CONNECT"
        <5>1. cs = Login(c0, c, peer[c], db[peer[c]] # "absent")
          BY <3>2, <4>1 DEF ClientFrameEffect
        <5> DEFINE known == db[peer[c]] # "absent"
        <5>2. known \in BOOLEAN
          OBVIOUS
        <5> HIDE DEF known
        <5>3. LoggedInAs(c0, Login(c0, c, peer[c], known), c, peer[c], known)
          BY <1>0, <3>1, <5>2, LoginRetires
        <5> QED BY <5>1, <5>3 DEF known, LoggedInAs, Own
      <4>2. CASE f # "CONNECT"
        BY <1>0, <3>1, <3>2, <3>3, <4>2, FrameKeeps DEF Keeps
      <4> QED BY <4>1, <4>2
    <3> QED BY <3>4, <3>5
  <2> QED BY <2>1, <2>2
<1>4. \A e \in Conn : OwnData(conn'[e], e)
  <2>1. CASE cs[c].serverRx = <<>>
    BY <1>1, <1>3, <2>1 DEF XGProtocolServer
  <2>2. CASE cs[c].serverRx # <<>>
    <3> HIDE DEF cs
    <3>1. g \in ServerFrames /\ s0 \in [Conn -> ConnectState]
      BY <1>0, <1>2, <2>2, ParserType
    <3>2. conn' = ServerFrameEffect(s0, c, g)
      BY <1>1, <2>2 DEF XGProtocolServer
    <3>3. (\A e \in Conn : OwnData(s0[e], e)) /\ s0[c].id = cs[c].id
      BY <1>0, <1>2, <1>3 DEF OwnData, ConnectState
    <3> HIDE DEF s0, g
    <3> QED BY <1>0, <1>3, <3>1, <3>2, <3>3, FrameOwn
  <2> QED BY <2>1, <2>2
<1> QED BY <1>1, <1>4 DEF DataInv, OwnData, Own

\* XGSendQueueClient and XGSendQueueCloud.
LEMMA SendQueueOwn ==
  ASSUME TypeOK, IdIsPeer, DataInv, XGPSendQueeu
  PROVE  DataInv'
<1> DEFINE R(c) == Routed(clientQ, c, conn[c].client = "E_CLI_LOGINED")
           T(c) == Routed(cloudQ, c, conn[c].server = "E_SER_LOGINED")
           rec(c) == [conn[c] EXCEPT !.clientOut = @ \o R(c), !.serverOut = @ \o T(c)]
<1>1. (conn' = [c \in Conn |-> rec(c)] \/ conn' = conn) /\ peer' = peer
  BY DEF XGPSendQueeu
<1>2. ASSUME NEW c \in Conn PROVE OwnData(rec(c), c)
  <2>1. R(c) \in Seq(Own(c)) /\ T(c) \in Seq(Own(c))
    BY RoutedOwn DEF TypeOK
  <2> HIDE DEF R, T
  <2>2. conn[c].clientOut \o R(c) \in Seq(Own(c)) /\ conn[c].serverOut \o T(c) \in Seq(Own(c))
    BY <2>1 DEF DataInv, OwnData
  <2>3. conn[c] \in ConnectState
    BY DEF TypeOK
  <2> QED BY <2>2, <2>3 DEF OwnData, ConnectState
<1> HIDE DEF rec
<1> QED BY <1>1, <1>2 DEF DataInv, OwnData, Own

\* XGConnectSend takes items out.
LEMMA SendOwn ==
  ASSUME TypeOK, DataInv, XGConnectSend
  PROVE  DataInv'
<1>1. PICK S \in SUBSET {c \in Conn : CanSendClient(c)}, T \in SUBSET {c \in Conn : CanSendServer(c)} :
        conn' = [c \in Conn |->
                  [conn[c] EXCEPT !.clientOut = IF c \in S THEN Tail(@) ELSE @,
                                  !.serverOut = IF c \in T THEN Tail(@) ELSE @]]
  BY DEF XGConnectSend
<1> DEFINE rec(c) == [conn[c] EXCEPT !.clientOut = IF c \in S THEN Tail(@) ELSE @,
                                     !.serverOut = IF c \in T THEN Tail(@) ELSE @]
<1>2. ASSUME NEW c \in Conn PROVE OwnData(rec(c), c)
  <2>1. conn[c] \in ConnectState
    BY DEF TypeOK
  <2>2. /\ c \in S => Tail(conn[c].clientOut) \in Seq(Own(c))
        /\ c \in T => Tail(conn[c].serverOut) \in Seq(Own(c))
    BY DEF CanSendClient, CanSendServer, DataInv, OwnData
  <2> QED BY <2>1, <2>2 DEF OwnData, DataInv, ConnectState
<1>3. conn' = [c \in Conn |-> rec(c)] /\ peer' = peer
  BY <1>1 DEF XGConnectSend
<1> HIDE DEF rec
<1> QED BY <1>2, <1>3 DEF DataInv, OwnData, Own

\* The records keep their queues, or lose the data for the old cloud session.
SameQueues(a, b) ==
  \A e \in Conn : b[e].clientOut = a[e].clientOut /\ b[e].serverOut \in {a[e].serverOut, <<>>}

LEMMA SameQueuesOwn ==
  ASSUME DataInv, peer' = peer, SameQueues(conn, conn')
  PROVE  DataInv'
<1>1. \A c \in Conn : conn[c].clientOut \in Seq(Own(c)) /\ conn[c].serverOut \in Seq(Own(c))
  BY DEF DataInv, OwnData
<1>2. \A c : Own(c)' = Own(c) /\ <<>> \in Seq(Own(c))
  BY DEF Own
<1>3. \A c \in Conn : conn'[c].clientOut \in Seq(Own(c)) /\ conn'[c].serverOut \in Seq(Own(c))
  <2> SUFFICES ASSUME NEW c \in Conn
               PROVE  conn'[c].clientOut \in Seq(Own(c)) /\ conn'[c].serverOut \in Seq(Own(c))
    OBVIOUS
  <2>1. conn'[c].clientOut = conn[c].clientOut /\ conn'[c].serverOut \in {conn[c].serverOut, <<>>}
    BY DEF SameQueues
  <2> QED BY <1>1, <1>2, <2>1
<1> QED BY <1>2, <1>3 DEF DataInv, OwnData

\* A record without data.
LEMMA EmptyOwn ==
  \A r : r.clientOut = <<>> /\ r.serverOut = <<>> => \A c : OwnData(r, c)
<1> SUFFICES ASSUME NEW r, r.clientOut = <<>>, r.serverOut = <<>>, NEW c PROVE OwnData(r, c)
  OBVIOUS
<1>1. <<>> \in Seq(Own(c))
  OBVIOUS
<1> QED BY <1>1 DEF OwnData

LEMMA ZeroedOwn ==
  ASSUME NEW fd
  PROVE  \A c : OwnData(Zeroed, c) /\ OwnData([Zeroed EXCEPT !.active = TRUE, !.clientSock = fd], c)
<1>1. Zeroed.clientOut = <<>> /\ Zeroed.serverOut = <<>>
  BY DEF Zeroed
<1>2. /\ [Zeroed EXCEPT !.active = TRUE, !.clientSock = fd].clientOut = <<>>
      /\ [Zeroed EXCEPT !.active = TRUE, !.clientSock = fd].serverOut = <<>>
  BY DEF Zeroed
<1> QED BY <1>1, <1>2, EmptyOwn

\* Neither recv() touches the send queues.
LEMMA RecvQueues ==
  ASSUME NEW r \in ConnectState, NEW room \in BOOLEAN
  PROVE  \A x \in XGRecvConnectClient(r, room) \cup XGRecvConnectServer(r, room) :
            x.r.clientOut = r.clientOut /\ x.r.serverOut = r.serverOut
<1> DEFINE Same(q) == q.clientOut = r.clientOut /\ q.serverOut = r.serverOut
<1>1. /\ Same([r EXCEPT !.active = FALSE, !.clientSock = 0])
      /\ Same([r EXCEPT !.server = "E_SER_WAIT_CONECT", !.serverSock = 0])
  BY DEF ConnectState
<1>2. \A f : /\ Same([r EXCEPT !.clientRx = Append(@, f)])
             /\ Same([r EXCEPT !.serverRx = Append(@, f)])
  BY DEF ConnectState
<1> HIDE DEF Same
<1>3. ASSUME NEW x \in XGRecvConnectClient(r, room)
      PROVE  Same(x.r)
  <2>1. \/ x.r = [r EXCEPT !.active = FALSE, !.clientSock = 0]
        \/ \E f \in ClientFrames : x.r = [r EXCEPT !.clientRx = Append(@, f)]
    BY DEF XGRecvConnectClient
  <2> QED BY <1>1, <1>2, <2>1
<1>4. ASSUME NEW x \in XGRecvConnectServer(r, room)
      PROVE  Same(x.r)
  <2>1. \/ x.r = [r EXCEPT !.server = "E_SER_WAIT_CONECT", !.serverSock = 0]
        \/ \E f \in ServerFrames : x.r = [r EXCEPT !.serverRx = Append(@, f)]
    BY DEF XGRecvConnectServer
  <2> QED BY <1>1, <1>2, <2>1
<1> QED BY <1>3, <1>4 DEF Same

\* The steps that put nothing into a send queue.
LEMMA QueuesStep ==
  ASSUME TypeOK, [Next]_vars
  PROVE  \/ XGRemoveNotActive \/ XGProtocol \/ XGAcceptConnect \/ Restart
         \/ XGPSendQueeu \/ XGConnectSend
         \/ peer' = peer /\ SameQueues(conn, conn')
<1>0. \A e \in Conn : conn[e] \in ConnectState
  BY DEF TypeOK
<1>1. CASE XGConnectTask
  <2>1. \A e \in Conn : \/ conn'[e] = conn[e]
                        \/ conn'[e] = [conn[e] EXCEPT !.server = "E_SER_CONNECTING", !.serverOut = <<>>]
    BY <1>1 DEF XGConnectTask, TypeOK
  <2>2. SameQueues(conn, conn')
    BY <1>0, <2>1 DEF SameQueues, ConnectState
  <2> QED BY <1>1, <2>2 DEF XGConnectTask
<1>2. ASSUME NEW sent \in BOOLEAN, ApplyResult(sent)
      PROVE  peer' = peer /\ SameQueues(conn, conn')
  <2> DEFINE t == Head(batch)
             c == XGGetConnectByDeviceid(t.id)
  <2>1. \/ conn' = conn
        \/ conn' = [conn EXCEPT ![c].server = "E_SER_WAIT_LOGIN_RESULT", ![c].serverSock = t.fd]
        \/ conn' = [conn EXCEPT ![c].server = "E_SER_WAIT_CONECT"]
    BY <1>2 DEF ApplyResult
  <2> HIDE DEF t, c
  <2>2. \A e \in Conn : \/ conn'[e] = conn[e]
                        \/ conn'[e] = [conn[e] EXCEPT !.server = "E_SER_WAIT_LOGIN_RESULT", !.serverSock = t.fd]
                        \/ conn'[e] = [conn[e] EXCEPT !.server = "E_SER_WAIT_CONECT"]
    BY <2>1 DEF TypeOK
  <2>3. SameQueues(conn, conn')
    BY <1>0, <2>2 DEF SameQueues, ConnectState
  <2> QED BY <1>2, <2>3 DEF ApplyResult
<1>3. CASE XGTimeout
  <2>1. PICK S \in SUBSET Listed, T \in SUBSET Listed :
          LET dropped == {c \in S : conn[c].server = "E_SER_WAIT_LOGIN_RESULT"
                                    /\ conn[c].serverSock > 0}
          IN conn' = [c \in Conn |->
                  [conn[c] EXCEPT !.active = @ /\ c \notin T,
                                  !.server = IF c \in dropped THEN "E_SER_WAIT_CONECT" ELSE @,
                                  !.serverSock = IF c \in dropped THEN 0 ELSE @]]
    BY <1>3 DEF XGTimeout
  <2> DEFINE dropped == {c \in S : conn[c].server = "E_SER_WAIT_LOGIN_RESULT"
                                   /\ conn[c].serverSock > 0}
  <2>2. \A e \in Conn :
          conn'[e] = [conn[e] EXCEPT !.active = @ /\ e \notin T,
                                     !.server = IF e \in dropped THEN "E_SER_WAIT_CONECT" ELSE @,
                                     !.serverSock = IF e \in dropped THEN 0 ELSE @]
    BY <2>1
  <2> HIDE DEF dropped
  <2>3. SameQueues(conn, conn')
    BY <1>0, <2>2 DEF SameQueues, ConnectState
  <2> QED BY <1>3, <2>3 DEF XGTimeout
<1>4. CASE FdSet
  <2>1. SameQueues(conn, conn')
    BY <1>0, <1>4 DEF FdSet, SameQueues, ConnectState
  <2> QED BY <1>4, <2>1 DEF FdSet
<1>5. CASE Recv
  <2> DEFINE c == list[cur]
             X == {[r |-> conn[c], closed |-> {}]} \cup
                  (IF c \in polled THEN XGRecvConnectClient(conn[c], Room(c)) ELSE {})
             Y(x) == {[r |-> x.r, closed |-> {}]} \cup
                  (IF c \in polled /\ conn[c].serverSock > 0
                   THEN XGRecvConnectServer(x.r, Room(c)) ELSE {})
             Same(a, b) == b.clientOut = a.clientOut /\ b.serverOut = a.serverOut
  <2>0. c \in Conn
    <3>1. cur <= Len(list)
      BY <1>5, Zenon DEF Recv
    <3> QED BY <3>1 DEF TypeOK
  <2>1. PICK x \in X : \E y \in Y(x) : conn' = [conn EXCEPT ![c] = y.r]
    BY <1>5 DEF Recv
  <2>2. PICK y \in Y(x) : conn' = [conn EXCEPT ![c] = y.r]
    BY <2>1
  <2>3. Room(c) \in BOOLEAN
    BY DEF Room
  <2> HIDE DEF c
  <2>4. Same(conn[c], x.r) /\ x.r \in ConnectState
    BY <1>0, <2>0, <2>1, <2>3, RecvOutcomes, RecvQueues
  <2>5. Same(x.r, y.r)
    BY <2>2, <2>3, <2>4, RecvQueues
  <2>6. SameQueues(conn, conn')
    BY <2>0, <2>2, <2>4, <2>5 DEF SameQueues, TypeOK
  <2>7. peer' = peer
    BY <1>5, Zenon DEF Recv
  <2> QED BY <2>6, <2>7
<1>6. CASE AddTasks \/ TakeResults \/ XGRecvUdpData \/ LoopEnd \/ ConnectThread \/ ApplicationThread
            \/ UNCHANGED vars
  <2>1. UNCHANGED <<conn, peer>>
    BY <1>6 DEF AddTasks, TakeResults, XGRecvUdpData, LoopEnd, ConnectThread, TakeTask, CreateSocket,
                FinishConnect, ApplicationThread, vars, coreVars
  <2> QED BY <2>1 DEF SameQueues
<1> QED
  BY <1>1, <1>2, <1>3, <1>4, <1>5, <1>6 DEF Next, CoreThread

LEMMA DataStep ==
  ASSUME TypeOK, IdIsPeer, DataInv, [Next]_vars
  PROVE  DataInv'
<1>1. CASE XGRemoveNotActive
  <2>1. peer' = peer /\ \A e \in Conn : conn'[e] = conn[e] \/ conn'[e] = Zeroed
    BY <1>1, RemoveEffect DEF TypeOK
  <2>2. \A e \in Conn : OwnData(conn'[e], e) /\ Own(e)' = Own(e)
    BY <2>1, ZeroedOwn DEF DataInv, Own
  <2> QED BY <2>2 DEF DataInv, OwnData
<1>2. CASE XGAcceptConnect
  <2>1. ASSUME NEW e \in Conn PROVE OwnData(conn[e], e)'
    <3>1. \/ conn'[e] = conn[e] /\ peer'[e] = peer[e]
          \/ conn'[e] = [Zeroed EXCEPT !.active = TRUE, !.clientSock = NewFd]
      BY <1>2, AcceptEffect DEF TypeOK
    <3>2. CASE conn'[e] = conn[e] /\ peer'[e] = peer[e]
      BY <3>2 DEF DataInv, OwnData, Own
    <3>3. CASE conn'[e] = [Zeroed EXCEPT !.active = TRUE, !.clientSock = NewFd]
      <4>1. conn'[e].clientOut = <<>> /\ conn'[e].serverOut = <<>>
        BY <3>3 DEF Zeroed
      <4>2. <<>> \in Seq(Own(e)')
        OBVIOUS
      <4> QED BY <4>1, <4>2 DEF OwnData
    <3> QED BY <3>1, <3>2, <3>3
  <2> QED BY <2>1 DEF DataInv
<1>3. CASE Restart
  <2>1. ASSUME NEW e \in Conn PROVE OwnData(conn[e], e)'
    <3>1. conn'[e].clientOut = <<>> /\ conn'[e].serverOut = <<>>
      BY <1>3 DEF Restart, Zeroed
    <3>2. <<>> \in Seq(Own(e)')
      OBVIOUS
    <3> QED BY <3>1, <3>2 DEF OwnData
  <2> QED BY <2>1 DEF DataInv
<1> QED
  BY <1>1, <1>2, <1>3, QueuesStep, ProtocolOwn, SendQueueOwn, SendOwn, SameQueuesOwn

\* Data never waits in the queues of a connection to somebody else's device, whatever is
\* retired, replaced or reused between the parsing of a frame and its routing by id.
THEOREM DataOfOwnDevice == Spec => []DataStaysWithDevice
<1>1. Init => DataInv
  BY ZeroedOwn DEF Init, DataInv
<1>2. TypeOK /\ TableInv /\ DataInv /\ [Next]_vars => DataInv'
  BY DataStep DEF TableInv
<1>3. DataInv => DataStaysWithDevice
  <2> SUFFICES ASSUME DataInv, NEW c \in Conn,
                      NEW i \in 1..Len(conn[c].clientOut \o conn[c].serverOut)
               PROVE  (conn[c].clientOut \o conn[c].serverOut)[i] \in {peer[c], NoDevice}
    BY DEF DataStaysWithDevice
  <2>1. conn[c].clientOut \o conn[c].serverOut \in Seq(Own(c))
    BY DEF DataInv, OwnData
  <2> DEFINE q == conn[c].clientOut \o conn[c].serverOut
  <2> HIDE DEF q
  <2>2. q \in Seq(Own(c)) /\ i \in 1..Len(q)
    BY <2>1 DEF q
  <2>3. q[i] \in Own(c)
    BY <2>2
  <2> QED BY <2>3 DEF Own, q
<1> QED BY <1>1, <1>2, <1>3, TypeCorrect, TableInvariant, PTL DEF Spec

-----------------------------------------------------------------------------
(* Descriptors.                                                            *)

\* HandlesExclusive, holder by holder.
HandleInv ==
  /\ \A h \in Holders : h[3] # 0 => h[3] \in openFds
  /\ \A g, h \in Holders : g[3] = h[3] /\ h[3] # 0 => g = h

\* The holders, one by one.
LEMMA HoldersElements ==
  \A h : h \in Holders <=>
    \/ \E c \in Conn : h = <<"client", c, conn[c].clientSock>>
    \/ \E c \in Conn : h = <<"server", c, conn[c].serverSock>>
    \/ \E i \in 1..Len(batch) : h = <<"batch", i, batch[i].fd>>
    \/ \E i \in 1..Len(results) : h = <<"result", i, results[i].fd>>
    \/ h = <<"worker", 0, worker.fd>>
BY DEF Holders

LEMMA HoldersElementsNext ==
  \A h : h \in Holders' <=>
    \/ \E c \in Conn : h = <<"client", c, conn'[c].clientSock>>
    \/ \E c \in Conn : h = <<"server", c, conn'[c].serverSock>>
    \/ \E i \in 1..Len(batch') : h = <<"batch", i, batch'[i].fd>>
    \/ \E i \in 1..Len(results') : h = <<"result", i, results'[i].fd>>
    \/ h = <<"worker", 0, worker'.fd>>
BY DEF Holders

\* A step after which every descriptor held was held before, by the holder m tells, and
\* which closes only descriptors whose holder gives them up.
LEMMA HandlesMoved ==
  ASSUME HandleInv, NEW m,
         \A h \in Holders' : h[3] # 0 => m[h] \in Holders /\ m[h][3] = h[3],
         \A g, h \in Holders' : g[3] # 0 /\ h[3] # 0 /\ m[g] = m[h] => g = h,
         \A f \in openFds \ openFds' :
            f = 0 \/ \E g \in Holders : g[3] = f /\ \A h \in Holders' : h[3] # 0 => m[h] # g
  PROVE  HandleInv'
<1>1. ASSUME NEW h \in Holders', h[3] # 0 PROVE h[3] \in openFds'
  <2>1. m[h] \in Holders /\ m[h][3] = h[3] /\ h[3] \in openFds
    BY <1>1 DEF HandleInv
  <2>2. ASSUME h[3] \notin openFds' PROVE FALSE
    <3>1. PICK g \in Holders : g[3] = h[3] /\ \A x \in Holders' : x[3] # 0 => m[x] # g
      BY <1>1, <2>1, <2>2
    <3>2. g = m[h]
      BY <1>1, <2>1, <3>1 DEF HandleInv
    <3> QED BY <1>1, <3>1, <3>2
  <2> QED BY <2>2
<1>2. ASSUME NEW g \in Holders', NEW h \in Holders', g[3] = h[3], h[3] # 0 PROVE g = h
  <2>1. m[g] \in Holders /\ m[h] \in Holders /\ m[g][3] = m[h][3] /\ m[h][3] # 0
    BY <1>2
  <2>2. m[g] = m[h]
    BY <2>1 DEF HandleInv
  <2> QED BY <1>2, <2>2
<1> QED BY <1>1, <1>2 DEF HandleInv

\* The same where no descriptor changes hands.
LEMMA HandlesKept ==
  ASSUME HandleInv,
         \A h \in Holders' : h[3] # 0 => h \in Holders,
         \A f \in openFds \ openFds' : f = 0 \/ \E g \in Holders \ Holders' : g[3] = f
  PROVE  HandleInv'
<1> DEFINE m == [h \in Holders' |-> h]
<1>1. \A h \in Holders' : m[h] = h
  OBVIOUS
<1> HIDE DEF m
<1> QED BY <1>1, HandlesMoved

\* A step that opens one descriptor, for one holder.
LEMMA HandleOpened ==
  ASSUME HandleInv, NEW n, n[3] \notin openFds, openFds' = openFds \cup {n[3]},
         \A h \in Holders' : h[3] # 0 => h \in Holders \/ h = n
  PROVE  HandleInv'
BY DEF HandleInv

\* The kernel never hands out a descriptor that is open.
LEMMA NewFdClosed ==
  ASSUME TypeOK, NewFd # -1
  PROVE  NewFd \in Fd /\ NewFd \notin openFds
BY NewFdType DEF TypeOK

\* From records a to records b no socket handle changes.
SameSocks(a, b) ==
  \A e \in Conn : b[e].clientSock = a[e].clientSock /\ b[e].serverSock = a[e].serverSock

\* From records a to records b a handle may be given up.
FewerSocks(a, b) ==
  \A e \in Conn : /\ b[e].clientSock \in {a[e].clientSock, 0}
                  /\ b[e].serverSock \in {a[e].serverSock, 0}

\* Items queued and frames consumed leave the handles of a record alone.
LEMMA QueueSocks ==
  ASSUME NEW r \in ConnectState, NEW d
  PROVE  /\ ToClient(r, d).clientSock = r.clientSock /\ ToClient(r, d).serverSock = r.serverSock
         /\ ToServer(r, d).clientSock = r.clientSock /\ ToServer(r, d).serverSock = r.serverSock
BY DEF ToClient, ToServer, ConnectState

\* The frames, one case per packet type.
LEMMA FrameSocks ==
  ASSUME NEW cs \in [Conn -> ConnectState], NEW c \in Conn, NEW f, peer[c] \in DeviceId
  PROVE  /\ f \in ClientFrames => SameSocks(cs, ClientFrameEffect(cs, c, f))
         /\ f \in ServerFrames => SameSocks(cs, ServerFrameEffect(cs, c, f))
<1> DEFINE r == ToClient(cs[c], cs[c].id)
           q == ToServer(cs[c], cs[c].id)
           Same(x) == x.clientSock = cs[c].clientSock /\ x.serverSock = cs[c].serverSock
<1>1. r \in ConnectState /\ q \in ConnectState
  BY OwnQueueType
<1>2. Same(r) /\ Same(q)
  BY QueueSocks
<1>3. ASSUME f \in ClientFrames PROVE SameSocks(cs, ClientFrameEffect(cs, c, f))
  <2>1. CASE f = "CONNECT"
    <3> DEFINE d == peer[c]
               known == db[d] # "absent"
               others == XGRemoveConnectByDeviceID(cs, d)
               plain == [others[c] EXCEPT !.id = d]
               named == ToClient(plain, d)
               logged == [named EXCEPT !.islogined = TRUE, !.client = "E_CLI_LOGINED",
                                       !.server = "E_SER_WAIT_CONECT"]
    <3>1. others \in [Conn -> ConnectState]
      BY RemoveType
    <3>2. SameSocks(cs, others)
      BY DEF XGRemoveConnectByDeviceID, SameSocks, ConnectState
    <3>3. ClientFrameEffect(cs, c, f) = [others EXCEPT ![c] = IF known THEN logged ELSE named]
      BY <2>1 DEF ClientFrameEffect, Login
    <3> HIDE DEF others
    <3>4. plain \in ConnectState /\ Same(plain)
      BY <3>1, <3>2 DEF ConnectState, SameSocks
    <3> HIDE DEF plain
    <3>5. named \in ConnectState /\ Same(named)
      BY <3>4, QueueSocks, QueueType
    <3> HIDE DEF named, known
    <3>6. Same(logged)
      BY <3>5 DEF ConnectState
    <3> HIDE DEF logged
    <3> QED BY <3>1, <3>2, <3>3, <3>5, <3>6 DEF SameSocks
  <2>2. CASE f = "CONNECT_SHORT"
    <3>1. Same([cs[c] EXCEPT !.active = FALSE])
      BY DEF ConnectState
    <3>2. ClientFrameEffect(cs, c, f) = [cs EXCEPT ![c] = [cs[c] EXCEPT !.active = FALSE]]
      BY <2>2 DEF ClientFrameEffect
    <3> QED BY <3>1, <3>2 DEF SameSocks
  <2>3. CASE f = "PING"
    <3>1. Same(ToServer(r, cs[c].id))
      <4> HIDE DEF r
      <4> QED BY <1>1, <1>2, QueueSocks
    <3>2. ClientFrameEffect(cs, c, f) = [cs EXCEPT ![c] = ToServer(r, cs[c].id)]
      BY <2>3 DEF ClientFrameEffect
    <3> HIDE DEF r
    <3> QED BY <3>1, <3>2 DEF SameSocks
  <2>4. CASE f = "OTHER"
    <3>1. ClientFrameEffect(cs, c, f) = [cs EXCEPT ![c] = q]
      BY <2>4 DEF ClientFrameEffect
    <3> HIDE DEF q
    <3> QED BY <1>2, <3>1 DEF SameSocks
  <2>5. CASE f \in {"PIPE", "IGNORED"}
    BY <2>5 DEF ClientFrameEffect, SameSocks
  <2> QED BY <1>3, <2>1, <2>2, <2>3, <2>4, <2>5, ConstantsAssumption
<1>4. ASSUME f \in ServerFrames PROVE SameSocks(cs, ServerFrameEffect(cs, c, f))
  <2>1. CASE f = "CONNECT"
    <3>1. ServerFrameEffect(cs, c, f) = [cs EXCEPT ![c] = [r EXCEPT !.server = "E_SER_LOGINED"]]
      BY <2>1 DEF ServerFrameEffect
    <3> HIDE DEF r
    <3>2. Same([r EXCEPT !.server = "E_SER_LOGINED"])
      BY <1>1, <1>2 DEF ConnectState
    <3> QED BY <3>1, <3>2 DEF SameSocks
  <2>2. CASE f = "OTHER"
    <3>1. ServerFrameEffect(cs, c, f) = [cs EXCEPT ![c] = r]
      BY <2>2 DEF ServerFrameEffect
    <3> HIDE DEF r
    <3> QED BY <1>2, <3>1 DEF SameSocks
  <2>3. CASE f \in {"PIPE", "IGNORED"}
    BY <2>3 DEF ServerFrameEffect, SameSocks
  <2> QED BY <1>4, <2>1, <2>2, <2>3, ConstantsAssumption
<1> QED BY <1>3, <1>4

-----------------------------------------------------------------------------
(* The steps that touch descriptors.                                       *)

\* Handles of records are given up, and only those are closed.
LEMMA FewerSocksHandles ==
  ASSUME HandleInv, FewerSocks(conn, conn'),
         batch' = batch, results' = results, worker' = worker \/ worker'.fd = 0,
         \A f \in openFds \ openFds' :
            \/ f = 0
            \/ \E e \in Conn : \/ f = conn[e].clientSock /\ conn'[e].clientSock = 0
                               \/ f = conn[e].serverSock /\ conn'[e].serverSock = 0
  PROVE  HandleInv'
<1>1. \A h \in Holders' : h[3] # 0 => h \in Holders
  BY HoldersElements, HoldersElementsNext DEF FewerSocks
<1>2. ASSUME NEW f \in openFds \ openFds', f # 0 PROVE \E g \in Holders \ Holders' : g[3] = f
  <2>1. PICK e \in Conn : \/ f = conn[e].clientSock /\ conn'[e].clientSock = 0
                          \/ f = conn[e].serverSock /\ conn'[e].serverSock = 0
    BY <1>2
  <2>2. CASE f = conn[e].clientSock /\ conn'[e].clientSock = 0
    <3>1. <<"client", e, f>> \in Holders
      BY <2>2, HoldersElements
    <3>2. <<"client", e, f>> \notin Holders'
      BY <1>2, <2>2, HoldersElementsNext
    <3> QED BY <3>1, <3>2
  <2>3. CASE f = conn[e].serverSock /\ conn'[e].serverSock = 0
    <3>1. <<"server", e, f>> \in Holders
      BY <2>3, HoldersElements
    <3>2. <<"server", e, f>> \notin Holders'
      BY <1>2, <2>3, HoldersElementsNext
    <3> QED BY <3>1, <3>2
  <2> QED BY <2>1, <2>2, <2>3
<1> QED BY <1>1, <1>2, HandlesKept

\* Nothing is given up.
LEMMA SameSocksHandles ==
  ASSUME HandleInv, SameSocks(conn, conn'), openFds' = openFds,
         batch' = batch, results' = results, worker' = worker \/ worker'.fd = 0
  PROVE  HandleInv'
<1>1. FewerSocks(conn, conn')
  BY DEF SameSocks, FewerSocks
<1> QED BY <1>1, FewerSocksHandles

\* XGRemoveNotActive closes what the record it clears refers to.
LEMMA RemoveHandles ==
  ASSUME TypeOK, HandleInv, XGRemoveNotActive
  PROVE  HandleInv'
<1> DEFINE c == list[cur]
<1>1. c \in Conn /\ batch' = batch /\ results' = results /\ worker' = worker
  BY DEF XGRemoveNotActive, TypeOK, taskVars
<1>2. CASE conn[c].active
  <2>1. conn' = conn /\ openFds' = openFds
    BY <1>2 DEF XGRemoveNotActive
  <2> QED BY <1>1, <2>1, SameSocksHandles DEF SameSocks
<1>3. CASE ~conn[c].active
  <2>1. /\ conn' = [conn EXCEPT ![c] = Zeroed]
        /\ openFds' = openFds \ {conn[c].clientSock, conn[c].serverSock}
    BY <1>3 DEF XGRemoveNotActive
  <2> HIDE DEF c
  <2>2. /\ conn'[c].clientSock = 0 /\ conn'[c].serverSock = 0
        /\ \A e \in Conn \ {c} : conn'[e] = conn[e]
    BY <1>1, <2>1 DEF TypeOK, Zeroed
  <2>3. FewerSocks(conn, conn')
    BY <2>2 DEF FewerSocks
  <2> QED BY <1>1, <2>1, <2>2, <2>3, FewerSocksHandles
<1> QED BY <1>2, <1>3

\* The parsers and the routing leave the handles alone.
LEMMA ProtocolHandles ==
  ASSUME TypeOK, HandleInv, XGProtocol
  PROVE  HandleInv'
<1> DEFINE c == list[cur]
           cs == XGProtocolClient(conn, c)
           c0 == [conn EXCEPT ![c].clientRx = Tail(@)]
           f == NextFrame(conn[c].clientRx)
           s0 == [cs EXCEPT ![c].serverRx = Tail(@)]
           g == NextFrame(cs[c].serverRx)
<1>0. c \in Conn /\ conn \in [Conn -> ConnectState] /\ peer[c] \in DeviceId
  <2>0. cur <= Len(list)
    BY Zenon DEF XGProtocol
  <2>1. c \in Conn
    BY <2>0 DEF TypeOK
  <2> HIDE DEF c
  <2> QED BY <2>1 DEF TypeOK
<1>1. /\ conn' = XGProtocolServer(cs, c)
      /\ batch' = batch /\ results' = results /\ worker' = worker /\ openFds' = openFds
  BY DEF XGProtocol, taskVars
<1> HIDE DEF c
<1>2. cs \in [Conn -> ConnectState]
  BY <1>0, ProtocolRecords
<1>3. SameSocks(conn, cs)
  <2>1. CASE conn[c].clientRx = <<>>
    BY <2>1 DEF XGProtocolClient, SameSocks
  <2>2. CASE conn[c].clientRx # <<>>
    <3>1. f \in ClientFrames /\ c0 \in [Conn -> ConnectState]
      BY <1>0, <2>2, ParserType
    <3>2. cs = ClientFrameEffect(c0, c, f)
      BY <2>2 DEF XGProtocolClient
    <3>3. SameSocks(conn, c0)
      BY <1>0 DEF SameSocks, ConnectState
    <3> HIDE DEF cs, c0, f
    <3>4. SameSocks(c0, cs)
      BY <1>0, <3>1, <3>2, FrameSocks
    <3> QED BY <3>3, <3>4 DEF SameSocks
  <2> QED BY <2>1, <2>2
<1>4. SameSocks(cs, conn')
  <2>1. CASE cs[c].serverRx = <<>>
    BY <1>1, <2>1 DEF XGProtocolServer, SameSocks
  <2>2. CASE cs[c].serverRx # <<>>
    <3> HIDE DEF cs
    <3>1. g \in ServerFrames /\ s0 \in [Conn -> ConnectState]
      BY <1>0, <1>2, <2>2, ParserType
    <3>2. conn' = ServerFrameEffect(s0, c, g)
      BY <1>1, <2>2 DEF XGProtocolServer
    <3>3. SameSocks(cs, s0)
      BY <1>0, <1>2 DEF SameSocks, ConnectState
    <3> HIDE DEF s0, g
    <3>4. SameSocks(s0, conn')
      BY <1>0, <3>1, <3>2, FrameSocks
    <3> QED BY <3>3, <3>4 DEF SameSocks
  <2> QED BY <2>1, <2>2
<1>5. SameSocks(conn, conn')
  BY <1>3, <1>4 DEF SameSocks
<1> QED BY <1>1, <1>5, SameSocksHandles

\* XGTimeout closes the cloud sockets it takes out of the records.
LEMMA TimeoutHandles ==
  ASSUME TypeOK, HandleInv, XGTimeout
  PROVE  HandleInv'
<1>1. PICK S \in SUBSET Listed, T \in SUBSET Listed :
        LET dropped == {c \in S : conn[c].server = "E_SER_WAIT_LOGIN_RESULT"
                                  /\ conn[c].serverSock > 0}
        IN /\ openFds' = openFds \ {conn[c].serverSock : c \in dropped}
           /\ conn' = [c \in Conn |->
                [conn[c] EXCEPT !.active = @ /\ c \notin T,
                                !.server = IF c \in dropped THEN "E_SER_WAIT_CONECT" ELSE @,
                                !.serverSock = IF c \in dropped THEN 0 ELSE @]]
  BY DEF XGTimeout
<1> DEFINE dropped == {c \in S : conn[c].server = "E_SER_WAIT_LOGIN_RESULT"
                                 /\ conn[c].serverSock > 0}
<1>2. dropped \subseteq Conn
  BY DEF Listed, TypeOK
<1>3. openFds' = openFds \ {conn[c].serverSock : c \in dropped}
  BY <1>1
<1>4. \A e \in Conn :
        conn'[e] = [conn[e] EXCEPT !.active = @ /\ e \notin T,
                                   !.server = IF e \in dropped THEN "E_SER_WAIT_CONECT" ELSE @,
                                   !.serverSock = IF e \in dropped THEN 0 ELSE @]
  BY <1>1
<1> HIDE DEF dropped
<1>5. ASSUME NEW e \in Conn
      PROVE  /\ conn'[e].clientSock = conn[e].clientSock
             /\ conn'[e].serverSock = IF e \in dropped THEN 0 ELSE conn[e].serverSock
  <2>1. conn[e] \in ConnectState
    BY DEF TypeOK
  <2>2. conn'[e] = [conn[e] EXCEPT !.active = @ /\ e \notin T,
                                   !.server = IF e \in dropped THEN "E_SER_WAIT_CONECT" ELSE @,
                                   !.serverSock = IF e \in dropped THEN 0 ELSE @]
    BY <1>4
  <2> QED BY <2>1, <2>2 DEF ConnectState
<1>6. FewerSocks(conn, conn')
  BY <1>5 DEF FewerSocks
<1>7. batch' = batch /\ results' = results /\ worker' = worker
  BY DEF XGTimeout, taskVars
<1>8. \A f \in openFds \ openFds' : \E e \in Conn : f = conn[e].serverSock /\ conn'[e].serverSock = 0
  BY <1>2, <1>3, <1>5
<1> QED BY <1>6, <1>7, <1>8, FewerSocksHandles

\* What the two recv() do to the handles of their record.
LEMMA RecvSocks ==
  ASSUME NEW r \in ConnectState, NEW room \in BOOLEAN
  PROVE  /\ \A x \in XGRecvConnectClient(r, room) :
              /\ x.r.serverSock = r.serverSock
              /\ \/ x.closed = {} /\ x.r.clientSock = r.clientSock
                 \/ x.closed = {r.clientSock} /\ x.r.clientSock = 0
         /\ \A x \in XGRecvConnectServer(r, room) :
              /\ x.r.clientSock = r.clientSock
              /\ \/ x.closed = {} /\ x.r.serverSock = r.serverSock
                 \/ x.closed = {r.serverSock} /\ x.r.serverSock = 0
<1>1. ASSUME NEW x \in XGRecvConnectClient(r, room)
      PROVE  /\ x.r.serverSock = r.serverSock
             /\ \/ x.closed = {} /\ x.r.clientSock = r.clientSock
                \/ x.closed = {r.clientSock} /\ x.r.clientSock = 0
  <2>1. \/ x.r = [r EXCEPT !.active = FALSE, !.clientSock = 0] /\ x.closed = {r.clientSock}
        \/ x.closed = {} /\ \E f \in ClientFrames : x.r = [r EXCEPT !.clientRx = Append(@, f)]
    BY DEF XGRecvConnectClient
  <2> QED BY <2>1 DEF ConnectState
<1>2. ASSUME NEW x \in XGRecvConnectServer(r, room)
      PROVE  /\ x.r.clientSock = r.clientSock
             /\ \/ x.closed = {} /\ x.r.serverSock = r.serverSock
                \/ x.closed = {r.serverSock} /\ x.r.serverSock = 0
  <2>1. \/ x.r = [r EXCEPT !.server = "E_SER_WAIT_CONECT", !.serverSock = 0] /\ x.closed = {r.serverSock}
        \/ x.closed = {} /\ \E f \in ServerFrames : x.r = [r EXCEPT !.serverRx = Append(@, f)]
    BY DEF XGRecvConnectServer
  <2> QED BY <2>1 DEF ConnectState
<1> QED BY <1>1, <1>2

LEMMA RecvHandles ==
  ASSUME TypeOK, HandleInv, Recv
  PROVE  HandleInv'
<1> DEFINE c == list[cur]
           X == {[r |-> conn[c], closed |-> {}]} \cup
                (IF c \in polled THEN XGRecvConnectClient(conn[c], Room(c)) ELSE {})
           Y(x) == {[r |-> x.r, closed |-> {}]} \cup
                (IF c \in polled /\ conn[c].serverSock > 0
                 THEN XGRecvConnectServer(x.r, Room(c)) ELSE {})
<1>0. c \in Conn /\ conn \in [Conn -> ConnectState]
  <2>1. cur <= Len(list)
    BY Zenon DEF Recv
  <2> QED BY <2>1 DEF TypeOK
<1>1. PICK x \in X : \E y \in Y(x) :
        conn' = [conn EXCEPT ![c] = y.r] /\ openFds' = openFds \ (x.closed \cup y.closed)
  BY DEF Recv
<1>2. PICK y \in Y(x) :
        conn' = [conn EXCEPT ![c] = y.r] /\ openFds' = openFds \ (x.closed \cup y.closed)
  BY <1>1
<1>3. Room(c) \in BOOLEAN
  BY DEF Room
<1> HIDE DEF c
<1>4. /\ x.r \in ConnectState /\ x.r.serverSock = conn[c].serverSock
      /\ \/ x.closed = {} /\ x.r.clientSock = conn[c].clientSock
         \/ x.closed = {conn[c].clientSock} /\ x.r.clientSock = 0
  BY <1>0, <1>1, <1>3, RecvOutcomes, RecvSocks
<1>5. /\ y.r.clientSock = x.r.clientSock
      /\ \/ y.closed = {} /\ y.r.serverSock = x.r.serverSock
         \/ y.closed = {x.r.serverSock} /\ y.r.serverSock = 0
  BY <1>2, <1>3, <1>4, RecvSocks
<1>6. conn'[c] = y.r /\ \A e \in Conn \ {c} : conn'[e] = conn[e]
  BY <1>0, <1>2
<1>7. FewerSocks(conn, conn')
  BY <1>4, <1>5, <1>6 DEF FewerSocks
<1>8. batch' = batch /\ results' = results /\ worker' = worker
  BY Zenon DEF Recv, taskVars
<1>9. \A f \in openFds \ openFds' :
         \/ f = conn[c].clientSock /\ conn'[c].clientSock = 0
         \/ f = conn[c].serverSock /\ conn'[c].serverSock = 0
  BY <1>2, <1>4, <1>5, <1>6
<1> QED BY <1>0, <1>7, <1>8, <1>9, FewerSocksHandles

\* Routing, starting tasks, building the fd_sets and sending use the handles as they are.
LEMMA UsingHandles ==
  ASSUME TypeOK, HandleInv, XGPSendQueeu \/ XGConnectTask \/ FdSet \/ XGConnectSend
  PROVE  HandleInv'
<1>0. \A e \in Conn : conn[e] \in ConnectState
  BY DEF TypeOK
<1>1. CASE XGPSendQueeu
  <2> DEFINE R(c) == Routed(clientQ, c, conn[c].client = "E_CLI_LOGINED")
             T(c) == Routed(cloudQ, c, conn[c].server = "E_SER_LOGINED")
             rec(c) == [conn[c] EXCEPT !.clientOut = @ \o R(c), !.serverOut = @ \o T(c)]
  <2>1. conn' = [c \in Conn |-> rec(c)] \/ conn' = conn
    BY <1>1 DEF XGPSendQueeu
  <2> HIDE DEF R, T
  <2>2. \A c \in Conn : rec(c).clientSock = conn[c].clientSock /\ rec(c).serverSock = conn[c].serverSock
    BY <1>0 DEF ConnectState
  <2> HIDE DEF rec
  <2>3. SameSocks(conn, conn')
    BY <2>1, <2>2 DEF SameSocks
  <2> QED BY <1>1, <2>3, SameSocksHandles DEF XGPSendQueeu, taskVars
<1>2. CASE XGConnectTask
  <2>1. \/ conn' = conn
        \/ conn' = [conn EXCEPT ![list[cur]].server = "E_SER_CONNECTING", ![list[cur]].serverOut = <<>>]
    BY <1>2 DEF XGConnectTask
  <2>2. ASSUME NEW e \in Conn
        PROVE  conn'[e].clientSock = conn[e].clientSock /\ conn'[e].serverSock = conn[e].serverSock
    <3> DEFINE r == [conn[e] EXCEPT !.server = "E_SER_CONNECTING", !.serverOut = <<>>]
    <3>1. r.clientSock = conn[e].clientSock /\ r.serverSock = conn[e].serverSock
      BY <1>0 DEF ConnectState
    <3>2. conn'[e] = conn[e] \/ conn'[e] = r
      BY <2>1 DEF TypeOK
    <3> HIDE DEF r
    <3> QED BY <3>1, <3>2
  <2>3. SameSocks(conn, conn')
    BY <2>2 DEF SameSocks
  <2> QED BY <1>2, <2>3, SameSocksHandles DEF XGConnectTask, taskVars
<1>3. CASE FdSet
  <2>1. SameSocks(conn, conn')
    BY <1>0, <1>3 DEF FdSet, SameSocks, ConnectState
  <2> QED BY <1>3, <2>1, SameSocksHandles DEF FdSet, taskVars
<1>4. CASE XGConnectSend
  <2>1. SameSocks(conn, conn')
    BY <1>0, <1>4 DEF XGConnectSend, SameSocks, ConnectState
  <2> QED BY <1>4, <2>1, SameSocksHandles DEF XGConnectSend, taskVars
<1> QED BY <1>1, <1>2, <1>3, <1>4

\* Descriptor 0, which accept() and socket() may return, is held by nobody.
LEMMA ZeroOpened ==
  ASSUME HandleInv, openFds' = openFds \cup {0}, \A h \in Holders' : h[3] # 0 => h \in Holders
  PROVE  HandleInv'
BY DEF HandleInv

\* accept() gives the new record a descriptor that was closed.
LEMMA AcceptHandles ==
  ASSUME TypeOK, HandleInv, XGAcceptConnect
  PROVE  HandleInv'
<1>1. batch' = batch /\ results' = results /\ worker' = worker
  BY DEF XGAcceptConnect, taskVars
<1>2. CASE UNCHANGED <<list, conn, peer, openFds>>
  BY <1>1, <1>2, SameSocksHandles DEF SameSocks
<1>3. CASE NewFd = 0 /\ openFds' = openFds \cup {0} /\ UNCHANGED <<list, conn, peer>>
  <2>1. Holders' = Holders
    BY <1>1, <1>3 DEF Holders
  <2> QED BY <1>3, <2>1, ZeroOpened
<1>4. ASSUME NewFd > 0, openFds' = openFds \cup {NewFd}, NEW c \in Conn \ Listed,
             conn' = [conn EXCEPT ![c] = [Zeroed EXCEPT !.active = TRUE, !.clientSock = NewFd]]
      PROVE  HandleInv'
  <2> DEFINE r == [Zeroed EXCEPT !.active = TRUE, !.clientSock = NewFd]
             n == <<"client", c, NewFd>>
  <2>1. r.clientSock = NewFd /\ r.serverSock = 0
    BY DEF Zeroed
  <2>2. conn' = [conn EXCEPT ![c] = r]
    BY <1>4
  <2> HIDE DEF r
  <2>3. /\ conn'[c].clientSock = NewFd /\ conn'[c].serverSock = 0
        /\ \A e \in Conn \ {c} : conn'[e] = conn[e]
    BY <2>1, <2>2 DEF TypeOK
  <2>4. \A h \in Holders' : h[3] # 0 => h \in Holders \/ h = n
    BY <1>1, <2>3, HoldersElements, HoldersElementsNext
  <2>5. NewFd \notin openFds
    BY <1>4, NewFdClosed
  <2>6. n[3] = NewFd
    OBVIOUS
  <2> HIDE DEF n
  <2> QED BY <1>4, <2>4, <2>5, <2>6, HandleOpened
<1> QED BY <1>2, <1>3, <1>4 DEF XGAcceptConnect

\* The core thread takes the results: the descriptors move from one list to the other.
LEMMA TakeHandles ==
  ASSUME TypeOK, HandleInv, TakeResults
  PROVE  HandleInv'
<1>0. batch = <<>> /\ conn' = conn /\ worker' = worker /\ openFds' = openFds
  BY DEF TakeResults
<1>1. CASE UNCHANGED <<batch, results>>
  BY <1>0, <1>1, SameSocksHandles DEF SameSocks
<1>2. CASE batch' = results /\ results' = <<>>
  <2> DEFINE m == [h \in Holders' |-> IF h[1] = "batch" THEN <<"result", h[2], h[3]>> ELSE h]
  <2>1. \A h \in Holders' :
          \/ h[1] # "batch" /\ h[1] # "result" /\ h \in Holders /\ m[h] = h
          \/ h[1] = "batch" /\ m[h] \in Holders /\ \E i \in 1..Len(results) :
               h = <<"batch", i, results[i].fd>> /\ m[h] = <<"result", i, results[i].fd>>
    <3> SUFFICES ASSUME NEW h \in Holders'
                 PROVE  \/ h[1] # "batch" /\ h[1] # "result" /\ h \in Holders /\ m[h] = h
                        \/ h[1] = "batch" /\ m[h] \in Holders /\ \E i \in 1..Len(results) :
                             h = <<"batch", i, results[i].fd>> /\ m[h] = <<"result", i, results[i].fd>>
      OBVIOUS
    <3>1. m[h] = IF h[1] = "batch" THEN <<"result", h[2], h[3]>> ELSE h
      OBVIOUS
    <3> HIDE DEF m
    <3>2. ASSUME NEW i \in 1..Len(results), h = <<"batch", i, results[i].fd>>
          PROVE  h[1] = "batch" /\ m[h] \in Holders /\ \E j \in 1..Len(results) :
                   h = <<"batch", j, results[j].fd>> /\ m[h] = <<"result", j, results[j].fd>>
      <4>1. h[1] = "batch" /\ m[h] = <<"result", i, results[i].fd>>
        BY <3>1, <3>2
      <4> QED BY <3>2, <4>1, HoldersElements
    <3>3. \/ \E c \in Conn : h = <<"client", c, conn[c].clientSock>>
          \/ \E c \in Conn : h = <<"server", c, conn[c].serverSock>>
          \/ \E i \in 1..Len(results) : h = <<"batch", i, results[i].fd>>
          \/ h = <<"worker", 0, worker.fd>>
      <4>1. ~ \E i \in 1..Len(results') : TRUE
        BY <1>2
      <4> QED BY <1>0, <1>2, <4>1, HoldersElementsNext
    <3>4. CASE \/ \E c \in Conn : h = <<"client", c, conn[c].clientSock>>
               \/ \E c \in Conn : h = <<"server", c, conn[c].serverSock>>
               \/ h = <<"worker", 0, worker.fd>>
      <4>1. h[1] # "batch" /\ h[1] # "result" /\ h \in Holders
        BY <3>4, HoldersElements
      <4> QED BY <3>1, <4>1
    <3> QED BY <3>2, <3>3, <3>4
  <2> HIDE DEF m
  <2>2. \A h \in Holders' : m[h] \in Holders /\ m[h][3] = h[3]
    BY <2>1
  <2>3. \A g, h \in Holders' : m[g] = m[h] => g = h
    <3> SUFFICES ASSUME NEW g \in Holders', NEW h \in Holders', m[g] = m[h] PROVE g = h
      OBVIOUS
    <3>1. CASE g[1] = "batch" /\ h[1] = "batch"
      BY <2>1, <3>1
    <3>2. CASE g[1] = "batch" /\ h[1] # "batch"
      <4>1. m[g][1] = "result" /\ m[h][1] # "result"
        BY <2>1, <3>2
      <4> QED BY <4>1
    <3>3. CASE g[1] # "batch" /\ h[1] = "batch"
      <4>1. m[g][1] # "result" /\ m[h][1] = "result"
        BY <2>1, <3>3
      <4> QED BY <4>1
    <3>4. CASE g[1] # "batch" /\ h[1] # "batch"
      BY <2>1, <3>4
    <3> QED BY <3>1, <3>2, <3>3, <3>4
  <2> QED BY <1>0, <2>2, <2>3, HandlesMoved
<1> QED BY <1>1, <1>2 DEF TakeResults

\* A result is applied: its descriptor goes to the record found by id, or is closed.
LEMMA ApplyHandles ==
  ASSUME TypeOK, HandleInv, NEW sent \in BOOLEAN, ApplyResult(sent)
  PROVE  HandleInv'
<1> DEFINE t == Head(batch)
           c == XGGetConnectByDeviceid(t.id)
           use == Found(t.id) /\ t.fd > 0 /\ sent
           first == <<"batch", 1, t.fd>>
           n == <<"server", c, t.fd>>
           m == [h \in Holders' |-> IF h[1] = "batch" THEN <<"batch", h[2] + 1, h[3]>>
                                    ELSE IF use /\ h = n THEN first ELSE h]
<1>0. /\ batch # <<>> /\ batch' = Tail(batch) /\ results' = results /\ worker' = worker
      /\ conn' = IF ~Found(t.id) THEN conn
                 ELSE IF use THEN [conn EXCEPT ![c].server = "E_SER_WAIT_LOGIN_RESULT",
                                               ![c].serverSock = t.fd]
                 ELSE [conn EXCEPT ![c].server = "E_SER_WAIT_CONECT"]
      /\ openFds' = IF t.fd > 0 /\ ~use THEN openFds \ {t.fd} ELSE openFds
  BY DEF ApplyResult, taskVars
<1>1. /\ Len(batch) \in Nat \ {0} /\ batch[1] = t
      /\ Len(batch') = Len(batch) - 1 /\ \A i \in 1..Len(batch') : batch'[i] = batch[i + 1]
  BY <1>0 DEF TypeOK
<1> HIDE DEF t, c
<1>2. first \in Holders
  BY <1>1, HoldersElements
<1>3. ASSUME NEW e \in Conn
      PROVE  /\ conn'[e].clientSock = conn[e].clientSock
             /\ \/ conn'[e].serverSock = conn[e].serverSock
                \/ use /\ e = c /\ conn'[e].serverSock = t.fd
  <2> DEFINE r == [conn[e] EXCEPT !.server = "E_SER_WAIT_LOGIN_RESULT", !.serverSock = t.fd]
             q == [conn[e] EXCEPT !.server = "E_SER_WAIT_CONECT"]
  <2>1. conn[e] \in ConnectState
    BY DEF TypeOK
  <2>2. /\ r.clientSock = conn[e].clientSock /\ r.serverSock = t.fd
        /\ q.clientSock = conn[e].clientSock /\ q.serverSock = conn[e].serverSock
    BY <2>1 DEF ConnectState
  <2>3. conn'[e] = conn[e] \/ conn'[e] = q \/ (use /\ e = c /\ conn'[e] = r)
    BY <1>0 DEF TypeOK
  <2> HIDE DEF r, q
  <2> QED BY <2>2, <2>3
<1>4. ASSUME NEW h \in Holders'
      PROVE  \/ h[1] = "batch" /\ \E i \in 1..Len(batch') :
                  h = <<"batch", i, batch[i + 1].fd>> /\ m[h] = <<"batch", i + 1, batch[i + 1].fd>>
             \/ h[1] # "batch" /\ use /\ h = n /\ m[h] = first
             \/ h[1] # "batch" /\ ~(use /\ h = n) /\ h \in Holders /\ m[h] = h
  <2>1. m[h] = IF h[1] = "batch" THEN <<"batch", h[2] + 1, h[3]>>
               ELSE IF use /\ h = n THEN first ELSE h
    OBVIOUS
  <2> HIDE DEF m
  <2>2. CASE \E i \in 1..Len(batch') : h = <<"batch", i, batch'[i].fd>>
    <3>1. PICK i \in 1..Len(batch') : h = <<"batch", i, batch[i + 1].fd>>
      BY <1>1, <2>2
    <3>2. h[1] = "batch" /\ m[h] = <<"batch", i + 1, batch[i + 1].fd>>
      BY <2>1, <3>1
    <3> QED BY <3>1, <3>2
  <2>3. CASE \/ \E e \in Conn : h = <<"client", e, conn[e].clientSock>>
             \/ \E e \in Conn : h = <<"server", e, conn[e].serverSock>>
             \/ \E i \in 1..Len(results) : h = <<"result", i, results[i].fd>>
             \/ h = <<"worker", 0, worker.fd>>
    <3>1. h[1] # "batch" /\ h \in Holders
      BY <2>3, HoldersElements
    <3>2. use /\ h = n => m[h] = first
      BY <2>1, <3>1
    <3>3. ~(use /\ h = n) => m[h] = h
      BY <2>1, <3>1
    <3> HIDE DEF first, n, use
    <3> QED BY <3>1, <3>2, <3>3
  <2>4. CASE use /\ h = n
    <3>1. h[1] # "batch"
      BY <2>4
    <3> HIDE DEF first, n, use
    <3> QED BY <2>1, <2>4, <3>1
  <2>5. \/ \E e \in Conn : h = <<"client", e, conn[e].clientSock>>
        \/ \E e \in Conn : h = <<"server", e, conn[e].serverSock>>
        \/ use /\ h = n
        \/ \E i \in 1..Len(batch') : h = <<"batch", i, batch'[i].fd>>
        \/ \E i \in 1..Len(results) : h = <<"result", i, results[i].fd>>
        \/ h = <<"worker", 0, worker.fd>>
    <3> HIDE DEF use
    <3>1. results' = results /\ worker' = worker
      BY <1>0
    <3>2. ASSUME NEW e \in Conn, h = <<"server", e, conn'[e].serverSock>>
          PROVE  \/ h = <<"server", e, conn[e].serverSock>>
                 \/ use /\ h = n
      BY <1>3, <3>2
    <3>3. ASSUME NEW e \in Conn, h = <<"client", e, conn'[e].clientSock>>
          PROVE  h = <<"client", e, conn[e].clientSock>>
      BY <1>3, <3>3
    <3> HIDE DEF n
    <3> QED BY <3>1, <3>2, <3>3, HoldersElementsNext
  <2> HIDE DEF first, n, use
  <2> QED BY <2>2, <2>3, <2>4, <2>5
<1> HIDE DEF m, use
<1>5. ASSUME NEW h \in Holders' PROVE m[h] \in Holders /\ m[h][3] = h[3]
  <2>1. ASSUME NEW i \in 1..Len(batch'),
               h = <<"batch", i, batch[i + 1].fd>>, m[h] = <<"batch", i + 1, batch[i + 1].fd>>
        PROVE  m[h] \in Holders /\ m[h][3] = h[3]
    <3>1. i + 1 \in 1..Len(batch)
      BY <1>1
    <3> QED BY <2>1, <3>1, HoldersElements
  <2>2. CASE h = n /\ m[h] = first
    BY <1>2, <2>2
  <2> QED BY <1>4, <2>1, <2>2
<1>6. ASSUME NEW g \in Holders', NEW h \in Holders', h[3] # 0, m[g] = m[h] PROVE g = h
  <2>1. ASSUME NEW x \in Holders', x[1] = "batch"
        PROVE  /\ m[x][1] = "batch" /\ m[x] # first
               /\ x = <<"batch", m[x][2] - 1, m[x][3]>>
    <3>1. PICK i \in 1..Len(batch') :
            x = <<"batch", i, batch[i + 1].fd>> /\ m[x] = <<"batch", i + 1, batch[i + 1].fd>>
      BY <1>4, <2>1
    <3> QED BY <3>1
  <2>2. ASSUME NEW x \in Holders', x[1] # "batch"
        PROVE  \/ x = n /\ m[x] = first
               \/ m[x] = x /\ m[x] # first
    BY <1>4, <2>2
  <2>3. CASE g[1] = "batch" /\ h[1] = "batch"
    BY <1>6, <2>1, <2>3
  <2>4. CASE g[1] # "batch" /\ h[1] # "batch"
    BY <1>6, <2>2, <2>4
  <2>5. CASE g[1] = "batch" /\ h[1] # "batch"
    BY <1>6, <2>1, <2>2, <2>5
  <2>6. CASE g[1] # "batch" /\ h[1] = "batch"
    BY <1>6, <2>1, <2>2, <2>6
  <2> QED BY <2>3, <2>4, <2>5, <2>6
<1>7. ASSUME NEW f \in openFds \ openFds'
      PROVE  \E g \in Holders : g[3] = f /\ \A h \in Holders' : m[h] # g
  <2>1. f = t.fd /\ ~use
    BY <1>0
  <2>2. \A h \in Holders' : m[h] # first
    <3> SUFFICES ASSUME NEW h \in Holders', m[h] = first PROVE FALSE
      OBVIOUS
    <3> QED BY <1>4, <2>1
  <2> QED BY <1>2, <2>1, <2>2
<1> QED BY <1>5, <1>6, <1>7, HandlesMoved

-----------------------------------------------------------------------------
(* The connect thread, and the whole.                                      *)

LEMMA WorkerHandles ==
  ASSUME TypeOK, HandleInv, ConnectThread
  PROVE  HandleInv'
<1>0. conn' = conn /\ batch' = batch
  BY DEF ConnectThread, TakeTask, CreateSocket, FinishConnect, coreVars
<1>1. CASE TakeTask
  BY <1>0, <1>1, SameSocksHandles DEF TakeTask, SameSocks
\* A result appended to the others, with what the thread held or with nothing.
<1>2. ASSUME NEW fd, PutResult(fd)
      PROVE  \A h : h \in Holders' <=>
               \/ \E c \in Conn : h = <<"client", c, conn[c].clientSock>>
               \/ \E c \in Conn : h = <<"server", c, conn[c].serverSock>>
               \/ \E i \in 1..Len(batch) : h = <<"batch", i, batch[i].fd>>
               \/ \E i \in 1..Len(results) : h = <<"result", i, results[i].fd>>
               \/ h = <<"result", Len(results) + 1, fd>>
               \/ h = <<"worker", 0, 0>>
  <2>1. /\ Len(results) \in Nat /\ Len(results') = Len(results) + 1
        /\ \A i \in 1..Len(results) : results'[i] = results[i]
        /\ results'[Len(results) + 1].fd = fd
        /\ worker'.fd = 0
    BY <1>2 DEF PutResult, TypeOK, Idle
  <2>2. \A i : i \in 1..Len(results') <=> i \in 1..Len(results) \/ i = Len(results) + 1
    BY <2>1
  <2>3. \A h : (\E i \in 1..Len(results') : h = <<"result", i, results'[i].fd>>)
               <=> \/ \E i \in 1..Len(results) : h = <<"result", i, results[i].fd>>
                   \/ h = <<"result", Len(results) + 1, fd>>
    BY <2>1, <2>2
  <2> QED BY <1>0, <2>1, <2>3, HoldersElementsNext
<1>3. ASSUME PutResult(0), openFds' \in {openFds, openFds \cup {0}, openFds \ {worker.fd}}
      PROVE  HandleInv'
  <2>1. \A h \in Holders' : h[3] # 0 => h \in Holders /\ h[1] # "worker"
    BY <1>2, <1>3, HoldersElements
  <2>2. CASE openFds' = openFds \cup {0}
    BY <2>1, <2>2, ZeroOpened
  <2>3. ASSUME openFds' \in {openFds, openFds \ {worker.fd}}, NEW f \in openFds \ openFds', f # 0
        PROVE  \E g \in Holders \ Holders' : g[3] = f
    <3> DEFINE g == <<"worker", 0, worker.fd>>
    <3>1. f = worker.fd /\ g \in Holders /\ g[3] = f /\ g[1] = "worker"
      BY <2>3, HoldersElements
    <3>2. g \notin Holders'
      BY <2>1, <2>3, <3>1
    <3> QED BY <3>1, <3>2
  <2> QED BY <1>3, <2>1, <2>2, <2>3, HandlesKept
<1>4. ASSUME PutResult(worker.fd), openFds' = openFds PROVE HandleInv'
  <2> DEFINE n == <<"result", Len(results) + 1, worker.fd>>
             w == <<"worker", 0, worker.fd>>
             m == [h \in Holders' |-> IF h = n THEN w ELSE h]
  <2>1. \A h \in Holders' : h[3] # 0 =>
          \/ h = n /\ m[h] = w
          \/ h # n /\ h[1] # "worker" /\ h \in Holders /\ m[h] = h
    <3>1. \A h \in Holders' : m[h] = IF h = n THEN w ELSE h
      OBVIOUS
    <3> HIDE DEF m
    <3>2. \A h \in Holders' : h[3] # 0 /\ h # n => h \in Holders /\ h[1] # "worker"
      BY <1>2, <1>4, HoldersElements
    <3> HIDE DEF n, w
    <3> QED BY <3>1, <3>2
  <2>2. w \in Holders /\ w[3] = n[3] /\ w[1] = "worker"
    BY HoldersElements
  <2> HIDE DEF m, n, w
  <2>3. \A h \in Holders' : h[3] # 0 => m[h] \in Holders /\ m[h][3] = h[3]
    BY <2>1, <2>2
  <2>4. \A g, h \in Holders' : g[3] # 0 /\ h[3] # 0 /\ m[g] = m[h] => g = h
    BY <2>1, <2>2
  <2> QED BY <1>4, <2>3, <2>4, HandlesMoved
<1>5. ASSUME NewFd > 0, openFds' = openFds \cup {NewFd}, results' = results,
             worker' = [worker EXCEPT !.phase = "connect", !.fd = NewFd]
      PROVE  HandleInv'
  <2> DEFINE n == <<"worker", 0, NewFd>>
  <2>1. worker'.fd = NewFd
    BY <1>5 DEF TypeOK, Worker, Idle
  <2>2. \A h \in Holders' : h \in Holders \/ h = n
    BY <1>0, <1>5, <2>1, HoldersElements, HoldersElementsNext
  <2>3. n[3] = NewFd /\ NewFd \notin openFds
    BY <1>5, NewFdClosed
  <2> HIDE DEF n
  <2> QED BY <1>5, <2>2, <2>3, HandleOpened
<1>6. CASE CreateSocket
  BY <1>3, <1>5, <1>6 DEF CreateSocket
<1>7. CASE FinishConnect
  BY <1>3, <1>4, <1>7 DEF FinishConnect
<1> QED BY <1>1, <1>6, <1>7 DEF ConnectThread

\* No holder of a descriptor above 0 after a start or a restart.
LEMMA HandleInit ==
  ASSUME NEW cs, cs = [c \in Conn |-> Zeroed]
  PROVE  \A c \in Conn : cs[c].clientSock = 0 /\ cs[c].serverSock = 0
BY DEF Zeroed

\* The inductive step, one lemma per stage.
LEMMA HandleStep ==
  ASSUME TypeOK, HandleInv, [Next]_vars
  PROVE  HandleInv'
<1>1. CASE AddTasks \/ XGRecvUdpData \/ LoopEnd \/ ApplicationThread \/ UNCHANGED vars
  <2>1. /\ conn' = conn /\ batch' = batch /\ results' = results /\ worker' = worker
        /\ openFds' = openFds
    BY <1>1 DEF AddTasks, XGRecvUdpData, LoopEnd, ApplicationThread, vars, coreVars, taskVars
  <2> QED BY <2>1, SameSocksHandles DEF SameSocks
<1>2. CASE Restart
  <2>1. conn' = [c \in Conn |-> Zeroed] /\ batch' = <<>> /\ results' = <<>> /\ worker'.fd = 0
    BY <1>2 DEF Restart, Idle
  <2>2. \A c \in Conn : conn'[c].clientSock = 0 /\ conn'[c].serverSock = 0
    BY <2>1, HandleInit
  <2>3. Len(batch') = 0 /\ Len(results') = 0
    BY <2>1
  <2>4. \A h \in Holders' : h[3] = 0
    BY <2>1, <2>2, <2>3, HoldersElementsNext
  <2> QED BY <2>4 DEF HandleInv
<1> QED
  BY <1>1, <1>2, RemoveHandles, ProtocolHandles, UsingHandles, TakeHandles, ApplyHandles,
     TimeoutHandles, AcceptHandles, RecvHandles, WorkerHandles
  DEF Next, CoreThread

\* A closed descriptor has no holder and an open one at most one.
LEMMA HandlesCounted == HandleInv => HandlesExclusive
<1> SUFFICES ASSUME HandleInv, NEW f \in Fd \ {0}
             PROVE  /\ Cardinality(HoldersOf(f)) <= 1
                    /\ HoldersOf(f) # {} => f \in openFds
  BY DEF HandlesExclusive
<1>1. \A h \in HoldersOf(f) : h \in Holders /\ h[3] = f /\ f # 0
  BY DEF HoldersOf
<1>2. HoldersOf(f) # {} => f \in openFds
  BY <1>1 DEF HandleInv
<1>3. ASSUME NEW h \in HoldersOf(f) PROVE HoldersOf(f) = {h}
  BY <1>1 DEF HandleInv
<1>4. Cardinality(HoldersOf(f)) <= 1
  <2>1. CASE HoldersOf(f) = {}
    <3>1. Cardinality(HoldersOf(f)) = 0
      BY <2>1, FS_EmptySet
    <3> QED BY <3>1
  <2>2. ASSUME NEW h \in HoldersOf(f) PROVE Cardinality(HoldersOf(f)) = 1
    <3>1. HoldersOf(f) = {h}
      BY <1>3
    <3> QED BY <3>1, FS_Singleton
  <2> QED BY <2>1, <2>2
<1> QED BY <1>2, <1>4

\* Whatever the threads, the timeouts and a late task result do, a descriptor kept in a
\* Connect record, in a task result or by the connect thread is open and held only once:
\* no close() hits a socket that somebody else still uses.
THEOREM HandlesNeverShared == Spec => []HandlesExclusive
<1>1. Init => HandleInv
  <2> SUFFICES ASSUME Init PROVE HandleInv
    OBVIOUS
  <2>1. \A c \in Conn : conn[c].clientSock = 0 /\ conn[c].serverSock = 0
    BY HandleInit DEF Init
  <2>2. Len(batch) = 0 /\ Len(results) = 0 /\ worker.fd = 0
    BY DEF Init, Idle
  <2>3. \A h \in Holders : h[3] = 0
    BY <2>1, <2>2, HoldersElements
  <2> QED BY <2>3 DEF HandleInv
<1>2. TypeOK /\ HandleInv /\ [Next]_vars => HandleInv'
  BY HandleStep
<1> QED BY <1>1, <1>2, TypeCorrect, HandlesCounted, PTL DEF Spec
=============================================================================
