---------------------------- MODULE XlinkProofs ----------------------------
(***************************************************************************)
(* Proofs about the xlink SDK.  Its connection to the cloud: the types of  *)
(* its variables, and that the byte both threads write tells the truth     *)
(* about the login.  Its sessions with the phone apps: that they stay      *)
(* sound, that a message is handled once and that replies reach who asked. *)
(***************************************************************************)
EXTENDS XlinkTcp, XlinkUdp, SequenceTheorems, WellFoundedInduction, TLAPS

Configs == [act : BOOLEAN, auth : BOOLEAN, domain : {"none"} \cup Redirects]
Flags == [{"isLogined", "is80Port", "is80Success", "isFirst"} -> BOOLEAN]

\* The byte of flags, the records of the two threads and of the line.
RecordsInv ==
  /\ tcpFlag \in Flags
  /\ DOMAIN tcp = {"pc", "fd", "flags", "dom"}
  /\ tcp.pc \in {"idle", "due", "connecting", "connected", "init"}
  /\ tcp.pc \in {"connecting", "connected"} => tcp.fd \in Fd
  /\ tcp.pc = "init" => tcp.flags \in Flags
  /\ DOMAIN udp = {"pc", "flags", "next"}
  /\ udp.pc \in {"loop", "closed", "clear"} /\ udp.next \in {"none", "WAIT_CONNECT"}
  /\ udp.pc = "clear" => udp.flags \in Flags
  /\ DOMAIN line = {"req", "ans", "tunnel", "ok", "port", "stray"}
  /\ line.req \in Requests \cup {"none"} /\ line.ans \in Answers \cup {"none"}
  /\ line.tunnel \in BOOLEAN /\ line.ok \in BOOLEAN /\ line.stray \in BOOLEAN
  /\ line.ans \in {"good", "bad"} => line.ans \in Redirects

\* What is stored, and what is counted: a ping only on the way to WAIT_PING; a redirect address that
\* is still there has loops left.
NumbersInv ==
  /\ tcp_fd \in Fd \cup {0} /\ open \subseteq Fd
  /\ work \in Works
  /\ ping \in 0..MaxPing + 1 /\ (work = "PING" => ping = 0)
  /\ config \in Configs
  /\ tries \in 0..MaxDomainTry + 1 /\ (config.domain # "none" => tries <= MaxDomainTry)
  /\ port \in Ports
  /\ upsets \in 0..MaxUpsets

TypeInv == RecordsInv /\ NumbersInv

\* The connecting thread holds no connection until it publishes the one it made.
ConnectingInv == tcp.pc \in {"due", "connecting"} => tcp_fd = 0

\* What only a server that accepted the login sends.
AcceptedInv == line.ans \in {"connectOk", "pipe", "pipe2"} => line.ok

LoginInv == TypeInv /\ ConnectingInv /\ AcceptedInv /\ LoginTruthful
-----------------------------------------------------------------------------
(* The types                                                               *)

LEMMA TypeInit == Init => TypeInv
<1> SUFFICES ASSUME Init PROVE TypeInv
  OBVIOUS
<1>1. RecordsInv
  BY DEF Init, RecordsInv, Flags, ClearedFlags, IdleTcp, IdleUdp, NoLine
<1>2. NumbersInv
  BY BoundAssumption DEF Init, NumbersInv, Configs, Works, Ports
<1> QED BY <1>1, <1>2 DEF TypeInv

\* The activation and the key may change without the address.
LEMMA AddressKept ==
  ASSUME config \in Configs, XlinkTcpWorkConnect \/ xlink_process_tcp_active \/ XlinkReSetSDK
  PROVE  config' \in Configs /\ config'.domain = config.domain
<1>1. config' = config \/ config' = [config EXCEPT !.act = FALSE]
      \/ config' = [config EXCEPT !.act = TRUE, !.auth = (line.ans = "active")]
  BY Zenon DEF XlinkTcpWorkConnect, xlink_process_tcp_active, XlinkReSetSDK
<1>2. config' \in Configs
  BY <1>1 DEF Configs
<1>3. config'.domain = config.domain
  BY <1>1 DEF Configs
<1> QED BY <1>2, <1>3

\* What OpenSocket does to the byte of flags and to its own thread.
LEMMA SocketOpened ==
  ASSUME OpenSocket, tcpFlag \in Flags, DOMAIN tcp = {"pc", "fd", "flags", "dom"}
  PROVE  /\ tcpFlag' \in Flags
         /\ DOMAIN tcp' = {"pc", "fd", "flags", "dom"} /\ tcp'.pc = "connecting" /\ tcp'.fd \in Fd
         /\ udp' = udp /\ line' = line
<1>1. tcpFlag' \in Flags
  <2>1. tcpFlag' = [tcpFlag EXCEPT !.isLogined = FALSE, !.is80Port = (port' = 80), !.is80Success = (port' # 80)]
    BY DEF OpenSocket
  <2> QED BY <2>1 DEF Flags
<1>2. DOMAIN tcp' = {"pc", "fd", "flags", "dom"} /\ tcp'.pc = "connecting" /\ tcp'.fd \in Fd
  BY DEF OpenSocket
<1>3. udp' = udp /\ line' = line
  BY DEF OpenSocket
<1> QED BY <1>1, <1>2, <1>3

\* The server answers only what it may.
LEMMA ReplyType ==
  ASSUME NEW r \in Requests, NEW a \in Reply(r)
  PROVE  /\ a \in Answers \ {"pipe", "pipe2"}
         /\ a \in {"good", "bad"} => a \in Redirects
<1>1. CASE r \in {"http", "ping"}
  BY <1>1 DEF Reply, Answers
<1>2. CASE r = "activate"
  BY <1>2 DEF Reply, Answers
<1>3. CASE r = "connect"
  BY <1>3, RedirectAssumption DEF Reply, Answers
<1> QED BY <1>1, <1>2, <1>3 DEF Requests

LEMMA RecordsStep ==
  ASSUME TypeInv, [Next]_vars
  PROVE  RecordsInv'
<1>a. RecordsInv /\ tcp_fd \in Fd \cup {0}
  BY DEF TypeInv, NumbersInv
<1> USE <1>a DEF RecordsInv
<1>1. CASE xlink_net_loop_Domain_name
  <2>1. tcp' = tcp \/ \E dom : tcp' = [tcp EXCEPT !.pc = "due", !.dom = dom]
    BY <1>1, Zenon DEF xlink_net_loop_Domain_name
  <2>2. tcp_fd' = tcp_fd /\ tcpFlag' = tcpFlag /\ udp' = udp /\ line' = line
    BY <1>1 DEF xlink_net_loop_Domain_name
  <2>3. CASE tcp' = tcp
    BY <2>2, <2>3
  <2>4. CASE \E dom : tcp' = [tcp EXCEPT !.pc = "due", !.dom = dom]
    <3>1. DOMAIN tcp' = DOMAIN tcp /\ tcp'.pc = "due"
      BY <2>4
    <3> QED BY <2>2, <3>1
  <2> QED BY <2>1, <2>3, <2>4
<1>2. CASE OpenSocket
  BY <1>2, SocketOpened
<1>3. CASE xlink_tcp_connect_server
  BY <1>3 DEF xlink_tcp_connect_server, NoLine
<1>4. CASE tcp_Connect_server_init
  <2>1. CASE tcp_fd # 0
    BY <1>4, <2>1 DEF tcp_Connect_server_init
  <2>2. CASE tcp_fd = 0
    BY <1>4, <2>2 DEF tcp_Connect_server_init, IdleTcp
  <2> QED BY <2>1, <2>2
<1>5. CASE XlinkTcpInit
  <2>1. tcpFlag' \in Flags
    BY <1>5 DEF XlinkTcpInit, Flags
  <2> QED BY <1>5, <2>1 DEF XlinkTcpInit, IdleTcp
<1>6. CASE NotDue \/ xlinkGetHostByName \/ ConnectFails
  BY <1>6 DEF NotDue, xlinkGetHostByName, ConnectFails, IdleTcp
<1>c. ASSUME NEW next \in {"none", "WAIT_CONNECT"}, CloseThen(next), UNCHANGED <<tcpFlag, tcp>>
      PROVE  RecordsInv'
  BY <1>c DEF CloseThen, NoLine
<1>7. CASE UdpClosing
  <2>1. CASE CloseWork
    BY <2>1 DEF CloseWork
  <2>2. CASE CloseFlag
    <3>1. tcpFlag' \in Flags
      BY <2>2 DEF CloseFlag, Flags
    <3> QED BY <2>2, <3>1 DEF CloseFlag, IdleUdp
  <2> QED BY <1>7, <2>1, <2>2 DEF UdpClosing
<1>8. CASE UdpSend
  BY <1>8, <1>c DEF UdpSend, SendHttpConnect, XlinkTcpWorkActivation, XlinkTcpWorkConnect, XlinkTcpWorkPing, Send, Requests
<1>9. CASE UdpTimeout \/ XlinkReSetSDK
  BY <1>9, <1>c DEF UdpTimeout, WaitTimeout, PingTimeout, XlinkReSetSDK
<1>10. CASE UdpRecv
  <2>1. CASE RecvClose
    BY <2>1, <1>c DEF RecvClose
  <2>2. CASE tcp_http
    <3>1. tcpFlag' \in Flags
      BY <2>2 DEF tcp_http, Flags
    <3> QED BY <2>2, <3>1 DEF tcp_http, Took
  <2>3. CASE xlink_process_tcp_connect
    <3>1. CASE line.ans = "connectOk"
      <4>1. tcpFlag' = [tcpFlag EXCEPT !.isLogined = TRUE]
        BY <2>3, <3>1 DEF xlink_process_tcp_connect
      <4>2. tcpFlag' \in Flags
        BY <4>1 DEF Flags
      <4> QED BY <2>3, <3>1, <4>2 DEF xlink_process_tcp_connect, Took
    <3>2. CASE line.ans \in {"good", "bad"}
      BY <2>3, <3>2, <1>c DEF xlink_process_tcp_connect
    <3> QED BY <2>3, <3>1, <3>2 DEF xlink_process_tcp_connect
  <2>5. CASE xlink_process_tcp_active
    BY <2>5 DEF xlink_process_tcp_active, Took
  <2>4. CASE xlink_process_tcp_data \/ xlink_process_tcp_pipe \/ xlink_process_tcp_pipe2
    BY <2>4 DEF xlink_process_tcp_data, xlink_process_tcp_pipe, xlink_process_tcp_pipe2, Took
  <2> QED BY <1>10, <2>1, <2>2, <2>3, <2>4, <2>5 DEF UdpRecv
<1>11. CASE XlinkSendTcpPipe \/ XlinkSendTcpBroadcast
  BY <1>11 DEF XlinkSendTcpPipe, XlinkSendTcpBroadcast, AppData
<1>12. ASSUME NEW a \in Answers, Answer(a) PROVE RecordsInv'
  <2>1. a \in {"good", "bad"} => a \in Redirects
    BY <1>12, ReplyType DEF Answer
  <2> QED BY <1>12, <2>1 DEF Answer
<1>13. CASE Silence \/ Push \/ Hangup
  <2>1. CASE Silence
    BY <2>1 DEF Silence
  <2>2. CASE Push
    BY <2>2 DEF Push, Answers
  <2>3. CASE Hangup
    BY <2>3 DEF Hangup, Answers
  <2> QED BY <1>13, <2>1, <2>2, <2>3
<1>14. CASE XlinkInit
  BY <1>14 DEF XlinkInit, Flags, ClearedFlags, IdleTcp, IdleUdp, NoLine
<1>15. CASE UNCHANGED vars
  BY <1>15 DEF vars
<1> QED
  BY <1>1, <1>2, <1>3, <1>4, <1>5, <1>6, <1>7, <1>8, <1>9, <1>10, <1>11, <1>12, <1>13, <1>14, <1>15
     DEF Next, TcpThread, Server

LEMMA NumbersStep ==
  ASSUME TypeInv, [Next]_vars
  PROVE  NumbersInv'
<1>a. NumbersInv /\ udp.next \in {"none", "WAIT_CONNECT"}
      /\ (tcp.pc \in {"connecting", "connected"} => tcp.fd \in Fd)
      /\ (line.ans \in {"good", "bad"} => line.ans \in Redirects)
  BY DEF TypeInv, RecordsInv
<1> USE <1>a, BoundAssumption DEF NumbersInv, Works, Ports
<1>u. Upset => upsets' \in 0..MaxUpsets
  BY DEF Upset
<1>1. CASE xlink_net_loop_Domain_name
  BY <1>1 DEF xlink_net_loop_Domain_name, Configs
<1>2. CASE OpenSocket
  BY <1>2 DEF OpenSocket, NextPort
<1>3. CASE xlink_tcp_connect_server \/ NotDue \/ XlinkTcpInit \/ tcp_Connect_server_init
  BY <1>3 DEF xlink_tcp_connect_server, NotDue, XlinkTcpInit, tcp_Connect_server_init
<1>4. CASE ConnectFails \/ xlinkGetHostByName
  BY <1>4, <1>u DEF ConnectFails, xlinkGetHostByName
<1>5. CASE UdpClosing
  BY <1>5 DEF UdpClosing, CloseWork, CloseFlag
<1>6. CASE SendHttpConnect \/ XlinkTcpWorkActivation
  BY <1>6 DEF SendHttpConnect, XlinkTcpWorkActivation
<1>7. CASE XlinkTcpWorkConnect
  <2>1. config' \in Configs /\ config'.domain = config.domain
    BY <1>7, AddressKept
  <2> QED BY <1>7, <2>1 DEF XlinkTcpWorkConnect, CloseThen
<1>8. CASE XlinkTcpWorkPing
  BY <1>8 DEF XlinkTcpWorkPing, Looping
<1>9. CASE UdpTimeout
  BY <1>9, <1>u DEF UdpTimeout, WaitTimeout, PingTimeout, TimerOut, CloseThen
<1>10. CASE RecvClose
  BY <1>10 DEF RecvClose, CloseThen
<1>11. CASE tcp_http
  BY <1>11 DEF tcp_http
<1>12. CASE xlink_process_tcp_active
  <2>1. config' \in Configs /\ config'.domain = config.domain
    BY <1>12, AddressKept
  <2> QED BY <1>12, <2>1 DEF xlink_process_tcp_active
<1>13. CASE xlink_process_tcp_connect
  BY <1>13 DEF xlink_process_tcp_connect, CloseThen, Configs
<1>14. CASE xlink_process_tcp_data \/ xlink_process_tcp_pipe \/ xlink_process_tcp_pipe2
  BY <1>14 DEF xlink_process_tcp_data, xlink_process_tcp_pipe, xlink_process_tcp_pipe2
<1>15. CASE XlinkReSetSDK
  <2>1. config' \in Configs /\ config'.domain = config.domain
    BY <1>15, AddressKept
  <2> QED BY <1>15, <2>1, <1>u DEF XlinkReSetSDK, CloseThen
<1>16. CASE XlinkSendTcpPipe \/ XlinkSendTcpBroadcast
  BY <1>16 DEF XlinkSendTcpPipe, XlinkSendTcpBroadcast
<1>17. CASE Server
  <2>1. CASE \E a \in Answers : Answer(a)
    BY <2>1, <1>u DEF Answer
  <2>2. CASE Silence \/ Push
    BY <2>2, <1>u DEF Silence, Push
  <2>3. CASE Hangup
    BY <2>3, <1>u DEF Hangup
  <2> QED BY <1>17, <2>1, <2>2, <2>3 DEF Server
<1>18. CASE XlinkInit
  BY <1>18, <1>u DEF XlinkInit
<1>19. CASE UNCHANGED vars
  BY <1>19 DEF vars
<1> QED
  BY <1>1, <1>2, <1>3, <1>4, <1>5, <1>6, <1>7, <1>8, <1>9, <1>10, <1>11, <1>12, <1>13, <1>14, <1>15, <1>16, <1>17,
     <1>18, <1>19 DEF Next, TcpThread, UdpSend, UdpRecv

LEMMA TypeStep == TypeInv /\ [Next]_vars => TypeInv'
BY RecordsStep, NumbersStep DEF TypeInv
-----------------------------------------------------------------------------
(* The login                                                               *)

LEMMA LoginStep ==
  ASSUME LoginInv, [Next]_vars
  PROVE  LoginInv'
<1> USE DEF LoginInv
<1>0. TypeInv'
  BY TypeStep
<1> DEFINE L == ConnectingInv' /\ AcceptedInv' /\ LoginTruthful'
<1>a. RecordsInv
  BY DEF TypeInv
<1> USE <1>0, <1>a DEF ConnectingInv, AcceptedInv, LoginTruthful, RecordsInv, Flags
<1>1. CASE TcpThread \/ NotDue \/ xlinkGetHostByName \/ ConnectFails
  <2>1. CASE xlink_net_loop_Domain_name
    BY <2>1 DEF xlink_net_loop_Domain_name
  <2>2. CASE OpenSocket
    BY <2>2 DEF OpenSocket
  <2>3. CASE xlink_tcp_connect_server
    BY <2>3 DEF xlink_tcp_connect_server, NoLine
  <2>4. CASE tcp_Connect_server_init
    BY <2>4 DEF tcp_Connect_server_init, IdleTcp
  <2>5. CASE XlinkTcpInit
    BY <2>5 DEF XlinkTcpInit, IdleTcp
  <2>6. CASE NotDue \/ xlinkGetHostByName \/ ConnectFails
    BY <2>6 DEF NotDue, xlinkGetHostByName, ConnectFails, IdleTcp
  <2> QED BY <1>1, <2>1, <2>2, <2>3, <2>4, <2>5, <2>6 DEF TcpThread
<1>c. ASSUME NEW next, CloseThen(next), UNCHANGED <<tcpFlag, tcp>> PROVE L
  BY <1>c DEF CloseThen, NoLine
<1>2. CASE UdpClosing \/ UdpSend \/ UdpTimeout \/ UdpRecv \/ XlinkReSetSDK \/ XlinkSendTcpPipe \/ XlinkSendTcpBroadcast
  <2>1. CASE UdpClosing
    BY <2>1 DEF UdpClosing, CloseWork, CloseFlag, IdleUdp
  <2>2. CASE UdpSend
    BY <2>2, <1>c DEF UdpSend, SendHttpConnect, XlinkTcpWorkActivation, XlinkTcpWorkConnect, XlinkTcpWorkPing, Send
  <2>3. CASE UdpTimeout \/ XlinkReSetSDK
    BY <2>3, <1>c DEF UdpTimeout, WaitTimeout, PingTimeout, XlinkReSetSDK
  <2>4. CASE RecvClose
    BY <2>4, <1>c DEF RecvClose
  <2>5. CASE tcp_http
    BY <2>5 DEF tcp_http, Took
  <2>6. CASE xlink_process_tcp_active
    BY <2>6 DEF xlink_process_tcp_active, Took
  <2>7. CASE xlink_process_tcp_connect
    BY <2>7, <1>c DEF xlink_process_tcp_connect, Readable, Took
  <2>8. CASE xlink_process_tcp_data \/ xlink_process_tcp_pipe2
    BY <2>8 DEF xlink_process_tcp_data, xlink_process_tcp_pipe2, Took
  <2>9. CASE xlink_process_tcp_pipe
    BY <2>9 DEF xlink_process_tcp_pipe, Readable
  <2>10. CASE XlinkSendTcpPipe \/ XlinkSendTcpBroadcast
    BY <2>10 DEF XlinkSendTcpPipe, XlinkSendTcpBroadcast, AppData
  <2> QED BY <1>2, <2>1, <2>2, <2>3, <2>4, <2>5, <2>6, <2>7, <2>8, <2>9, <2>10 DEF UdpRecv
<1>3. CASE Server \/ XlinkInit
  <2>1. ASSUME NEW a \in Answers, Answer(a) PROVE L
    <3>1. a \notin {"pipe", "pipe2"}
      BY <2>1, ReplyType DEF Answer
    <3> QED BY <2>1, <3>1 DEF Answer
  <2>2. CASE Silence \/ Push \/ Hangup
    <3>1. CASE Silence
      BY <3>1 DEF Silence
    <3>2. CASE Push
      BY <3>2 DEF Push
    <3>3. CASE Hangup
      BY <3>3 DEF Hangup
    <3> QED BY <2>2, <3>1, <3>2, <3>3
  <2>3. CASE XlinkInit
    BY <2>3 DEF XlinkInit, ClearedFlags, IdleTcp, IdleUdp, NoLine
  <2> QED BY <1>3, <2>1, <2>2, <2>3 DEF Server
<1>4. CASE UNCHANGED vars
  BY <1>4 DEF vars
<1> QED BY <1>0, <1>1, <1>2, <1>3, <1>4 DEF Next

\* The gateway's variables keep their types; in particular, at most MaxPing + 1 pings go unanswered and
\* a redirect address is tried at most MaxDomainTry times (xlink_net_loop_Domain_name,
\* XlinkTcpWorkPing).
THEOREM XlinkTypes == Spec => []TypeOK
<1>1. TypeInv => TypeOK
  BY DEF TypeInv, RecordsInv, NumbersInv, Flags, Configs, TypeOK
<1> QED BY TypeInit, TypeStep, <1>1, PTL DEF Spec

\* Whatever the two threads do to each other's bits of tcpFlag, and whatever the server and the network
\* do: when no closing is under way, isLogined means that the server accepted a login on the open
\* connection, and no app data leaves on a connection before its login (XlinkSendTcpPipe,
\* XlinkSendTcpBroadcast, xlink_process_tcp_pipe).
THEOREM LoginAsAccepted == Spec => []LoginTruthful
<1>1. Init => LoginInv
  BY TypeInit DEF LoginInv, Init, ConnectingInv, AcceptedInv, LoginTruthful, ClearedFlags, IdleTcp, IdleUdp, NoLine
<1>2. LoginInv /\ [Next]_vars => LoginInv'
  BY LoginStep
<1>3. LoginInv => LoginTruthful
  BY DEF LoginInv
<1> QED BY <1>1, <1>2, <1>3, PTL DEF Spec

-----------------------------------------------------------------------------
(* The sessions of the apps: first numbers, and steps repeated a number of times *)

\* A non-empty set of naturals has a least element.
LEMMA LeastNatural ==
  ASSUME NEW T \in SUBSET Nat, T # {}
  PROVE  \E x \in T : \A y \in T : x <= y
<1> DEFINE Less == OpToRel(<, Nat)
<1>1. IsWellFoundedOn(Less, Nat)
  BY NatLessThanWellFounded
<1>2. \A x \in Nat, y \in Nat : y < x => <<y, x>> \in Less
  BY DEF OpToRel
<1> HIDE DEF Less
<1>3. PICK x \in T : \A y \in T : ~(<<y, x>> \in Less)
  BY <1>1, WFMin
<1>4. ASSUME NEW y \in T PROVE x <= y
  <2>1. x \in Nat /\ y \in Nat /\ ~(y < x)
    BY <1>2, <1>3
  <2> QED BY <2>1
<1> QED BY <1>4

LEMMA MinIs ==
  ASSUME NEW T \in SUBSET Nat, T # {}
  PROVE  Min(T) \in T /\ \A y \in T : Min(T) <= y
<1>1. \E x \in T : \A y \in T : x <= y
  BY LeastNatural
<1>2. Min(T) = CHOOSE x \in T : \A y \in T : x <= y
  BY DEF Min
<1> QED BY <1>1, <1>2

\* What holds of 0, and of every number whose predecessor it holds of, holds up to n.
LEMMA UpTo ==
  ASSUME NEW n \in Nat, NEW S, 0 \in S, \A k \in 1..n : k - 1 \in S => k \in S
  PROVE  \A k \in 0..n : k \in S
<1> SUFFICES ASSUME NEW j \in 0..n, j \notin S PROVE FALSE
  OBVIOUS
<1> DEFINE T == {k \in 0..n : k \notin S}
<1>1. T \in SUBSET Nat /\ T # {}
  OBVIOUS
<1>2. PICK k \in T : \A i \in T : k <= i
  BY <1>1, LeastNatural
<1>3. k \in 1..n /\ k - 1 \in 0..n
  BY <1>2
<1>4. k - 1 \in S
  <2>1. CASE k - 1 \notin S
    <3>1. k - 1 \in T /\ ~(k <= k - 1)
      BY <1>3, <2>1
    <3> QED BY <1>2, <3>1
  <2> QED BY <2>1
<1> QED BY <1>2, <1>3, <1>4

\* f goes n steps from base, through V; step k is g[k].
Goes(f, n, V, base, g) == f \in [0..n -> V] /\ f[0] = base /\ \A k \in 1..n : f[k] = g[k - 1][f[k - 1]]
Steps(n, V, g) == \A k \in 0..(n - 1) : \A v \in V : g[k][v] \in V

LEMMA Iterate ==
  ASSUME NEW n \in Nat, NEW V, NEW base \in V, NEW g, Steps(n, V, g)
  PROVE  \E f : Goes(f, n, V, base, g)
<1> DEFINE Is(f, m) == f \in [0..m -> V] /\ f[0] = base /\ \A k \in 1..m : f[k] = g[k - 1][f[k - 1]]
           S == {m \in 0..n : \E f : Is(f, m)}
<1>1. 0 \in S
  <2> DEFINE f == [k \in 0..0 |-> base]
  <2>1. f \in [0..0 -> V] /\ f[0] = base /\ \A k \in 1..0 : FALSE
    OBVIOUS
  <2> HIDE DEF f
  <2>2. Is(f, 0)
    BY <2>1
  <2> QED BY <2>2
<1>2. ASSUME NEW m \in 1..n, m - 1 \in S PROVE m \in S
  <2>1. PICK f : Is(f, m - 1)
    BY <1>2
  <2> DEFINE e == g[m - 1][f[m - 1]]
             h == [k \in 0..m |-> IF k = m THEN e ELSE f[k]]
  <2>2. m - 1 \in 0..(m - 1) /\ m - 1 \in 0..(n - 1) /\ m # 0 /\ m \in 0..m /\ 0 \in 0..m
    OBVIOUS
  <2>3. f[m - 1] \in V
    BY <2>1, <2>2
  <2>4. e \in V
    BY <2>2, <2>3 DEF Steps
  <2>5. \A k \in 0..m : k # m => k \in 0..(m - 1)
    OBVIOUS
  <2> HIDE DEF e
  <2>6. h \in [0..m -> V]
    BY <2>1, <2>4, <2>5
  <2>7. h[0] = base /\ h[m] = e /\ \A k \in 0..(m - 1) : h[k] = f[k]
    BY <2>1, <2>2
  <2> HIDE DEF h
  <2>8. ASSUME NEW k \in 1..m PROVE h[k] = g[k - 1][h[k - 1]]
    <3>1. k - 1 \in 0..(m - 1)
      OBVIOUS
    <3>2. CASE k = m
      BY <2>7, <3>1, <3>2 DEF e
    <3>3. CASE k # m
      <4>1. k \in 1..(m - 1) /\ k \in 0..(m - 1)
        BY <3>3
      <4> QED BY <2>1, <2>7, <3>1, <4>1
    <3> QED BY <3>2, <3>3
  <2>9. Is(h, m)
    BY <2>6, <2>7, <2>8
  <2> QED BY <2>9
<1> HIDE DEF S
<1>3. n \in S
  <2>1. \A m \in 0..n : m \in S
    BY <1>1, <1>2, UpTo
  <2> QED BY <2>1
<1> QED BY <1>3 DEF S, Goes

-----------------------------------------------------------------------------
(* The list *)

\* What stays are items of the list that someone waits for.
LEMMA ClearKeeps ==
  ASSUME NEW list \in Seq(Item)
  PROVE  /\ NSProcessClearNotUserData(list) \in Seq(Item)
         /\ \A i \in 1..Len(NSProcessClearNotUserData(list)) :
              \E j \in 1..Len(list) : NSProcessClearNotUserData(list)[i] = list[j]
<1> DEFINE n == Len(list)
           V == Seq(Item)
           step(k, v) == IF list[k].users = {} THEN v ELSE Append(v, list[k])
           g == [k \in 0..(n - 1) |-> [v \in V |-> step(k + 1, v)]]
           kept == CHOOSE f : f = [k \in 0..n |-> IF k = 0 THEN <<>> ELSE step(k, f[k - 1])]
<1>1. n \in Nat
  BY LenProperties
<1>2. NSProcessClearNotUserData(list) = kept[n]
  BY DEF NSProcessClearNotUserData
<1>3. ASSUME NEW k \in 1..n, NEW v \in V PROVE step(k, v) \in V
  <2>1. list[k] \in Item
    BY <1>3, ElementOfSeq
  <2> QED BY <1>3, <2>1, AppendProperties
<1>4. \A k \in 0..(n - 1) : \A v \in V : k + 1 \in 1..n /\ g[k][v] = step(k + 1, v)
  <2> TAKE k \in 0..(n - 1)
  <2> TAKE v \in V
  <2>1. k + 1 \in 1..n
    BY <1>1
  <2> HIDE DEF step, V, n
  <2> QED BY <2>1
<1>5. \A k \in 1..n : \A v \in V : g[k - 1][v] = step(k, v)
  <2> TAKE k \in 1..n
  <2> TAKE v \in V
  <2>1. k - 1 \in 0..(n - 1) /\ (k - 1) + 1 = k
    BY <1>1
  <2> HIDE DEF step, V, n
  <2> QED BY <2>1
<1>6. <<>> \in V
  BY EmptySeq
<1> HIDE DEF V, g, n
<1>7. PICK f \in [0..n -> V] : f[0] = <<>> /\ \A k \in 1..n : f[k] = g[k - 1][f[k - 1]]
  <2> DEFINE base == <<>>
  <2>1. base \in V
    BY <1>6
  <2> HIDE DEF base, kept, step
  <2>2. Steps(n, V, g)
    BY <1>3, <1>4 DEF Steps
  <2>3. \E f : Goes(f, n, V, base, g)
    BY <1>1, <2>1, <2>2, Iterate
  <2> QED BY <2>3 DEF base, Goes
<1>8. f = [k \in 0..n |-> IF k = 0 THEN <<>> ELSE step(k, f[k - 1])]
  <2>1. ASSUME NEW k \in 0..n, k # 0 PROVE f[k] = step(k, f[k - 1])
    <3>1. k \in 1..n /\ k - 1 \in 0..n
      BY <1>1, <2>1
    <3>2. f[k - 1] \in V
      BY <3>1
    <3> HIDE DEF step
    <3> QED BY <1>5, <1>7, <3>1, <3>2
  <2> HIDE DEF step
  <2>2. \A k \in 0..n : f[k] = IF k = 0 THEN <<>> ELSE step(k, f[k - 1])
    BY <1>7, <2>1
  <2> QED BY <2>2
<1>9. kept = [k \in 0..n |-> IF k = 0 THEN <<>> ELSE step(k, kept[k - 1])]
  <2> HIDE DEF step
  <2> DEFINE Q(h) == h = [k \in 0..n |-> IF k = 0 THEN <<>> ELSE step(k, h[k - 1])]
  <2>1. Q(f)
    BY <1>8
  <2>2. kept = CHOOSE h : Q(h)
    OBVIOUS
  <2> HIDE DEF Q, kept
  <2>3. Q(kept)
    BY <2>1, <2>2
  <2> QED BY <2>3 DEF Q
<1> HIDE DEF kept
<1>10. kept[0] = <<>> /\ \A k \in 1..n : kept[k] = step(k, kept[k - 1])
  <2> HIDE DEF step
  <2>1. 0 \in 0..n /\ \A k \in 1..n : k \in 0..n /\ k # 0
    BY <1>1
  <2> QED BY <1>9, <2>1
<1> DEFINE Fine(k) == kept[k] \in V /\ \A i \in 1..Len(kept[k]) : \E j \in 1..n : kept[k][i] = list[j]
           S == {k \in 0..n : Fine(k)}
<1>11. 0 \in S
  <2>1. kept[0] \in V /\ Len(kept[0]) = 0 /\ \A i \in 1..0 : FALSE
    BY <1>6, <1>10, EmptySeq
  <2> QED BY <1>1, <2>1
<1>12. ASSUME NEW k \in 1..n, k - 1 \in S PROVE k \in S
  <2> DEFINE p == kept[k - 1]
             r == kept[k]
  <2>1. p \in V /\ \A i \in 1..Len(p) : \E j \in 1..n : p[i] = list[j]
    BY <1>12
  <2>2. r = IF list[k].users = {} THEN p ELSE Append(p, list[k])
    BY <1>10
  <2>3. list[k] \in Item
    BY <1>12, ElementOfSeq DEF n
  <2> HIDE DEF p, r
  <2>4. CASE list[k].users = {}
    <3>1. r = p
      BY <2>2, <2>4
    <3> QED BY <2>1, <3>1 DEF r
  <2>5. CASE list[k].users # {}
    <3>1. r = Append(p, list[k])
      BY <2>2, <2>5
    <3>2. r \in V /\ Len(r) = Len(p) + 1 /\ (\A i \in 1..Len(p) : r[i] = p[i]) /\ r[Len(p) + 1] = list[k] /\ Len(p) \in Nat
      BY <2>1, <2>3, <3>1, AppendProperties, LenProperties DEF V
    <3>3. ASSUME NEW i \in 1..Len(r) PROVE \E j \in 1..n : r[i] = list[j]
      <4>1. i \in 1..Len(p) \/ i = Len(p) + 1
        BY <3>2
      <4> QED BY <2>1, <3>2, <4>1
    <3> QED BY <3>2, <3>3 DEF r
  <2> QED BY <2>4, <2>5
<1> HIDE DEF S
<1>13. n \in S
  <2>1. \A k \in 0..n : k \in S
    BY <1>1, <1>11, <1>12, UpTo
  <2> QED BY <1>1, <2>1
<1> QED BY <1>2, <1>13 DEF S, V, n
-----------------------------------------------------------------------------
(* The SDK's state *)

\* Slot s belongs to app a.
Has(x, s, a) == x.client[s].active /\ x.client[s].app = a

\* What SessionsSound says, of a state within a turn.
Sound(x) ==
  /\ \A s, t \in Slot : x.client[s].active /\ x.client[t].active /\ x.client[s].app = x.client[t].app => s = t
  /\ \A s \in Slot : x.client[s].active => x.client[s].check # 0 /\ x.count
  /\ \A s \in Slot : x.client[s].active => x.client[s].login \in {x.key, Unset, Edge}

\* A message number stored in the present session is that of a message that was handled.
Own(x) ==
  \A s \in Slot : x.client[s].active /\ x.client[s].own =>
    x.client[s].msgid # 0 /\ x.done[x.client[s].app][x.client[s].msgid] >= 1

Once(x) == \A a \in App : \A n \in 1..MaxPipe : x.done[a][n] <= 1

\* A letter's acknowledgement is of a message that was handled, or swallowed; its message is meant for whom it goes to.
Honest(x, o) ==
  /\ o.p.cmd = "ack" => (o.p.ok => x.done[o.to][o.p.id] >= 1 \/ <<o.to, o.p.id>> \in x.swallowed)
  /\ o.p.cmd = "item" => (~x.stray => o.p.mine)
  /\ o.p.cmd = "session" => o.p.sess.check # 0

Told(x) == \A k \in 1..Len(x.out) : Honest(x, x.out[k])

\* Item m is meant for those whose slots it waits for.
MeantFor(x, m) == ~x.stray => \A s \in m.users : x.client[s].app \in m.to
Meant(x) == \A i \in 1..Len(x.list) : MeantFor(x, x.list[i])

\* Nothing waits for a slot without an owner.
AwaitedIn(x, m) == ~x.stray => \A s \in m.users : x.client[s].active
Awaited(x) == \A i \in 1..Len(x.list) : AwaitedIn(x, x.list[i])

SdkInv(x) == x \in Sdk /\ Sound(x) /\ Own(x) /\ Once(x) /\ Told(x) /\ Meant(x)

\* y may come after x.
Later(x, y) ==
  /\ x.stray => y.stray
  /\ x.swallowed \subseteq y.swallowed
  /\ \A a \in App : \A n \in 1..MaxPipe : x.done[a][n] <= y.done[a][n]

\* App a has no new session in y, and nothing of it was handled in between.
Quiet(x, y, a) ==
  /\ y.done[a] = x.done[a]
  /\ \A s \in Slot : Has(y, s, a) => Has(x, s, a) /\ y.client[s].msgid = x.client[s].msgid

\* The same session.
Same(c, e) ==
  e.app = c.app /\ e.active = c.active /\ e.check = c.check /\ e.msgid = c.msgid /\ e.login = c.login /\ e.own = c.own

\* Nothing but the list, the letters, the count and what was sent to a client differ.
Alike(x, y) ==
  /\ \A s \in Slot : Same(x.client[s], y.client[s])
  /\ y.key = x.key /\ y.done = x.done /\ y.swallowed = x.swallowed /\ y.stray = x.stray
  /\ x.count => y.count

LEMMA HonestLater ==
  ASSUME NEW x, NEW y, NEW o \in Letter, Honest(x, o), Later(x, y), x \in Sdk, y \in Sdk
  PROVE  Honest(y, o)
<1>1. o.to \in App
  BY DEF Letter
<1>2. CASE o.p.cmd = "ack"
  <2>1. o.p.id \in 1..MaxPipe
    BY <1>2 DEF Letter, Packet
  <2>2. x.done[o.to][o.p.id] \in Nat /\ y.done[o.to][o.p.id] \in Nat
    BY <1>1, <2>1 DEF Sdk
  <2>3. x.done[o.to][o.p.id] <= y.done[o.to][o.p.id] /\ x.swallowed \subseteq y.swallowed
    BY <1>1, <2>1 DEF Later
  <2> QED BY <1>2, <2>2, <2>3 DEF Honest
<1>3. CASE o.p.cmd # "ack"
  BY <1>3 DEF Honest, Later
<1> QED BY <1>2, <1>3

LEMMA LaterAgain ==
  ASSUME NEW x \in Sdk, NEW y \in Sdk, NEW z \in Sdk, Later(x, y), Later(y, z)
  PROVE  Later(x, z)
<1>1. ASSUME NEW a \in App, NEW n \in 1..MaxPipe PROVE x.done[a][n] <= z.done[a][n]
  <2>1. x.done[a][n] \in Nat /\ y.done[a][n] \in Nat /\ z.done[a][n] \in Nat
    BY DEF Sdk
  <2>2. x.done[a][n] <= y.done[a][n] /\ y.done[a][n] <= z.done[a][n]
    BY DEF Later
  <2> QED BY <2>1, <2>2
<1> QED BY <1>1 DEF Later

LEMMA QuietAgain ==
  ASSUME NEW x, NEW y, NEW z, NEW a, Quiet(x, y, a), Quiet(y, z, a)
  PROVE  Quiet(x, z, a)
BY DEF Quiet

LEMMA AlikeKeeps ==
  ASSUME NEW x, NEW y \in Sdk, SdkInv(x), Alike(x, y), Told(y), Meant(y)
  PROVE  SdkInv(y) /\ Later(x, y) /\ \A a \in App : Quiet(x, y, a)
<1>1. Sound(y)
  BY DEF Sound, SdkInv, Alike, Same
<1>2. Own(y) /\ Once(y)
  BY DEF Own, Once, SdkInv, Alike, Same
<1>3. Later(x, y)
  <2>1. ASSUME NEW a \in App, NEW n \in 1..MaxPipe PROVE x.done[a][n] <= x.done[a][n]
    <3>1. x \in Sdk
      BY DEF SdkInv
    <3>2. x.done \in [App -> [1..MaxPipe -> Nat]]
      BY <3>1 DEF Sdk
    <3>3. x.done[a][n] \in Nat
      BY <3>2
    <3> QED BY <3>3
  <2> QED BY <2>1 DEF Later, Alike
<1>4. \A a \in App : Quiet(x, y, a)
  BY DEF Quiet, Has, Alike, Same
<1> QED BY <1>1, <1>2, <1>3, <1>4 DEF SdkInv

\* The items of l are items of m, some with fewer users.
From(l, m) == \A i \in 1..Len(l) : \E j \in 1..Len(m) : l[i].users \subseteq m[j].users /\ l[i].to = m[j].to

LEMMA MeantStays ==
  ASSUME NEW x \in Sdk, NEW y \in Sdk, Meant(x), From(y.list, x.list), x.stray => y.stray,
         \A s \in Slot : y.client[s].app = x.client[s].app
  PROVE  Meant(y)
<1>1. ASSUME NEW i \in 1..Len(y.list), ~y.stray, NEW s \in y.list[i].users PROVE y.client[s].app \in y.list[i].to
  <2>1. y.list \in Seq(Item)
    BY DEF Sdk
  <2>2. y.list[i] \in Item
    BY <2>1, ElementOfSeq
  <2>3. s \in Slot
    BY <2>2 DEF Item
  <2>4. PICK j \in 1..Len(x.list) : s \in x.list[j].users /\ y.list[i].to = x.list[j].to
    BY DEF From
  <2>5. x.client[s].app \in x.list[j].to
    BY <1>1, <2>4 DEF Meant, MeantFor
  <2> QED BY <2>3, <2>4, <2>5
<1> QED BY <1>1 DEF Meant, MeantFor

LEMMA FromItself == ASSUME NEW l PROVE From(l, l)
BY DEF From

\* A letter more.
LEMMA SendIs ==
  ASSUME NEW x, SdkInv(x), NEW a \in App, NEW p \in Packet, Honest(x, [to |-> a, p |-> p]),
         NEW y, y = XlinkClientSendDataToAddr(x, a, p)
  PROVE  SdkInv(y) /\ Alike(x, y) /\ y.list = x.list /\ y.count = x.count /\ y.msgid = x.msgid
<1> DEFINE o == [to |-> a, p |-> p]
<1>1. x \in Sdk
  BY DEF SdkInv
<1>2. o \in Letter
  BY DEF Letter
<1>3. x.out \in Seq(Letter)
  BY <1>1 DEF Sdk
<1> HIDE DEF o
<1>4. Append(x.out, o) \in Seq(Letter) /\ Len(Append(x.out, o)) = Len(x.out) + 1 /\ Len(x.out) \in Nat
      /\ (\A i \in 1..Len(x.out) : Append(x.out, o)[i] = x.out[i]) /\ Append(x.out, o)[Len(x.out) + 1] = o
  BY <1>2, <1>3, AppendProperties, LenProperties
<1>5. CASE ~x.sock
  <2>1. y = x
    BY <1>5 DEF XlinkClientSendDataToAddr
  <2> QED BY <2>1 DEF Alike, Same
<1>6. CASE x.sock
  <2>1. y = [x EXCEPT !.out = Append(x.out, o)]
    BY <1>6 DEF XlinkClientSendDataToAddr, o
  <2>2. y \in Sdk /\ y.out = Append(x.out, o) /\ Alike(x, y) /\ y.list = x.list /\ y.count = x.count /\ y.msgid = x.msgid
    BY <1>1, <1>4, <2>1 DEF Sdk, Alike, Same
  <2>3. Told(y)
    <3>1. ASSUME NEW k \in 1..Len(y.out) PROVE Honest(y, y.out[k])
      <4>1. y.out[k] = o \/ (k \in 1..Len(x.out) /\ y.out[k] = x.out[k])
        BY <1>4, <2>2
      <4>2. Honest(x, y.out[k])
        BY <4>1 DEF SdkInv, Told, o
      <4> QED BY <2>2, <4>2 DEF Honest, Alike
    <3> QED BY <3>1 DEF Told
  <2>4. Meant(y)
    BY <1>1, <2>2, FromItself, MeantStays DEF Alike, Same, SdkInv
  <2> QED BY <2>2, <2>3, <2>4, AlikeKeeps
<1> QED BY <1>5, <1>6

\* Clients that left: the sessions of the others stay.
LEMMA LeftKeeps ==
  ASSUME NEW x, NEW y \in Sdk, SdkInv(x),
         \A s \in Slot : y.client[s].app = x.client[s].app /\ (y.client[s] = x.client[s] \/ ~y.client[s].active),
         y.list = x.list, y.out = x.out, y.key = x.key, y.done = x.done, y.swallowed = x.swallowed, x.stray => y.stray,
         \A s \in Slot : y.client[s].active => y.count
  PROVE  SdkInv(y) /\ Later(x, y) /\ \A a \in App : Quiet(x, y, a)
<1>1. \A s \in Slot : y.client[s].active => y.client[s] = x.client[s]
  OBVIOUS
<1>2. Sound(y)
  BY <1>1 DEF Sound, SdkInv
<1>3. Own(y) /\ Once(y)
  BY <1>1 DEF Own, Once, SdkInv
<1>4. Later(x, y)
  <2>1. ASSUME NEW a \in App, NEW n \in 1..MaxPipe PROVE x.done[a][n] <= y.done[a][n]
    <3>1. x.done[a][n] \in Nat
      BY DEF Sdk, SdkInv
    <3> QED BY <3>1
  <2> QED BY <2>1 DEF Later
<1>5. \A a \in App : Quiet(x, y, a)
  BY <1>1 DEF Quiet, Has
<1>6. Told(y)
  <2>1. ASSUME NEW k \in 1..Len(y.out) PROVE Honest(y, y.out[k])
    <3>1. x.out \in Seq(Letter) /\ Honest(x, x.out[k]) /\ x \in Sdk
      BY DEF SdkInv, Told, Sdk
    <3>2. x.out[k] \in Letter
      BY <3>1, ElementOfSeq
    <3> QED BY <1>4, <3>1, <3>2, HonestLater
  <2> QED BY <2>1 DEF Told
<1>7. Meant(y)
  BY FromItself, MeantStays DEF SdkInv
<1> QED BY <1>2, <1>3, <1>4, <1>5, <1>6, <1>7 DEF SdkInv

LEMMA HeartbeatKeeps ==
  ASSUME NEW x, SdkInv(x), NEW gone \in SUBSET Slot, NEW y, y = XlinkClientCheckHeartbeat(x, gone)
  PROVE  SdkInv(y) /\ Later(x, y) /\ (\A a \in App : Quiet(x, y, a)) /\ (Awaited(x) => Awaited(y))
<1> DEFINE c == [s \in Slot |-> IF s \in gone /\ x.client[s].active
                   THEN [x.client[s] EXCEPT !.active = FALSE, !.check = 0, !.msgid = 0, !.own = FALSE, !.login = Unset]
                   ELSE x.client[s]]
           some == \E s \in Slot : c[s].active
           late == x.stray \/ \E s \in gone : \E i \in DOMAIN x.list : s \in x.list[i].users
<1>1. x \in Sdk /\ x.list \in Seq(Item) /\ x.client \in [Slot -> Client] /\ MaxPipe \in Nat
  BY UdpAssumption DEF SdkInv, Sdk
<1>2. y = [x EXCEPT !.client = c, !.count = some, !.stray = late]
  BY DEF XlinkClientCheckHeartbeat
<1>3. ASSUME NEW s \in Slot
      PROVE c[s] \in Client /\ c[s].app = x.client[s].app /\ (c[s] = x.client[s] \/ ~c[s].active) /\ (s \notin gone => c[s] = x.client[s])
  <2> DEFINE e == x.client[s]
             g == [e EXCEPT !.active = FALSE, !.check = 0, !.msgid = 0, !.own = FALSE, !.login = Unset]
  <2>1. e \in Client /\ 0 \in Check \cup {0} /\ 0 \in 0..MaxPipe /\ Unset \in Key
    BY <1>1 DEF Key
  <2>2. c[s] = IF s \in gone /\ e.active THEN g ELSE e
    OBVIOUS
  <2> HIDE DEF e, c
  <2>3. g \in Client /\ g.app = e.app /\ ~g.active
    BY <2>1 DEF Client
  <2>4. s \notin gone => c[s] = e
    BY <2>2
  <2>5. c[s] = e \/ c[s] = g
    BY <2>2
  <2> HIDE DEF g
  <2> QED BY <2>1, <2>3, <2>4, <2>5 DEF e
<1>4. c \in [Slot -> Client] /\ some \in BOOLEAN /\ late \in BOOLEAN
  BY <1>1, <1>3 DEF Sdk
<1>5. \A s \in Slot : c[s].active => some
  OBVIOUS
<1>6. x.stray => late
  OBVIOUS
<1>7. ~late => ~x.stray /\ \A s \in gone : \A i \in 1..Len(x.list) : s \notin x.list[i].users
  BY <1>1
<1> HIDE DEF c, some, late
<1>8. y \in Sdk /\ y.client = c /\ y.count = some /\ y.stray = late /\ y.list = x.list /\ y.out = x.out /\ y.key = x.key
      /\ y.done = x.done /\ y.swallowed = x.swallowed
  BY <1>1, <1>2, <1>4 DEF Sdk
<1>9. SdkInv(y) /\ Later(x, y) /\ \A a \in App : Quiet(x, y, a)
  BY <1>3, <1>5, <1>6, <1>8, LeftKeeps
<1>10. ASSUME Awaited(x) PROVE Awaited(y)
  <2>1. ASSUME NEW i \in 1..Len(y.list), ~y.stray, NEW s \in y.list[i].users PROVE y.client[s].active
    <3>1. i \in 1..Len(x.list) /\ s \in x.list[i].users /\ ~x.stray /\ s \notin gone
      BY <1>7, <1>8, <2>1
    <3>2. x.list[i] \in Item
      BY <1>1, <3>1, ElementOfSeq
    <3>3. s \in Slot
      BY <3>1, <3>2 DEF Item
    <3>4. x.client[s].active
      BY <1>10, <3>1 DEF Awaited, AwaitedIn
    <3> QED BY <1>3, <1>8, <3>1, <3>3, <3>4
  <2> QED BY <2>1 DEF Awaited, AwaitedIn
<1> QED BY <1>9, <1>10

\* Later states with the same letters still tell the truth.
LEMMA ToldStays ==
  ASSUME NEW x \in Sdk, NEW y \in Sdk, Told(x), Later(x, y), y.out = x.out
  PROVE  Told(y)
<1>1. ASSUME NEW k \in 1..Len(y.out) PROVE Honest(y, y.out[k])
  <2>1. x.out \in Seq(Letter) /\ Honest(x, x.out[k])
    BY DEF Told, Sdk
  <2>2. x.out[k] \in Letter
    BY <2>1, ElementOfSeq
  <2> QED BY <2>1, <2>2, HonestLater
<1> QED BY <1>1 DEF Told

LEMMA LaterSame ==
  ASSUME NEW x \in Sdk, NEW y, x.stray => y.stray, x.swallowed \subseteq y.swallowed, y.done = x.done
  PROVE  Later(x, y)
<1>1. ASSUME NEW a \in App, NEW n \in 1..MaxPipe PROVE x.done[a][n] <= y.done[a][n]
  <2>1. x.done[a][n] \in Nat
    BY DEF Sdk
  <2> QED BY <2>1
<1> QED BY <1>1 DEF Later

\* The slot given to a new client: nobody waits for it, and its client has no other.
LEMMA AddclientKeeps ==
  ASSUME NEW x, SdkInv(x), Awaited(x), NEW a \in App, NEW v \in Check, NEW y, y = XlinkClientAddclient(x, a, v)
  PROVE  SdkInv(y) /\ Later(x, y) /\ y.done = x.done /\ \A b \in App : b # a => Quiet(x, y, b)
<1>1. x \in Sdk /\ x.client \in [Slot -> Client] /\ x.list \in Seq(Item) /\ x.key \in Key
  BY DEF SdkInv, Sdk
<1>2. CASE Mine(x, a) # {}
  <2>1. y = [x EXCEPT !.count = TRUE]
    BY <1>2 DEF XlinkClientAddclient
  <2>2. y \in Sdk /\ Alike(x, y) /\ y.list = x.list /\ y.out = x.out /\ y.done = x.done
    BY <1>1, <2>1 DEF Sdk, Alike, Same
  <2>3. Later(x, y)
    BY <1>1, <2>2, LaterSame DEF Alike
  <2>4. Told(y)
    BY <1>1, <2>2, <2>3, ToldStays DEF SdkInv
  <2>5. Meant(y)
    BY <1>1, <2>2, FromItself, MeantStays DEF Alike, Same, SdkInv
  <2> QED BY <2>2, <2>3, <2>4, <2>5, AlikeKeeps
<1>3. CASE Mine(x, a) = {} /\ Free(x) = {}
  <2>1. y = x
    BY <1>3 DEF XlinkClientAddclient
  <2>2. Later(x, y)
    BY <1>1, <2>1, LaterSame
  <2> QED BY <2>1, <2>2 DEF Quiet
<1>4. CASE Mine(x, a) = {} /\ Free(x) # {}
  <2> DEFINE s == Min(Free(x))
             e == x.client[s]
             g == [e EXCEPT !.app = a, !.active = TRUE, !.check = v, !.login = x.key, !.own = FALSE]
  <2>1. s \in Slot /\ ~e.active /\ e \in Client
    <3>1. Free(x) \in SUBSET Nat
      BY UdpAssumption DEF Free, Slot
    <3>2. s \in Free(x)
      BY <1>4, <3>1, MinIs
    <3> QED BY <1>1, <3>2 DEF Free
  <2>2. y = [x EXCEPT !.client[s] = [@ EXCEPT !.app = a, !.active = TRUE, !.check = v, !.login = x.key, !.own = FALSE], !.count = TRUE]
    BY <1>4 DEF XlinkClientAddclient
  <2> HIDE DEF s
  <2>3. y = [x EXCEPT !.client = [x.client EXCEPT ![s] = g], !.count = TRUE]
    BY <1>1, <2>1, <2>2
  <2> HIDE DEF e
  <2>4. g \in Client /\ g.app = a /\ g.active /\ g.check = v /\ g.login = x.key /\ ~g.own
    BY <1>1, <2>1 DEF Client
  <2> HIDE DEF g
  <2> DEFINE c == [x.client EXCEPT ![s] = g]
  <2>5. c \in [Slot -> Client] /\ c[s] = g /\ \A t \in Slot : t # s => c[t] = x.client[t]
    BY <1>1, <2>1, <2>4
  <2> HIDE DEF c
  <2>6. y \in Sdk /\ y.client = c /\ y.count = TRUE /\ y.list = x.list /\ y.out = x.out /\ y.key = x.key
        /\ y.done = x.done /\ y.swallowed = x.swallowed /\ y.stray = x.stray
    BY <1>1, <2>3, <2>5 DEF Sdk, c
  <2>7. \A t \in Slot : ~Has(x, t, a)
    BY <1>4 DEF Mine, Has
  <2>8. Sound(y)
    <3>1. v # 0
      BY UdpAssumption
    <3>2. ASSUME NEW t \in Slot, NEW u \in Slot, y.client[t].active, y.client[u].active, y.client[t].app = y.client[u].app PROVE t = u
      <4>1. CASE t # s /\ u # s
        BY <2>5, <2>6, <3>2, <4>1 DEF Sound, SdkInv
      <4>2. CASE t = s /\ u # s
        BY <2>4, <2>5, <2>6, <2>7, <3>2, <4>2 DEF Has
      <4>3. CASE t # s /\ u = s
        BY <2>4, <2>5, <2>6, <2>7, <3>2, <4>3 DEF Has
      <4> QED BY <4>1, <4>2, <4>3
    <3>3. ASSUME NEW t \in Slot, y.client[t].active PROVE y.client[t].check # 0 /\ y.count /\ y.client[t].login \in {y.key, Unset, Edge}
      <4>1. CASE t = s
        BY <2>4, <2>5, <2>6, <3>1, <4>1
      <4>2. CASE t # s
        BY <2>5, <2>6, <3>3, <4>2 DEF Sound, SdkInv
      <4> QED BY <4>1, <4>2
    <3> QED BY <3>2, <3>3 DEF Sound
  <2>9. Own(y) /\ Once(y)
    BY <2>4, <2>5, <2>6 DEF Own, Once, SdkInv
  <2>10. Later(x, y)
    BY <1>1, <2>6, LaterSame
  <2>11. Told(y)
    BY <1>1, <2>6, <2>10, ToldStays DEF SdkInv
  <2>12. Meant(y)
    <3>1. ASSUME NEW i \in 1..Len(y.list), ~y.stray, NEW t \in y.list[i].users PROVE y.client[t].app \in y.list[i].to
      <4>1. x.list[i] \in Item
        BY <1>1, <2>6, ElementOfSeq
      <4>2. t \in Slot
        BY <2>6, <4>1 DEF Item
      <4>3. x.client[t].active /\ x.client[t].app \in x.list[i].to
        BY <2>6, <3>1 DEF Awaited, AwaitedIn, Meant, MeantFor, SdkInv
      <4>4. t # s
        BY <2>1, <4>3 DEF e
      <4> QED BY <2>5, <2>6, <4>2, <4>3, <4>4
    <3> QED BY <3>1 DEF Meant, MeantFor
  <2>13. ASSUME NEW b \in App, b # a PROVE Quiet(x, y, b)
    <3>1. ASSUME NEW t \in Slot, Has(y, t, b) PROVE Has(x, t, b) /\ y.client[t].msgid = x.client[t].msgid
      <4>1. t # s
        BY <2>4, <2>5, <2>6, <2>13, <3>1 DEF Has
      <4> QED BY <2>5, <2>6, <3>1, <4>1 DEF Has
    <3> QED BY <2>6, <3>1 DEF Quiet
  <2> QED BY <2>6, <2>8, <2>9, <2>10, <2>11, <2>12, <2>13 DEF SdkInv
<1> QED BY <1>2, <1>3, <1>4

\* What a handler of a packet p of app a may do: the other apps notice nothing, and of a's own messages p is handled at most.
Turned(x, z, a, p) ==
  /\ \A b \in App : b # a => Quiet(x, z, b)
  /\ \/ Quiet(x, z, a)
     \/ p.cmd = "hello" /\ z.done[a] = x.done[a]
     \/ /\ p.cmd \in {"pipe", "set"}
        /\ \A n \in 1..MaxPipe : n # p.id => z.done[a][n] = x.done[a][n]
        /\ \A s \in Slot : Has(z, s, a) => z.client[s].msgid = p.id

Handled(x, z, a, p) == SdkInv(z) /\ Later(x, z) /\ Turned(x, z, a, p)

\* A letter that is a plain reply.
LEMMA ReplyAlike ==
  ASSUME NEW x, SdkInv(x), NEW a \in App, NEW q \in {"refused", "done"}, NEW y,
         y = XlinkClientSendDataToAddr(x, a, [cmd |-> q])
  PROVE  SdkInv(y) /\ Alike(x, y)
<1> DEFINE p == [cmd |-> q]
           o == [to |-> a, p |-> p]
<1>1. p \in Packet /\ p.cmd # "ack" /\ p.cmd # "item" /\ p.cmd # "session"
  BY DEF Packet
<1>2. o.p = p /\ y = XlinkClientSendDataToAddr(x, a, p)
  OBVIOUS
<1> HIDE DEF p
<1>3. Honest(x, o)
  BY <1>1, <1>2 DEF Honest
<1> QED BY <1>1, <1>2, <1>3, SendIs

LEMMA ReplyKeeps ==
  ASSUME NEW x, SdkInv(x), NEW a \in App, NEW q \in {"refused", "done"}, NEW y,
         y = XlinkClientSendDataToAddr(x, a, [cmd |-> q])
  PROVE  SdkInv(y) /\ Later(x, y) /\ \A b \in App : Quiet(x, y, b)
<1>1. SdkInv(y) /\ Alike(x, y)
  BY ReplyAlike
<1> QED BY <1>1, AlikeKeeps DEF SdkInv

LEMMA LaterItself == ASSUME NEW x \in Sdk PROVE Later(x, x)
BY LaterSame

LEMMA HandshakeKeeps ==
  ASSUME NEW x, SdkInv(x), Awaited(x), NEW a \in App, NEW p, p.cmd = "hello", NEW gone \in SUBSET Slot, NEW v \in Check,
         NEW z, z = XlinkProcessUdpHandshake_V4(x, a, p, gone, v)
  PROVE  Handled(x, z, a, p)
<1> DEFINE h == XlinkClientCheckHeartbeat(x, gone)
           y == XlinkClientAddclient(h, a, v)
           s == Min(Mine(y, a))
           q == [cmd |-> "session", sess |-> [slot |-> s, check |-> y.client[s].check]]
<1>1. z = IF p.key # x.key THEN XlinkClientSendDataToAddr(x, a, [cmd |-> "refused"])
          ELSE IF Mine(y, a) = {} THEN XlinkClientSendDataToAddr(y, a, [cmd |-> "refused"])
          ELSE XlinkClientSendDataToAddr(y, a, q)
  BY DEF XlinkProcessUdpHandshake_V4
<1> HIDE DEF h
<1>2. SdkInv(h) /\ Later(x, h) /\ (\A b \in App : Quiet(x, h, b)) /\ Awaited(h)
  BY HeartbeatKeeps DEF h
<1> HIDE DEF y
<1>3. SdkInv(y) /\ Later(h, y) /\ y.done = h.done /\ \A b \in App : b # a => Quiet(h, y, b)
  BY <1>2, AddclientKeeps DEF y
<1>4. x \in Sdk /\ h \in Sdk /\ y \in Sdk
  BY <1>2, <1>3 DEF SdkInv
<1>5. Later(x, y) /\ \A b \in App : b # a => Quiet(x, y, b)
  BY <1>2, <1>3, <1>4, LaterAgain, QuietAgain
<1>6. y.done[a] = x.done[a]
  BY <1>2, <1>3 DEF Quiet
<1>7. ASSUME SdkInv(z), Later(y, z), \A b \in App : Quiet(y, z, b) PROVE Handled(x, z, a, p)
  <2>1. z \in Sdk
    BY <1>7 DEF SdkInv
  <2>2. Later(x, z) /\ \A b \in App : b # a => Quiet(x, z, b)
    BY <1>4, <1>5, <1>7, <2>1, LaterAgain, QuietAgain
  <2>3. z.done[a] = x.done[a]
    BY <1>6, <1>7 DEF Quiet
  <2> QED BY <1>7, <2>2, <2>3 DEF Handled, Turned
<1>8. CASE p.key # x.key
  <2>1. SdkInv(z) /\ Later(x, z) /\ \A b \in App : Quiet(x, z, b)
    BY <1>1, <1>8, ReplyKeeps
  <2> QED BY <2>1 DEF Handled, Turned
<1>9. CASE p.key = x.key /\ Mine(y, a) = {}
  <2>1. SdkInv(z) /\ Later(y, z) /\ \A b \in App : Quiet(y, z, b)
    BY <1>1, <1>3, <1>9, ReplyKeeps
  <2> QED BY <1>7, <2>1
<1>10. CASE p.key = x.key /\ Mine(y, a) # {}
  <2> DEFINE o == [to |-> a, p |-> q]
  <2>1. s \in Slot /\ y.client[s].active
    <3>1. Mine(y, a) \in SUBSET Nat
      BY UdpAssumption DEF Mine, Slot
    <3>2. s \in Mine(y, a)
      BY <1>10, <3>1, MinIs
    <3> QED BY <3>2 DEF Mine
  <2>2. y.client[s].check \in Check \cup {0} /\ y.client[s].check # 0
    <3>1. y.client[s] \in Client
      BY <1>4, <2>1 DEF Sdk
    <3> QED BY <1>3, <2>1, <3>1 DEF Client, SdkInv, Sound
  <2> HIDE DEF s
  <2>3. q \in Packet /\ q.cmd = "session" /\ q.sess.check # 0
    BY <2>1, <2>2 DEF Packet, Session
  <2>4. z = XlinkClientSendDataToAddr(y, a, q)
    BY <1>1, <1>10
  <2>5. o.p = q
    OBVIOUS
  <2> HIDE DEF q
  <2>6. Honest(y, o)
    BY <2>3, <2>5 DEF Honest
  <2>7. SdkInv(z) /\ Alike(y, z)
    BY <1>3, <2>3, <2>4, <2>6, SendIs
  <2>8. SdkInv(z) /\ Later(y, z) /\ \A b \in App : Quiet(y, z, b)
    BY <1>3, <2>7, AlikeKeeps DEF SdkInv
  <2> QED BY <1>7, <2>8
<1> QED BY <1>8, <1>9, <1>10

\* A key is set only while none counts as set: every session was opened with one that does not count.
LEMMA SetAckKeeps ==
  ASSUME NEW x, SdkInv(x), NEW a \in App, NEW p, p.cmd = "setack", p.key \in Keys,
         NEW z, z = XlinkProcessUdpSETACK_V4(x, a, p)
  PROVE  Handled(x, z, a, p)
<1> DEFINE y == [x EXCEPT !.key = p.key]
<1>1. x \in Sdk
  BY DEF SdkInv
<1>2. CASE x.key \notin {Unset, Edge}
  <2>1. SdkInv(z) /\ Later(x, z) /\ \A b \in App : Quiet(x, z, b)
    BY <1>2, ReplyKeeps DEF XlinkProcessUdpSETACK_V4
  <2> QED BY <2>1 DEF Handled, Turned
<1>3. CASE x.key \in {Unset, Edge}
  <2>1. z = XlinkClientSendDataToAddr(y, a, [cmd |-> "done"])
    BY <1>3 DEF XlinkProcessUdpSETACK_V4
  <2>2. y \in Sdk /\ y.client = x.client /\ y.count = x.count /\ y.list = x.list /\ y.out = x.out
        /\ y.done = x.done /\ y.swallowed = x.swallowed /\ y.stray = x.stray
    BY <1>1 DEF Sdk, Key
  <2> HIDE DEF y
  <2>3. Sound(y)
    BY <1>3, <2>2 DEF Sound, SdkInv
  <2>4. Own(y) /\ Once(y)
    BY <2>2 DEF Own, Once, SdkInv
  <2>5. Later(x, y)
    BY <1>1, <2>2, LaterSame
  <2>6. Told(y)
    BY <1>1, <2>2, <2>5, ToldStays DEF SdkInv
  <2>7. Meant(y)
    BY <1>1, <2>2, FromItself, MeantStays DEF SdkInv
  <2>8. SdkInv(y)
    BY <2>2, <2>3, <2>4, <2>6, <2>7 DEF SdkInv
  <2>9. SdkInv(z) /\ Later(y, z) /\ \A b \in App : Quiet(y, z, b)
    BY <2>1, <2>8, ReplyKeeps
  <2>10. \A b \in App : Quiet(x, y, b)
    BY <2>2 DEF Quiet, Has
  <2>11. z \in Sdk
    BY <2>9 DEF SdkInv
  <2>12. Later(x, z)
    BY <1>1, <2>2, <2>5, <2>9, <2>11, LaterAgain
  <2>13. \A b \in App : Quiet(x, z, b)
    BY <2>9, <2>10, QuietAgain
  <2> QED BY <2>9, <2>12, <2>13 DEF Handled, Turned
<1> QED BY <1>2, <1>3

\* The count is set by every packet within a session.
LEMMA CountKeeps ==
  ASSUME NEW x, SdkInv(x), NEW y, y = [x EXCEPT !.count = TRUE]
  PROVE  SdkInv(y) /\ Alike(x, y) /\ y.count /\ y.client = x.client /\ y.list = x.list
<1>1. x \in Sdk
  BY DEF SdkInv
<1>2. y \in Sdk /\ y.client = x.client /\ y.list = x.list /\ y.out = x.out /\ Alike(x, y) /\ y.count
  BY <1>1 DEF Sdk, Alike, Same
<1>3. Told(y)
  BY <1>2 DEF Told, Honest, Alike, SdkInv
<1>4. Meant(y)
  BY <1>1, <1>2, FromItself, MeantStays DEF Alike, SdkInv
<1> QED BY <1>2, <1>3, <1>4, AlikeKeeps

LEMMA AlikeAgain ==
  ASSUME NEW x, NEW y, NEW z, Alike(x, y), Alike(y, z)
  PROVE  Alike(x, z)
BY DEF Alike, Same

\* What changes nothing of the sessions is a handler that handles nothing.
LEMMA AlikeHandled ==
  ASSUME NEW x, NEW z, SdkInv(x), SdkInv(z), Alike(x, z), NEW a, NEW p
  PROVE  Handled(x, z, a, p)
<1>1. Later(x, z) /\ \A b \in App : Quiet(x, z, b)
  BY AlikeKeeps DEF SdkInv
<1> DEFINE Q == Quiet(x, z, a)
<1>2. Q
  BY DEF Quiet, Alike, Has, Same
<1> QED BY <1>1, <1>2 DEF Handled, Turned

\* A message for active slots is meant for their clients.
LEMMA EnqueueKeeps ==
  ASSUME NEW x, SdkInv(x), NEW users \in SUBSET Slot, \A s \in users : x.client[s].active, NEW y, y = Enqueue(x, users)
  PROVE  SdkInv(y) /\ Alike(x, y) /\ (Awaited(x) => Awaited(y)) /\ y.client = x.client
<1> DEFINE id == getUdpMsgID(x.msgid)
           m == [id |-> id, users |-> users, to |-> {x.client[s].app : s \in users}]
           l == Append(x.list, m)
<1>1. x \in Sdk /\ x.client \in [Slot -> Client] /\ x.list \in Seq(Item) /\ x.msgid \in Nat
  BY DEF SdkInv, Sdk
<1>2. id \in Nat
  BY <1>1 DEF getUdpMsgID
<1>3. {x.client[s].app : s \in users} \subseteq App
  BY <1>1 DEF Client
<1>4. y = [x EXCEPT !.msgid = id, !.list = l]
  BY <1>1 DEF Enqueue
<1> HIDE DEF id
<1>5. m \in Item /\ m.users = users /\ \A s \in users : x.client[s].app \in m.to
  BY <1>2, <1>3 DEF Item
<1> HIDE DEF m
<1>6. l \in Seq(Item) /\ Len(l) = Len(x.list) + 1 /\ Len(x.list) \in Nat /\ (\A i \in 1..Len(x.list) : l[i] = x.list[i]) /\ l[Len(x.list) + 1] = m
  BY <1>1, <1>5, AppendProperties, LenProperties
<1> HIDE DEF l
<1>7. y \in Sdk /\ y.client = x.client /\ y.list = l /\ y.out = x.out /\ y.stray = x.stray /\ Alike(x, y)
  BY <1>1, <1>2, <1>4, <1>6 DEF Sdk, Alike, Same
<1>8. Told(y)
  BY <1>7 DEF Told, Honest, Alike, SdkInv
<1>9. \A i \in 1..Len(l) : i \in 1..Len(x.list) \/ l[i] = m
  BY <1>6
<1>10. Meant(y)
  BY <1>5, <1>6, <1>7, <1>9 DEF Meant, MeantFor, SdkInv
<1>11. Awaited(x) => Awaited(y)
  BY <1>5, <1>6, <1>7, <1>9 DEF Awaited, AwaitedIn
<1> QED BY <1>7, <1>8, <1>10, <1>11, AlikeKeeps

LEMMA AlikeItself == ASSUME NEW x PROVE Alike(x, x)
BY DEF Alike, Same

LEMMA SendPipeKeeps ==
  ASSUME NEW x, SdkInv(x), NEW slots \in SUBSET Slot, NEW y, y = XlinkSendUdpPipe(x, slots)
  PROVE  SdkInv(y) /\ Alike(x, y) /\ (Awaited(x) => Awaited(y))
<1> DEFINE users == {s \in slots : x.client[s].active}
<1>1. y = x \/ y = Enqueue(x, users)
  BY DEF XlinkSendUdpPipe
<1>2. users \in SUBSET Slot /\ \A s \in users : x.client[s].active
  OBVIOUS
<1> HIDE DEF users
<1> QED BY <1>1, <1>2, AlikeItself, EnqueueKeeps

LEMMA SyncKeeps ==
  ASSUME NEW x, SdkInv(x), NEW y, y = XlinkClientSendUdpDataPointSync_V2(x)
  PROVE  SdkInv(y) /\ Alike(x, y) /\ (Awaited(x) => Awaited(y))
<1> DEFINE users == {s \in Slot : x.client[s].active}
<1>1. y = Enqueue(x, users)
  BY DEF XlinkClientSendUdpDataPointSync_V2
<1>2. users \in SUBSET Slot /\ \A s \in users : x.client[s].active
  OBVIOUS
<1> HIDE DEF users
<1> QED BY <1>1, <1>2, EnqueueKeeps

\* An acknowledgement of a message that was handled or swallowed, or a refusal.
LEMMA AckAlike ==
  ASSUME NEW x, SdkInv(x), NEW a \in App, NEW id \in 1..MaxPipe, NEW ok \in BOOLEAN,
         ok => x.done[a][id] >= 1 \/ <<a, id>> \in x.swallowed,
         NEW y, y = XlinkClientSendDataToAddr(x, a, [cmd |-> "ack", id |-> id, ok |-> ok])
  PROVE  SdkInv(y) /\ Alike(x, y)
<1> DEFINE p == [cmd |-> "ack", id |-> id, ok |-> ok]
           o == [to |-> a, p |-> p]
<1>1. p \in Packet /\ p.cmd = "ack" /\ p.id = id /\ p.ok = ok
  BY DEF Packet
<1>2. o.p = p /\ o.to = a /\ y = XlinkClientSendDataToAddr(x, a, p)
  OBVIOUS
<1> HIDE DEF p
<1>3. Honest(x, o)
  BY <1>1, <1>2 DEF Honest
<1> QED BY <1>1, <1>2, <1>3, SendIs

\* Message id of app a is handled in slot s.
Taken(x, a, s, id) == [x EXCEPT !.client[s].msgid = id, !.client[s].own = TRUE, !.count = TRUE, !.done[a][id] = @ + 1]

\* A message that was not handled before is, and its number is stored in the sender's only slot.
LEMMA HandleKeeps ==
  ASSUME NEW x, SdkInv(x), NEW a \in App, NEW s \in Slot, NEW id \in 1..MaxPipe, Has(x, s, a), x.done[a][id] = 0,
         NEW y, y = Taken(x, a, s, id)
  PROVE  /\ SdkInv(y) /\ Later(x, y) /\ y.done[a][id] = 1
         /\ \A b \in App : b # a => Quiet(x, y, b)
         /\ \A n \in 1..MaxPipe : n # id => y.done[a][n] = x.done[a][n]
         /\ \A t \in Slot : Has(y, t, a) => y.client[t].msgid = id
<1> DEFINE e == x.client[s]
           g == [e EXCEPT !.msgid = id, !.own = TRUE]
           c == [x.client EXCEPT ![s] = g]
           dn == [x.done EXCEPT ![a] = [x.done[a] EXCEPT ![id] = 1]]
<1>1. x \in Sdk /\ x.client \in [Slot -> Client] /\ x.list \in Seq(Item) /\ x.done \in [App -> [1..MaxPipe -> Nat]]
  BY DEF SdkInv, Sdk
<1>2. y = [x EXCEPT !.client = c, !.count = TRUE, !.done = dn]
  <2> DEFINE c1 == [x.client EXCEPT ![s] = [e EXCEPT !.msgid = id]]
             c2 == [c1 EXCEPT ![s] = [c1[s] EXCEPT !.own = TRUE]]
             d2 == [x.done EXCEPT ![a] = [x.done[a] EXCEPT ![id] = x.done[a][id] + 1]]
  <2>1. y = [x EXCEPT !.client = c2, !.count = TRUE, !.done = d2]
    BY <1>1 DEF Taken
  <2>2. d2 = dn
    BY <1>1
  <2>3. c2 = c
    <3>1. c1[s] = [e EXCEPT !.msgid = id]
      BY <1>1
    <3>2. [c1[s] EXCEPT !.own = TRUE] = g
      BY <3>1
    <3> HIDE DEF g
    <3>3. [c1 EXCEPT ![s] = g] = [x.client EXCEPT ![s] = g]
      BY <1>1
    <3> QED BY <3>2, <3>3
  <2> HIDE DEF c2, d2, c, dn
  <2> QED BY <2>1, <2>2, <2>3
<1>3. e \in Client /\ e.active = TRUE /\ e.app = a
  <2>1. e \in Client /\ e.active /\ e.app = a
    BY <1>1 DEF Has
  <2> HIDE DEF e
  <2> QED BY <2>1 DEF Client
<1> HIDE DEF e
<1>4. g \in Client /\ g.active = TRUE /\ g.app = a /\ g.msgid = id /\ g.check = e.check /\ g.login = e.login
  <2>1. id \in 0..MaxPipe
    BY UdpAssumption
  <2> QED BY <1>3, <2>1 DEF Client
<1> HIDE DEF g
<1>5. c \in [Slot -> Client] /\ c[s] = g /\ \A t \in Slot : t # s => c[t] = x.client[t]
  BY <1>1, <1>4
<1> HIDE DEF c
<1>6. dn \in [App -> [1..MaxPipe -> Nat]] /\ dn[a][id] = 1 /\ (\A b \in App : b # a => dn[b] = x.done[b])
      /\ \A n \in 1..MaxPipe : n # id => dn[a][n] = x.done[a][n]
  BY <1>1
<1> HIDE DEF dn
<1>7. y \in Sdk /\ y.client = c /\ y.count = TRUE /\ y.done = dn /\ y.list = x.list /\ y.out = x.out /\ y.key = x.key
      /\ y.swallowed = x.swallowed /\ y.stray = x.stray
  BY <1>1, <1>2, <1>5, <1>6 DEF Sdk
<1>8. \A t \in Slot : c[t].app = x.client[t].app /\ c[t].active = x.client[t].active /\ c[t].check = x.client[t].check
                        /\ c[t].login = x.client[t].login
  <2> TAKE t \in Slot
  <2>1. CASE t = s
    <3>1. c[t] = g /\ x.client[t] = e
      BY <1>5, <2>1 DEF e
    <3> QED BY <1>3, <1>4, <3>1
  <2>2. CASE t # s
    BY <1>5, <2>2
  <2> QED BY <2>1, <2>2
<1>9. \A t \in Slot : Has(x, t, a) => t = s
  BY <1>1 DEF Has, Sound, SdkInv
<1>10. Sound(y)
  BY <1>7, <1>8 DEF Sound, SdkInv
<1>11. Later(x, y)
  <2>1. ASSUME NEW b \in App, NEW n \in 1..MaxPipe PROVE x.done[b][n] <= y.done[b][n]
    <3>1. x.done[b][n] \in Nat
      BY <1>1
    <3>2. CASE b = a /\ n = id
      <4>1. x.done[b][n] = 0 /\ y.done[b][n] = 1
        BY <1>6, <1>7, <3>2
      <4> QED BY <4>1
    <3>3. CASE b # a \/ n # id
      <4>1. y.done[b][n] = x.done[b][n]
        BY <1>6, <1>7, <3>3
      <4> QED BY <3>1, <4>1
    <3> QED BY <3>2, <3>3
  <2> QED BY <1>7, <2>1 DEF Later
<1>12. Own(y)
  <2>1. ASSUME NEW t \in Slot, y.client[t].active, y.client[t].own
        PROVE y.client[t].msgid # 0 /\ y.done[y.client[t].app][y.client[t].msgid] >= 1
    <3>1. CASE t = s
      <4>1. y.client[t] = g /\ id # 0
        BY <1>5, <1>7, <3>1
      <4>2. y.client[t].msgid = id /\ y.client[t].app = a
        BY <1>4, <4>1
      <4>3. y.done[a][id] = 1
        BY <1>6, <1>7
      <4> QED BY <4>1, <4>2, <4>3
    <3>2. CASE t # s
      <4>1. x.client[t] \in Client /\ y.client[t] = x.client[t] /\ x.client[t].app # a
        BY <1>1, <1>5, <1>7, <1>9, <2>1, <3>2 DEF Has
      <4>2. x.client[t].app \in App /\ x.client[t].msgid # 0 /\ x.done[x.client[t].app][x.client[t].msgid] >= 1
        BY <2>1, <4>1 DEF Own, SdkInv, Client
      <4> QED BY <1>6, <1>7, <4>1, <4>2
    <3> QED BY <3>1, <3>2
  <2> QED BY <2>1 DEF Own
<1>13. Once(y)
  <2>1. ASSUME NEW b \in App, NEW n \in 1..MaxPipe PROVE y.done[b][n] <= 1
    <3>1. CASE b = a /\ n = id
      BY <1>6, <1>7, <3>1
    <3>2. CASE b # a \/ n # id
      <4>1. y.done[b][n] = x.done[b][n]
        BY <1>6, <1>7, <3>2
      <4> QED BY <4>1 DEF Once, SdkInv
    <3> QED BY <3>1, <3>2
  <2> QED BY <2>1 DEF Once
<1>14. Told(y)
  BY <1>1, <1>7, <1>11, ToldStays DEF SdkInv
<1>15. Meant(y)
  <2>1. From(y.list, x.list)
    BY <1>7, FromItself
  <2>2. \A t \in Slot : y.client[t].app = x.client[t].app
    BY <1>7, <1>8
  <2>3. (x.stray => y.stray) /\ y \in Sdk
    BY <1>7
  <2>4. Meant(x)
    BY DEF SdkInv
  <2> QED BY ONLY <1>1, <2>1, <2>2, <2>3, <2>4, MeantStays
<1>16. ASSUME NEW b \in App, b # a PROVE Quiet(x, y, b)
  <2>1. \A t \in Slot : Has(y, t, b) => t # s
    BY <1>4, <1>5, <1>7, <1>16 DEF Has
  <2> QED BY <1>5, <1>6, <1>7, <1>16, <2>1 DEF Quiet, Has
<1>17. \A t \in Slot : Has(y, t, a) => y.client[t].msgid = id
  <2>1. \A t \in Slot : Has(y, t, a) => t = s
    BY <1>7, <1>8, <1>9 DEF Has
  <2> QED BY <1>4, <1>5, <1>7, <2>1
<1> QED BY <1>6, <1>7, <1>10, <1>11, <1>12, <1>13, <1>14, <1>15, <1>16, <1>17 DEF SdkInv

\* A message whose number the slot holds already.
LEMMA SwallowKeeps ==
  ASSUME NEW x, SdkInv(x), NEW a \in App, NEW s \in Slot, NEW id \in 1..MaxPipe, Has(x, s, a), x.client[s].msgid = id,
         NEW y, y = [x EXCEPT !.count = TRUE, !.swallowed = IF x.client[s].own THEN @ ELSE @ \cup {<<a, id>>}]
  PROVE  /\ SdkInv(y) /\ Later(x, y) /\ (\A b \in App : Quiet(x, y, b))
         /\ y.done[a][id] >= 1 \/ <<a, id>> \in y.swallowed
<1> DEFINE w == IF x.client[s].own THEN x.swallowed ELSE x.swallowed \cup {<<a, id>>}
<1>1. x \in Sdk
  BY DEF SdkInv
<1>2. w \in SUBSET (App \X (1..MaxPipe)) /\ x.swallowed \subseteq w /\ (~x.client[s].own => <<a, id>> \in w)
  BY <1>1 DEF Sdk
<1>3. y = [x EXCEPT !.count = TRUE, !.swallowed = w]
  BY <1>1
<1> HIDE DEF w
<1>4. y \in Sdk /\ y.client = x.client /\ y.count = TRUE /\ y.done = x.done /\ y.list = x.list /\ y.out = x.out /\ y.key = x.key
      /\ y.swallowed = w /\ y.stray = x.stray
  BY <1>1, <1>2, <1>3 DEF Sdk
<1>5. Sound(y) /\ Own(y) /\ Once(y)
  BY <1>4 DEF Sound, Own, Once, SdkInv
<1>6. Later(x, y)
  BY <1>1, <1>2, <1>4, LaterSame
<1>7. Told(y)
  <2>1. Told(x) /\ y.out = x.out /\ y \in Sdk
    BY <1>4 DEF SdkInv
  <2> QED BY ONLY <1>1, <1>6, <2>1, ToldStays
<1>8. Meant(y)
  <2>1. From(y.list, x.list) /\ Meant(x) /\ y \in Sdk /\ (x.stray => y.stray) /\ \A t \in Slot : y.client[t].app = x.client[t].app
    BY <1>4, FromItself DEF SdkInv
  <2> QED BY ONLY <1>1, <2>1, MeantStays
<1>9. \A b \in App : Quiet(x, y, b)
  BY <1>4 DEF Quiet, Has
<1>10. y.done[a][id] >= 1 \/ <<a, id>> \in y.swallowed
  <2>1. CASE x.client[s].own
    <3>1. x.done[a][id] >= 1
      BY <2>1 DEF Has, Own, SdkInv
    <3> QED BY <1>4, <3>1
  <2>2. CASE ~x.client[s].own
    BY <1>2, <1>4, <2>2
  <2> QED BY <2>1, <2>2
<1> QED BY <1>4, <1>5, <1>6, <1>7, <1>8, <1>9, <1>10 DEF SdkInv

LEMMA HandledThen ==
  ASSUME NEW x \in Sdk, NEW y, NEW z, NEW a \in App, NEW p, Handled(x, y, a, p), SdkInv(z), Alike(y, z)
  PROVE  Handled(x, z, a, p)
<1>1. SdkInv(y) /\ Later(x, y) /\ Turned(x, y, a, p) /\ y \in Sdk /\ z \in Sdk
  BY DEF Handled, SdkInv
<1>2. Later(y, z) /\ \A b \in App : Quiet(y, z, b)
  BY <1>1, AlikeKeeps DEF SdkInv
<1>3. Later(x, z)
  BY <1>1, <1>2, LaterAgain
<1>4. \A b \in App : b # a => Quiet(x, z, b)
  BY <1>1, <1>2, QuietAgain DEF Turned
<1>5. CASE Quiet(x, y, a)
  <2>1. Quiet(x, z, a)
    BY <1>2, <1>5, QuietAgain
  <2> QED BY <1>3, <1>4, <2>1 DEF Handled, Turned
<1>6. CASE p.cmd = "hello" /\ y.done[a] = x.done[a]
  BY <1>2, <1>3, <1>4, <1>6 DEF Handled, Turned, Quiet
<1>7. CASE /\ p.cmd \in {"pipe", "set"}
           /\ \A n \in 1..MaxPipe : n # p.id => y.done[a][n] = x.done[a][n]
           /\ \A s \in Slot : Has(y, s, a) => y.client[s].msgid = p.id
  <2>1. \A n \in 1..MaxPipe : n # p.id => z.done[a][n] = x.done[a][n]
    BY <1>2, <1>7 DEF Quiet
  <2>2. \A s \in Slot : Has(z, s, a) => z.client[s].msgid = p.id
    BY <1>2, <1>7 DEF Quiet
  <2> QED BY <1>3, <1>4, <1>7, <2>1, <2>2 DEF Handled, Turned
<1> QED BY <1>1, <1>5, <1>6, <1>7 DEF Turned

\* Every slot of app a holds message n, if that was handled.
Repeat(x, a, n) == x.done[a][n] >= 1 => \A s \in Slot : Has(x, s, a) => x.client[s].msgid = n

\* A message an app may send: the first time it was never handled, and resent it is the last one.
Numbered(x, a, p) ==
  /\ p.sess \in Session /\ p.id \in 1..MaxPipe /\ p.resend \in BOOLEAN
  /\ ~p.resend => x.done[a][p.id] = 0
  /\ Repeat(x, a, p.id)

\* What PIPE and SET share: refused, acknowledged only, or handled and acknowledged.
LEMMA MessageKeeps ==
  ASSUME NEW x, SdkInv(x), NEW a \in App, NEW p, p.cmd \in {"pipe", "set"}, Numbered(x, a, p), NEW z,
         z = XlinkProcessUdpPipe_V4(x, a, p) \/ z = XlinkProcessUdpSet_V4(x, a, p)
  PROVE  Handled(x, z, a, p)
<1> DEFINE s == p.sess.slot
           id == p.id
           ack(y, ok) == XlinkClientSendDataToAddr(y, a, [cmd |-> "ack", id |-> id, ok |-> ok])
           y1 == [x EXCEPT !.count = TRUE, !.swallowed = IF x.client[s].own THEN @ ELSE @ \cup {<<a, id>>}]
           y2 == Taken(x, a, s, id)
           login == XlinkClientcheckclientLogin(x, a, p.sess)
           again == p.resend /\ x.client[s].msgid = id
           w == ack(y2, TRUE)
<1>1. x \in Sdk /\ id \in 1..MaxPipe /\ s \in Slot
  BY DEF SdkInv, Numbered, Session
<1>2. /\ ~login => z = ack(x, FALSE)
      /\ login /\ again => z = ack(y1, TRUE)
      /\ login /\ ~again => z = w \/ z = XlinkSendUdpPipe(w, {s})
  <2>1. CASE z = XlinkProcessUdpPipe_V4(x, a, p)
    <3>1. z = IF ~login THEN ack(x, FALSE) ELSE IF again THEN ack(y1, TRUE) ELSE XlinkSendUdpPipe(w, {s})
      BY <2>1, Zenon DEF XlinkProcessUdpPipe_V4, Taken
    <3> HIDE DEF login, again, y1, w
    <3> QED BY <3>1
  <2>2. CASE z = XlinkProcessUdpSet_V4(x, a, p)
    <3>1. z = IF ~login THEN ack(x, FALSE) ELSE IF again THEN ack(y1, TRUE) ELSE w
      BY <2>2, Zenon DEF XlinkProcessUdpSet_V4, Taken
    <3> HIDE DEF login, again, y1, w
    <3> QED BY <3>1
  <2> QED BY <2>1, <2>2
<1>3. login => Has(x, s, a)
  BY DEF XlinkClientcheckclientLogin, Has
<1> HIDE DEF login
<1>4. CASE ~login
  <2>1. z = ack(x, FALSE)
    BY <1>2, <1>4
  <2>2. SdkInv(z) /\ Alike(x, z)
    BY <1>1, <2>1, AckAlike
  <2> QED BY <2>2, AlikeHandled
<1>5. CASE login /\ again
  <2> HIDE DEF again
  <2>1. z = ack(y1, TRUE)
    BY <1>2, <1>5
  <2>2. Has(x, s, a) /\ x.client[s].msgid = id
    BY <1>3, <1>5 DEF again
  <2> DEFINE y == y1
  <2>3. y = [x EXCEPT !.count = TRUE, !.swallowed = IF x.client[s].own THEN @ ELSE @ \cup {<<a, id>>}] /\ z = ack(y, TRUE)
    BY <2>1
  <2> HIDE DEF y, s, id
  <2>4. SdkInv(y) /\ Later(x, y) /\ (\A b \in App : Quiet(x, y, b)) /\ (y.done[a][id] >= 1 \/ <<a, id>> \in y.swallowed)
    BY <1>1, <2>2, <2>3, SwallowKeeps
  <2>5. Handled(x, y, a, p)
    BY <2>4 DEF Handled, Turned
  <2>6. SdkInv(z) /\ Alike(y, z)
    BY <1>1, <2>3, <2>4, AckAlike
  <2> QED BY <1>1, <2>5, <2>6, HandledThen
<1>6. CASE login /\ ~again
  <2>1. Has(x, s, a)
    BY <1>3, <1>6
  <2>2. x.done[a][id] = 0
    <3>1. x.done[a][id] \in Nat
      BY ZenonT(60), <1>1 DEF Sdk
    <3>2. CASE p.resend
      <4>1. x.client[s].msgid # id
        BY <1>6, <3>2
      <4>2. ~(x.done[a][id] >= 1)
        BY <1>1, <2>1, <4>1 DEF Numbered, Repeat
      <4> QED BY <3>1, <4>2
    <3>3. CASE ~p.resend
      BY <3>3 DEF Numbered
    <3> QED BY <3>2, <3>3
  <2> HIDE DEF again, w
  <2>3. z = w \/ z = XlinkSendUdpPipe(w, {s})
    BY <1>2, <1>6
  <2> DEFINE y == y2
  <2>4. y = Taken(x, a, s, id) /\ w = ack(y, TRUE)
    BY DEF w
  <2> HIDE DEF y, y2
  <2>5. /\ SdkInv(y) /\ Later(x, y) /\ y.done[a][id] = 1
        /\ \A b \in App : b # a => Quiet(x, y, b)
        /\ \A n \in 1..MaxPipe : n # id => y.done[a][n] = x.done[a][n]
        /\ \A t \in Slot : Has(y, t, a) => y.client[t].msgid = id
    <3> HIDE DEF s, id
    <3> QED BY <1>1, <2>1, <2>2, <2>4, HandleKeeps
  <2>6. Handled(x, y, a, p)
    BY <2>5 DEF Handled, Turned
  <2>7. y.done[a][id] >= 1
    BY <2>5
  <2>8. SdkInv(w) /\ Alike(y, w)
    BY <1>1, <2>4, <2>5, <2>7, AckAlike
  <2>9. Handled(x, w, a, p)
    BY <1>1, <2>6, <2>8, HandledThen
  <2>10. CASE z = w
    BY <2>9, <2>10
  <2>11. CASE z = XlinkSendUdpPipe(w, {s})
    <3>1. {s} \in SUBSET Slot
      BY <1>1
    <3>2. SdkInv(z) /\ Alike(w, z)
      BY <2>8, <2>11, <3>1, SendPipeKeeps
    <3> QED BY <1>1, <2>9, <3>2, HandledThen
  <2> QED BY <2>3, <2>10, <2>11
<1> QED BY <1>4, <1>5, <1>6

\* The queries and plain replies.
LEMMA QueryKeeps ==
  ASSUME NEW x, SdkInv(x), NEW a \in App, NEW p, p.sess \in Session, NEW z,
         \/ z = XlinkProcessUdpScan_V4(x, a)
         \/ z = XlinkProcessUdpGetSubKey_V4(x, a, p)
         \/ z = XlinkProcessUdpPing_V4(x, a, p)
         \/ z = XlinkProcessUdpProbe_Datapoint_V4(x, a, p)
         \/ z = XlinkProcess_DebugInfo(x, a)
  PROVE  SdkInv(z) /\ Alike(x, z)
<1> DEFINE y == [x EXCEPT !.count = TRUE]
           b == x.client[p.sess.slot].app
<1>1. SdkInv(y) /\ Alike(x, y)
  BY CountKeeps
<1>2. b \in App
  <2>1. x.client[p.sess.slot] \in Client
    BY DEF SdkInv, Sdk, Session
  <2> QED BY <2>1 DEF Client
<1> HIDE DEF y, b
<1>3. \/ z = x
      \/ \E q \in {"refused", "done"} : z = XlinkClientSendDataToAddr(x, a, [cmd |-> q])
      \/ \E q \in {"refused", "done"} : z = XlinkClientSendDataToAddr(y, a, [cmd |-> q])
      \/ \E q \in {"refused", "done"} : z = XlinkClientSendDataToAddr(x, b, [cmd |-> q])
  <2>1. CASE z = XlinkProcessUdpScan_V4(x, a)
    BY <2>1 DEF XlinkProcessUdpScan_V4
  <2>2. CASE z = XlinkProcessUdpGetSubKey_V4(x, a, p)
    <3>1. CASE p.key = x.key
      BY <2>2, <3>1 DEF XlinkProcessUdpGetSubKey_V4
    <3>2. CASE p.key # x.key
      BY <2>2, <3>2 DEF XlinkProcessUdpGetSubKey_V4
    <3> QED BY <3>1, <3>2
  <2>3. CASE z = XlinkProcessUdpPing_V4(x, a, p)
    BY <2>3 DEF XlinkProcessUdpPing_V4, y
  <2>4. CASE z = XlinkProcessUdpProbe_Datapoint_V4(x, a, p)
    BY <2>4 DEF XlinkProcessUdpProbe_Datapoint_V4, y, b
  <2>5. CASE z = XlinkProcess_DebugInfo(x, a)
    BY <2>5 DEF XlinkProcess_DebugInfo
  <2> QED BY <2>1, <2>2, <2>3, <2>4, <2>5
<1>4. CASE z = x
  BY <1>4, AlikeItself
<1>5. ASSUME NEW q \in {"refused", "done"}, z = XlinkClientSendDataToAddr(x, a, [cmd |-> q]) PROVE SdkInv(z) /\ Alike(x, z)
  BY <1>5, ReplyAlike
<1>6. ASSUME NEW q \in {"refused", "done"}, z = XlinkClientSendDataToAddr(y, a, [cmd |-> q]) PROVE SdkInv(z) /\ Alike(x, z)
  <2>1. SdkInv(z) /\ Alike(y, z)
    BY <1>1, <1>6, ReplyAlike
  <2> QED BY <1>1, <2>1, AlikeAgain
<1>7. ASSUME NEW q \in {"refused", "done"}, z = XlinkClientSendDataToAddr(x, b, [cmd |-> q]) PROVE SdkInv(z) /\ Alike(x, z)
  BY <1>2, <1>7, ReplyAlike
<1> QED BY <1>3, <1>4, <1>5, <1>6, <1>7

\* A client that says goodbye: its slot is free, what waits for it is left to the send buffer.
LEMMA ByeKeeps ==
  ASSUME NEW x, SdkInv(x), NEW a \in App, NEW p, p.sess \in Session, NEW z, z = XlinkProcessUdpByby_V4(x, a, p)
  PROVE  Handled(x, z, a, p)
<1> DEFINE y == [x EXCEPT !.count = TRUE]
           s == p.sess.slot
           e == y.client[s]
           g == [e EXCEPT !.active = FALSE, !.check = 0, !.own = FALSE, !.login = Unset]
           c == [y.client EXCEPT ![s] = g]
<1>1. SdkInv(y) /\ Alike(x, y) /\ y.count
  BY CountKeeps
<1>2. z = x \/ z = XlinkClientQuit(y, s)
  BY DEF XlinkProcessUdpByby_V4
<1> HIDE DEF y
<1>3. y \in Sdk /\ y.client \in [Slot -> Client] /\ s \in Slot
  BY <1>1 DEF SdkInv, Sdk, Session
<1>4. CASE z = x
  BY <1>4, AlikeItself, AlikeHandled
<1>5. CASE z = XlinkClientQuit(y, s)
  <2>1. z = [y EXCEPT !.client = c]
    BY <1>3, <1>5 DEF XlinkClientQuit
  <2>2. e \in Client
    BY <1>3
  <2> HIDE DEF e, s
  <2>3. g \in Client /\ g.app = e.app /\ ~g.active
    BY <2>2 DEF Client, Key
  <2> HIDE DEF g
  <2>4. c \in [Slot -> Client] /\ c[s] = g /\ \A t \in Slot : t # s => c[t] = y.client[t]
    BY <1>3, <2>3
  <2> HIDE DEF c
  <2>5. z \in Sdk /\ z.client = c /\ z.count = y.count /\ z.list = y.list /\ z.out = y.out /\ z.key = y.key
        /\ z.done = y.done /\ z.swallowed = y.swallowed /\ z.stray = y.stray
    BY <1>3, <2>1, <2>4 DEF Sdk
  <2>6. \A t \in Slot : z.client[t].app = y.client[t].app /\ (z.client[t] = y.client[t] \/ ~z.client[t].active)
    <3> TAKE t \in Slot
    <3>1. CASE t = s
      BY <2>3, <2>4, <2>5, <3>1 DEF e
    <3>2. CASE t # s
      BY <2>4, <2>5, <3>2
    <3> QED BY <3>1, <3>2
  <2>7. SdkInv(z) /\ Later(y, z) /\ \A b \in App : Quiet(y, z, b)
    BY <1>1, <2>5, <2>6, LeftKeeps
  <2>8. x \in Sdk /\ z \in Sdk /\ Later(x, y) /\ \A b \in App : Quiet(x, y, b)
    BY <1>1, <2>7, AlikeKeeps DEF SdkInv
  <2>9. Later(x, z) /\ \A b \in App : Quiet(x, z, b)
    BY <1>3, <2>7, <2>8, LaterAgain, QuietAgain
  <2> QED BY <2>7, <2>9 DEF Handled, Turned
<1> QED BY <1>2, <1>4, <1>5

LEMMA FromAgain ==
  ASSUME NEW l, NEW m, NEW n, From(l, m), From(m, n)
  PROVE  From(l, n)
<1>1. ASSUME NEW i \in 1..Len(l) PROVE \E k \in 1..Len(n) : l[i].users \subseteq n[k].users /\ l[i].to = n[k].to
  <2>1. PICK j \in 1..Len(m) : l[i].users \subseteq m[j].users /\ l[i].to = m[j].to
    BY DEF From
  <2>2. PICK k \in 1..Len(n) : m[j].users \subseteq n[k].users /\ m[j].to = n[k].to
    BY DEF From
  <2> QED BY <2>1, <2>2
<1> QED BY <1>1 DEF From

LEMMA ClearFrom ==
  ASSUME NEW l \in Seq(Item)
  PROVE  NSProcessClearNotUserData(l) \in Seq(Item) /\ From(NSProcessClearNotUserData(l), l)
BY ClearKeeps DEF From

\* A list with fewer users.
LEMMA ListKeeps ==
  ASSUME NEW x, SdkInv(x), NEW l \in Seq(Item), From(l, x.list), NEW y, y = [x EXCEPT !.list = l]
  PROVE  SdkInv(y) /\ Alike(x, y) /\ y.client = x.client /\ y.list = l
<1>1. x \in Sdk
  BY DEF SdkInv
<1>2. y \in Sdk /\ y.client = x.client /\ y.list = l /\ y.out = x.out /\ y.stray = x.stray /\ Alike(x, y)
  BY <1>1 DEF Sdk, Alike, Same
<1>3. Told(y)
  BY <1>2 DEF Told, Honest, Alike, SdkInv
<1>4. Meant(y)
  <2>1. Meant(x) /\ From(y.list, x.list) /\ y \in Sdk /\ (x.stray => y.stray) /\ \A t \in Slot : y.client[t].app = x.client[t].app
    BY <1>2 DEF SdkInv
  <2> QED BY ONLY <1>1, <2>1, MeantStays
<1> QED BY <1>2, <1>3, <1>4, AlikeKeeps

\* Slot s taken off item k.
LEMMA TakenOff ==
  ASSUME NEW l \in Seq(Item), NEW k \in 1..Len(l), NEW s, NEW m, m = [l EXCEPT ![k].users = @ \ {s}]
  PROVE  m \in Seq(Item) /\ From(m, l)
<1> DEFINE e == [l[k] EXCEPT !.users = l[k].users \ {s}]
<1>1. l[k] \in Item
  BY ElementOfSeq
<1>2. e \in Item /\ e.users \subseteq l[k].users /\ e.to = l[k].to
  BY <1>1 DEF Item
<1>3. m = [l EXCEPT ![k] = e]
  OBVIOUS
<1> HIDE DEF e
<1>4. m \in Seq(Item) /\ Len(m) = Len(l) /\ m[k] = e /\ \A i \in 1..Len(l) : i # k => m[i] = l[i]
  <2> DEFINE r == [l EXCEPT ![k] = e]
  <2>1. e \in Item /\ l \in Seq(Item) /\ k \in 1..Len(l)
    BY <1>2
  <2>2. r \in Seq(Item) /\ Len(r) = Len(l) /\ \A j \in 1..Len(l) : r[j] = IF j = k THEN e ELSE l[j]
    BY ONLY <2>1, ExceptSeq
  <2>3. m = r
    BY <1>3
  <2> HIDE DEF r
  <2> QED BY <2>1, <2>2, <2>3
<1>5. ASSUME NEW i \in 1..Len(m) PROVE \E j \in 1..Len(l) : m[i].users \subseteq l[j].users /\ m[i].to = l[j].to
  <2>1. CASE i = k
    BY <1>2, <1>4, <2>1
  <2>2. CASE i # k
    BY <1>4, <2>2
  <2> QED BY <2>1, <2>2
<1> QED BY <1>4, <1>5 DEF From

LEMMA GotKeeps ==
  ASSUME NEW x, SdkInv(x), NEW a \in App, NEW p, p.sess \in Session, NEW z, z = XlinkProcessUdpPipeResponse_V4(x, a, p)
  PROVE  SdkInv(z) /\ Alike(x, z)
<1> DEFINE y == [x EXCEPT !.count = TRUE]
           s == p.sess.slot
           at == {i \in DOMAIN y.list : y.list[i].id = p.id}
           k == Min(at)
           m == [y.list EXCEPT ![k].users = @ \ {s}]
           l == NSProcessClearNotUserData(m)
<1>1. SdkInv(y) /\ Alike(x, y)
  BY CountKeeps
<1>2. z = x \/ z = NSProcessRemoveMessageid(y, s, p.id)
  BY DEF XlinkProcessUdpPipeResponse_V4
<1> HIDE DEF y
<1>3. z = x \/ z = y \/ (at # {} /\ z = [y EXCEPT !.list = l])
  BY <1>2 DEF NSProcessRemoveMessageid
<1>4. y.list \in Seq(Item)
  BY <1>1 DEF SdkInv, Sdk
<1>5. CASE at # {} /\ z = [y EXCEPT !.list = l]
  <2>1. at \in SUBSET Nat /\ at \subseteq 1..Len(y.list)
    BY <1>4, LenProperties
  <2> HIDE DEF at
  <2>2. k \in 1..Len(y.list)
    BY <1>5, <2>1, MinIs
  <2> HIDE DEF k
  <2>3. m \in Seq(Item) /\ From(m, y.list)
    BY <1>4, <2>2, TakenOff
  <2> HIDE DEF m
  <2>4. l \in Seq(Item) /\ From(l, m)
    BY <2>3, ClearFrom
  <2> HIDE DEF l
  <2>5. From(l, y.list)
    BY <2>3, <2>4, FromAgain
  <2>6. SdkInv(z) /\ Alike(y, z)
    BY <1>1, <1>5, <2>4, <2>5, ListKeeps
  <2> QED BY <1>1, <2>6, AlikeAgain
<1> QED BY <1>1, <1>3, <1>5, AlikeItself

\* The fields a packet has by its command.
LEMMA RequestIs ==
  ASSUME NEW p \in Request
  PROVE  /\ p.cmd \in {"hello", "setack", "pipe", "set", "scan", "subkey", "ping", "probe", "debug", "alien", "bye", "got"}
         /\ p.cmd = "setack" => p.key \in Keys
         /\ p.cmd \in {"pipe", "set"} => p.sess \in Session /\ p.id \in 1..MaxPipe /\ p.resend \in BOOLEAN
         /\ p.cmd \in {"scan", "subkey", "ping", "probe", "debug", "bye", "got"} => p.sess \in Session
BY DEF Request

\* Whatever packet arrives.
LEMMA DataKeeps ==
  ASSUME NEW x, SdkInv(x), Awaited(x), NEW a \in App, NEW p \in Request, p.cmd \in {"pipe", "set"} => Numbered(x, a, p),
         NEW gone \in SUBSET Slot, NEW v \in Check, NEW z, z = XlinkProcessUdpDataV4(x, a, p, gone, v)
  PROVE  Handled(x, z, a, p)
<1>1. \/ p.cmd = "hello" /\ z = XlinkProcessUdpHandshake_V4(x, a, p, gone, v)
      \/ p.cmd = "setack" /\ z = XlinkProcessUdpSETACK_V4(x, a, p)
      \/ p.cmd = "pipe" /\ z = XlinkProcessUdpPipe_V4(x, a, p)
      \/ p.cmd = "set" /\ z = XlinkProcessUdpSet_V4(x, a, p)
      \/ p.cmd = "scan" /\ z = XlinkProcessUdpScan_V4(x, a)
      \/ p.cmd = "subkey" /\ z = XlinkProcessUdpGetSubKey_V4(x, a, p)
      \/ p.cmd = "ping" /\ z = XlinkProcessUdpPing_V4(x, a, p)
      \/ p.cmd = "probe" /\ z = XlinkProcessUdpProbe_Datapoint_V4(x, a, p)
      \/ p.cmd = "debug" /\ z = XlinkProcess_DebugInfo(x, a)
      \/ p.cmd = "alien" /\ z = x
      \/ p.cmd = "bye" /\ z = XlinkProcessUdpByby_V4(x, a, p)
      \/ p.cmd = "got" /\ z = XlinkProcessUdpPipeResponse_V4(x, a, p)
  BY RequestIs DEF XlinkProcessUdpDataV4, gs_UdpCmdFunction, gs_UdpCmdFunctionResponse, Ddcode
<1>2. CASE p.cmd = "hello" /\ z = XlinkProcessUdpHandshake_V4(x, a, p, gone, v)
  BY <1>2, HandshakeKeeps
<1>3. CASE p.cmd = "setack" /\ z = XlinkProcessUdpSETACK_V4(x, a, p)
  BY <1>3, RequestIs, SetAckKeeps
<1>4. CASE p.cmd \in {"pipe", "set"} /\ (z = XlinkProcessUdpPipe_V4(x, a, p) \/ z = XlinkProcessUdpSet_V4(x, a, p))
  BY <1>4, MessageKeeps
<1>5. CASE p.cmd \in {"scan", "subkey", "ping", "probe", "debug"}
           /\ (\/ z = XlinkProcessUdpScan_V4(x, a)
               \/ z = XlinkProcessUdpGetSubKey_V4(x, a, p)
               \/ z = XlinkProcessUdpPing_V4(x, a, p)
               \/ z = XlinkProcessUdpProbe_Datapoint_V4(x, a, p)
               \/ z = XlinkProcess_DebugInfo(x, a))
  <2>1. p.sess \in Session
    BY <1>5, RequestIs
  <2>2. SdkInv(z) /\ Alike(x, z)
    BY <1>5, <2>1, QueryKeeps
  <2> QED BY <2>2, AlikeHandled
<1>6. CASE z = x
  BY <1>6, AlikeItself, AlikeHandled
<1>7. CASE p.cmd = "bye" /\ z = XlinkProcessUdpByby_V4(x, a, p)
  BY <1>7, RequestIs, ByeKeeps
<1>8. CASE p.cmd = "got" /\ z = XlinkProcessUdpPipeResponse_V4(x, a, p)
  <2>1. p.sess \in Session
    BY <1>8, RequestIs
  <2>2. SdkInv(z) /\ Alike(x, z)
    BY <1>8, <2>1, GotKeeps
  <2> QED BY <2>2, AlikeHandled
<1> QED BY <1>1, <1>2, <1>3, <1>4, <1>5, <1>6, <1>7, <1>8

\* Slot s waits for nothing.
Idle(l, s) == \A i \in 1..Len(l) : s \notin l[i].users

LEMMA IdleStays ==
  ASSUME NEW l, NEW m, NEW s, From(l, m), Idle(m, s)
  PROVE  Idle(l, s)
BY DEF From, Idle

LEMMA RemoveClientKeeps ==
  ASSUME NEW x, SdkInv(x), NEW s \in Slot, NEW y, y = NSProcessRemoveClient(x, s)
  PROVE  SdkInv(y) /\ Alike(x, y) /\ From(y.list, x.list) /\ Idle(y.list, s)
<1> DEFINE m == [i \in DOMAIN x.list |-> [x.list[i] EXCEPT !.users = x.list[i].users \ {s}]]
           l == NSProcessClearNotUserData(m)
<1>1. x \in Sdk /\ x.list \in Seq(Item)
  BY DEF SdkInv, Sdk
<1>2. y = [x EXCEPT !.list = l]
  BY Zenon DEF NSProcessRemoveClient
<1>3. ASSUME NEW i \in 1..Len(x.list) PROVE m[i] \in Item /\ m[i].users = x.list[i].users \ {s} /\ m[i].to = x.list[i].to
  <2> DEFINE e == x.list[i]
  <2>1. e \in Item
    BY <1>1, ElementOfSeq
  <2>2. m[i] = [e EXCEPT !.users = e.users \ {s}]
    BY <1>1
  <2> HIDE DEF e, m
  <2>3. m[i] \in Item /\ m[i].users = e.users \ {s} /\ m[i].to = e.to
    BY <2>1, <2>2 DEF Item
  <2> QED BY <2>3 DEF e
<1>4. m \in [1..Len(x.list) -> Item] /\ Len(x.list) \in Nat
  <2>1. DOMAIN x.list = 1..Len(x.list) /\ Len(x.list) \in Nat
    BY <1>1, LenProperties
  <2>2. DOMAIN m = 1..Len(x.list) /\ m = [i \in 1..Len(x.list) |-> m[i]]
    BY <2>1
  <2> HIDE DEF m
  <2> QED BY <1>3, <2>1, <2>2
<1> HIDE DEF m
<1>5. m \in Seq(Item) /\ Len(m) = Len(x.list)
  BY <1>4, IsASeq
<1>6. From(m, x.list) /\ Idle(m, s)
  BY <1>3, <1>5 DEF From, Idle
<1>7. l \in Seq(Item) /\ From(l, m)
  BY <1>5, ClearFrom
<1> HIDE DEF l
<1>8. From(l, x.list) /\ Idle(l, s)
  BY <1>6, <1>7, FromAgain, IdleStays
<1> QED BY <1>2, <1>7, <1>8, ListKeeps

\* The first message waiting for slot s: sent, sent again or given up.
LEMMA SendClientKeeps ==
  ASSUME NEW x, SdkInv(x), NEW s \in Slot, NEW due, NEW y, y = NSProcessSendClient(x, s, due)
  PROVE  SdkInv(y) /\ Alike(x, y) /\ From(y.list, x.list)
<1> DEFINE waiting == {i \in DOMAIN x.list : s \in x.list[i].users}
           k == Min(waiting)
           m == x.list[k]
           e == x.client[s]
           pkt(r) == [cmd |-> "item", id |-> m.id, resend |-> r, mine |-> e.app \in m.to]
           c1 == [x.client EXCEPT ![s] = [e EXCEPT !.sendid = m.id, !.cnt = 0]]
           c2 == [x.client EXCEPT ![s] = [e EXCEPT !.cnt = 0]]
           c3 == [x.client EXCEPT ![s] = [e EXCEPT !.cnt = e.cnt + 1]]
           l == [x.list EXCEPT ![k].users = @ \ {s}]
           y1 == [x EXCEPT !.client = c1]
           y2 == [x EXCEPT !.list = l, !.client = c2]
           y3 == [x EXCEPT !.client = c3]
<1>1. x \in Sdk /\ x.list \in Seq(Item) /\ x.client \in [Slot -> Client]
  BY DEF SdkInv, Sdk
<1>2. \/ y = x
      \/ waiting # {} /\ y = XlinkClientSendDataToAddr(y1, e.app, pkt(FALSE))
      \/ waiting # {} /\ y = y2
      \/ waiting # {} /\ y = XlinkClientSendDataToAddr(y3, e.app, pkt(TRUE))
  BY <1>1 DEF NSProcessSendClient
<1>3. e \in Client
  BY <1>1
<1>4. ASSUME waiting # {} PROVE k \in 1..Len(x.list) /\ s \in m.users /\ m \in Item
  <2>1. waiting \in SUBSET Nat /\ DOMAIN x.list = 1..Len(x.list)
    BY <1>1, LenProperties
  <2>2. k \in waiting
    BY <1>4, <2>1, MinIs
  <2>3. k \in 1..Len(x.list) /\ s \in m.users
    BY <2>1, <2>2
  <2> QED BY <1>1, <2>3, ElementOfSeq
<1> HIDE DEF waiting, k
\* A client that was sent something else keeps its session.
<1>5. ASSUME NEW g \in Client, Same(e, g), NEW f \in Seq(Item), From(f, x.list), NEW u, u = [x EXCEPT !.list = f, !.client = [x.client EXCEPT ![s] = g]]
      PROVE  SdkInv(u) /\ Alike(x, u) /\ u.list = f
  <2> DEFINE c == [x.client EXCEPT ![s] = g]
  <2>1. c \in [Slot -> Client] /\ c[s] = g /\ \A t \in Slot : t # s => c[t] = x.client[t]
    BY <1>1
  <2>2. u = [x EXCEPT !.list = f, !.client = c]
    BY <1>5
  <2> HIDE DEF c
  <2>3. u \in Sdk /\ u.client = c /\ u.list = f /\ u.out = x.out /\ u.key = x.key /\ u.done = x.done /\ u.swallowed = x.swallowed
        /\ u.stray = x.stray /\ u.count = x.count
    BY <1>1, <2>1, <2>2 DEF Sdk
  <2>4. \A t \in Slot : Same(x.client[t], c[t])
    <3> TAKE t \in Slot
    <3>1. CASE t = s
      BY <1>5, <2>1, <3>1 DEF e
    <3>2. CASE t # s
      BY <2>1, <3>2 DEF Same
    <3> QED BY <3>1, <3>2
  <2>5. Alike(x, u)
    BY <2>3, <2>4 DEF Alike
  <2>6. Told(u)
    BY <2>3 DEF Told, Honest, SdkInv
  <2>7. Meant(u)
    <3>1. Meant(x) /\ From(u.list, x.list) /\ u \in Sdk /\ (x.stray => u.stray)
      BY <1>5, <2>3 DEF SdkInv
    <3>2. \A t \in Slot : u.client[t].app = x.client[t].app
      BY <2>3, <2>4 DEF Same
    <3> QED BY ONLY <1>1, <3>1, <3>2, MeantStays
  <2> QED BY <2>3, <2>5, <2>6, <2>7, AlikeKeeps
<1>6. ASSUME NEW u, SdkInv(u), Alike(x, u), u.list = x.list, NEW r \in BOOLEAN, waiting # {}, y = XlinkClientSendDataToAddr(u, e.app, pkt(r))
      PROVE  SdkInv(y) /\ Alike(x, y) /\ From(y.list, x.list)
  <2> DEFINE q == pkt(r)
             b == e.app
             o == [to |-> b, p |-> q]
  <2>1. b \in App
    BY <1>3 DEF Client
  <2>2. ~u.stray => e.app \in m.to
    BY <1>4, <1>6 DEF Meant, MeantFor, SdkInv, Alike
  <2>3. q \in Packet /\ q.cmd = "item" /\ (~u.stray => q.mine)
    <3> DEFINE id == m.id
               own == e.app \in m.to
    <3>1. q = [cmd |-> "item", id |-> id, resend |-> r, mine |-> own]
      OBVIOUS
    <3>2. id \in Nat /\ own \in BOOLEAN /\ (~u.stray => own = TRUE)
      BY <1>4, <1>6, <2>2 DEF Item
    <3> HIDE DEF id, own, q
    <3> QED BY <1>6, <3>1, <3>2 DEF Packet
  <2>4. o.p = q /\ y = XlinkClientSendDataToAddr(u, b, q)
    BY <1>6
  <2> HIDE DEF q, b
  <2>5. Honest(u, o)
    BY <2>3, <2>4 DEF Honest
  <2>6. SdkInv(y) /\ Alike(u, y) /\ y.list = u.list
    BY <1>6, <2>1, <2>3, <2>4, <2>5, SendIs
  <2> QED BY <1>6, <2>6, AlikeAgain, FromItself
<1>7. CASE y = x
  BY <1>7, AlikeItself, FromItself
<1>8. CASE waiting # {} /\ y = XlinkClientSendDataToAddr(y1, e.app, pkt(FALSE))
  <2> DEFINE g == [e EXCEPT !.sendid = m.id, !.cnt = 0]
  <2>1. g \in Client /\ Same(e, g)
    BY <1>3, <1>4, <1>8 DEF Client, Item, Same
  <2>2. y1 = [x EXCEPT !.list = x.list, !.client = [x.client EXCEPT ![s] = g]]
    BY <1>1 DEF Sdk
  <2> HIDE DEF g
  <2>3. SdkInv(y1) /\ Alike(x, y1) /\ y1.list = x.list
    BY ZenonT(60), <1>1, <1>5, <2>1, <2>2, FromItself
  <2> HIDE DEF y1
  <2> QED BY <1>6, <1>8, <2>3
<1>9. CASE waiting # {} /\ y = y2
  <2> DEFINE g == [e EXCEPT !.cnt = 0]
  <2>1. g \in Client /\ Same(e, g)
    BY <1>3 DEF Client, Same
  <2>2. l \in Seq(Item) /\ From(l, x.list)
    BY <1>1, <1>4, <1>9, TakenOff
  <2> HIDE DEF l
  <2>3. y2 = [x EXCEPT !.list = l, !.client = [x.client EXCEPT ![s] = g]]
    OBVIOUS
  <2> HIDE DEF g
  <2> QED BY <1>5, <1>9, <2>1, <2>2, <2>3
<1>10. CASE waiting # {} /\ y = XlinkClientSendDataToAddr(y3, e.app, pkt(TRUE))
  <2> DEFINE g == [e EXCEPT !.cnt = e.cnt + 1]
  <2>1. g \in Client /\ Same(e, g)
    BY <1>3 DEF Client, Same
  <2>2. y3 = [x EXCEPT !.list = x.list, !.client = [x.client EXCEPT ![s] = g]]
    BY <1>1 DEF Sdk
  <2> HIDE DEF g
  <2>3. SdkInv(y3) /\ Alike(x, y3) /\ y3.list = x.list
    BY ZenonT(60), <1>1, <1>5, <2>1, <2>2, FromItself
  <2> HIDE DEF y3
  <2> QED BY <1>6, <1>10, <2>3
<1> QED BY <1>2, <1>7, <1>8, <1>9, <1>10

LEMMA ServeKeeps ==
  ASSUME NEW x, SdkInv(x), NEW s \in Slot, NEW due, NEW y, y = Serve(x, s, due)
  PROVE  /\ SdkInv(y) /\ Alike(x, y) /\ From(y.list, x.list)
         /\ ~x.client[s].active => Idle(y.list, s)
<1>1. CASE x.client[s].active
  <2>1. y = NSProcessSendClient(x, s, due)
    BY <1>1 DEF Serve
  <2> QED BY <1>1, <2>1, SendClientKeeps
<1>2. CASE ~x.client[s].active
  <2>1. y = NSProcessRemoveClient(x, s)
    BY <1>2 DEF Serve
  <2> QED BY <2>1, RemoveClientKeeps
<1> QED BY <1>1, <1>2

\* The send buffer: every slot is served, and what waited for a client that left is gone.
LEMMA BufferKeeps ==
  ASSUME NEW x, SdkInv(x), NEW due, NEW z, z = NSProcessSendBufferTask(x, due)
  PROVE  SdkInv(z) /\ Alike(x, z) /\ Awaited(z)
<1> DEFINE N == XLINK_CLIENT_SIZE
           V == {y \in Sdk : SdkInv(y) /\ Alike(x, y)}
           step(k, y) == Serve(y, k - 1, k - 1 \in due)
           g == [k \in 0..(N - 1) |-> [y \in V |-> step(k + 1, y)]]
           served == CHOOSE f : f = [k \in 0..N |-> IF k = 0 THEN x ELSE step(k, f[k - 1])]
           y == served[N]
           l == NSProcessClearNotUserData(y.list)
<1>1. N \in Nat \ {0} /\ Slot = 0..(N - 1)
  BY UdpAssumption DEF Slot
<1>2. z = IF x.list = <<>> THEN x ELSE [y EXCEPT !.list = l]
  BY Zenon DEF NSProcessSendBufferTask
<1>3. x \in V
  BY AlikeItself DEF SdkInv
<1>4. ASSUME NEW k \in 1..N, NEW u \in V PROVE step(k, u) \in V
  <2>1. k - 1 \in Slot
    BY <1>1
  <2> DEFINE w == step(k, u)
             b == k - 1 \in due
  <2>2. w = Serve(u, k - 1, b)
    OBVIOUS
  <2> HIDE DEF w, b
  <2>3. SdkInv(w) /\ Alike(u, w)
    BY <2>1, <2>2, ServeKeeps
  <2>4. Alike(x, w) /\ w \in Sdk
    BY <2>3, AlikeAgain DEF SdkInv
  <2>5. w \in V
    BY <2>3, <2>4
  <2> QED BY <2>5 DEF w
<1>5. \A k \in 1..N : \A u \in V : g[k - 1][u] = step(k, u)
  <2> TAKE k \in 1..N
  <2> TAKE u \in V
  <2>1. k - 1 \in 0..(N - 1) /\ (k - 1) + 1 = k
    BY <1>1
  <2> HIDE DEF step, V, N
  <2> QED BY <2>1
<1>6. \A k \in 0..(N - 1) : \A u \in V : k + 1 \in 1..N /\ g[k][u] = step(k + 1, u)
  <2> TAKE k \in 0..(N - 1)
  <2> TAKE u \in V
  <2>1. k + 1 \in 1..N
    BY <1>1
  <2> HIDE DEF step, V, N
  <2> QED BY <2>1
<1> HIDE DEF V, g, N
<1>7. PICK f \in [0..N -> V] : f[0] = x /\ \A k \in 1..N : f[k] = g[k - 1][f[k - 1]]
  <2> HIDE DEF served, step
  <2>1. Steps(N, V, g)
    BY <1>4, <1>6 DEF Steps
  <2>2. N \in Nat
    BY <1>1
  <2>3. \E f : Goes(f, N, V, x, g)
    BY <1>3, <2>1, <2>2, Iterate
  <2> QED BY <2>3 DEF Goes
<1>8. f = [k \in 0..N |-> IF k = 0 THEN x ELSE step(k, f[k - 1])]
  <2>1. ASSUME NEW k \in 0..N, k # 0 PROVE f[k] = step(k, f[k - 1])
    <3>1. k \in 1..N /\ k - 1 \in 0..N
      BY <1>1, <2>1
    <3>2. f[k - 1] \in V
      BY <3>1
    <3> HIDE DEF step
    <3> QED BY <1>5, <1>7, <3>1, <3>2
  <2> HIDE DEF step
  <2>2. \A k \in 0..N : f[k] = IF k = 0 THEN x ELSE step(k, f[k - 1])
    BY <1>7, <2>1
  <2> QED BY <2>2
<1>9. served = [k \in 0..N |-> IF k = 0 THEN x ELSE step(k, served[k - 1])]
  <2> HIDE DEF step
  <2> DEFINE Q(h) == h = [k \in 0..N |-> IF k = 0 THEN x ELSE step(k, h[k - 1])]
  <2>1. Q(f)
    BY <1>8
  <2>2. served = CHOOSE h : Q(h)
    OBVIOUS
  <2> HIDE DEF Q, served
  <2>3. Q(served)
    BY <2>1, <2>2
  <2> QED BY <2>3 DEF Q
<1> HIDE DEF served
<1>10. served[0] = x /\ \A k \in 1..N : served[k] = step(k, served[k - 1])
  <2> HIDE DEF step
  <2>1. 0 \in 0..N /\ \A k \in 1..N : k \in 0..N /\ k # 0
    BY <1>1
  <2> QED BY <1>9, <2>1
\* After k slots nothing waits for those of them without a client.
<1> DEFINE Done(k) == served[k] \in V /\ \A s \in 0..(k - 1) : ~x.client[s].active => Idle(served[k].list, s)
           S == {k \in 0..N : Done(k)}
<1>11. 0 \in S
  <2>1. 0 \in 0..N /\ \A s \in 0..(0 - 1) : FALSE
    BY <1>1
  <2> QED BY <1>3, <1>10, <2>1
<1>12. ASSUME NEW k \in 1..N, k - 1 \in S PROVE k \in S
  <2> DEFINE u == served[k - 1]
             w == served[k]
             b == k - 1 \in due
  <2>1. u \in V /\ \A s \in 0..((k - 1) - 1) : ~x.client[s].active => Idle(u.list, s)
    BY <1>12
  <2>2. w = Serve(u, k - 1, b) /\ w = step(k, u)
    BY <1>10
  <2>3. w \in V
    <3> HIDE DEF step, u, w, b
    <3> QED BY <1>4, <2>1, <2>2
  <2>4. k - 1 \in Slot /\ k \in 0..N
    BY <1>1
  <2> HIDE DEF u, w, b
  <2>5. SdkInv(u) /\ Alike(x, u)
    BY <2>1 DEF V
  <2>6. From(w.list, u.list) /\ (~u.client[k - 1].active => Idle(w.list, k - 1))
    <3> DEFINE t == k - 1
    <3>1. t \in Slot /\ w = Serve(u, t, b)
      BY <2>2, <2>4
    <3> HIDE DEF t
    <3>2. From(w.list, u.list) /\ (~u.client[t].active => Idle(w.list, t))
      BY <2>5, <3>1, ServeKeeps
    <3> QED BY <3>2 DEF t
  <2>7. ASSUME NEW s \in 0..(k - 1), ~x.client[s].active PROVE Idle(w.list, s)
    <3>1. CASE s = k - 1
      <4>1. ~u.client[s].active
        BY <2>4, <2>5, <2>7, <3>1 DEF Alike, Same
      <4> QED BY <2>6, <3>1, <4>1
    <3>2. CASE s # k - 1
      <4>1. s \in 0..((k - 1) - 1)
        BY <2>4, <3>2
      <4>2. Idle(u.list, s)
        BY <2>1, <2>7, <4>1
      <4> QED BY <2>6, <4>2, IdleStays
    <3> QED BY <3>1, <3>2
  <2>8. Done(k)
    BY <2>3, <2>7 DEF w
  <2> QED BY <2>4, <2>8
<1>13. Done(N)
  <2> HIDE DEF Done
  <2>1. \A k \in 0..N : k \in S
    <3> HIDE DEF S
    <3>1. N \in Nat
      BY <1>1
    <3> QED BY <1>11, <1>12, <3>1, UpTo
  <2>2. N \in 0..N
    BY <1>1
  <2> QED BY <2>1, <2>2
<1>14. SdkInv(y) /\ Alike(x, y) /\ y.list \in Seq(Item) /\ \A s \in Slot : ~x.client[s].active => Idle(y.list, s)
  BY <1>1, <1>13 DEF V, Sdk
<1> HIDE DEF y, Done, S
<1>15. l \in Seq(Item) /\ From(l, y.list)
  BY <1>14, ClearFrom
<1> HIDE DEF l
<1>16. CASE x.list = <<>>
  <2>1. z = x /\ Len(x.list) = 0
    BY <1>2, <1>16
  <2> QED BY <2>1, AlikeItself DEF Awaited
<1>17. CASE x.list # <<>>
  <2>1. SdkInv(z) /\ Alike(y, z) /\ z.client = y.client /\ z.list = l
    BY <1>2, <1>14, <1>15, <1>17, ListKeeps
  <2>2. ASSUME NEW i \in 1..Len(l), NEW s \in l[i].users PROVE z.client[s].active
    <3>1. l[i] \in Item
      BY <1>15, ElementOfSeq
    <3>2. s \in Slot
      BY <3>1 DEF Item
    <3>3. CASE ~x.client[s].active
      <4>1. Idle(l, s)
        BY <1>14, <1>15, <3>2, <3>3, IdleStays
      <4> QED BY <2>2, <4>1 DEF Idle
    <3>4. CASE x.client[s].active
      BY <1>14, <2>1, <3>2, <3>4 DEF Alike, Same
    <3> QED BY <3>3, <3>4
  <2>3. Awaited(z)
    BY <2>1, <2>2 DEF Awaited, AwaitedIn
  <2> QED BY <1>14, <2>1, <2>3, AlikeAgain
<1> QED BY <1>16, <1>17

-----------------------------------------------------------------------------
(* The apps and the network *)

\* What is known of app b's messages: those it did not send were not handled, and the one it waits for may be resent.
Kept(x, b) ==
  /\ \A n \in 1..MaxPipe : n > app[b].sent => x.done[b][n] = 0
  /\ app[b].wait # 0 => Repeat(x, b, app[b].wait)

\* A packet of app a on its way: its message is the last one a sent, and may be handled if it was not.
Coming(a, p) ==
  /\ p.cmd = "hello" => app[a].wait = 0
  /\ p.cmd \in {"pipe", "set"} => Numbered(d, a, p) /\ p.id <= app[a].sent /\ app[a].wait \in {0, p.id}

UpInv == \A k \in 1..Len(up) : Coming(up[k].from, up[k].p)

PhoneOK(a) ==
  /\ app[a].wait <= app[a].sent
  /\ app[a].sess = None => app[a].wait = 0
  /\ \A n \in app[a].acked : d.done[a][n] >= 1 \/ <<a, n>> \in d.swallowed
  /\ app[a].lost => d.stray
  /\ Kept(d, a)

PhonesInv == \A a \in App : PhoneOK(a)
LettersInv == \A k \in 1..Len(down) : Honest(d, down[k])

UdpInv ==
  /\ UdpTypeOK /\ SdkInv(d) /\ Awaited(d) /\ d.out = <<>>
  /\ UpInv /\ PhonesInv /\ LettersInv

LEMMA QuietKept ==
  ASSUME NEW x, NEW z, NEW b, Quiet(x, z, b), Kept(x, b)
  PROVE  Kept(z, b)
BY DEF Quiet, Kept, Repeat

LEMMA AlikeQuiet == ASSUME NEW x, NEW z, Alike(x, z), NEW b PROVE Quiet(x, z, b)
BY DEF Quiet, Alike, Same, Has

\* The first half of a turn: expiry, the socket, and at most one packet.
LEMMA NetLoopKeeps ==
  ASSUME UdpInv, NEW gone \in SUBSET Slot, NEW v \in Check, NEW made \in BOOLEAN, NEW z, z = xlink_net_loop(gone, v, made)
  PROVE  SdkInv(z) /\ Later(d, z) /\ \A b \in App : Kept(z, b)
<1> DEFINE h == XlinkClientCheckHeartbeat(d, gone)
           u == set_event_udp(h, made)
           sk == h.sock \/ made
<1>1. SdkInv(d) /\ Awaited(d) /\ d \in Sdk /\ \A b \in App : Kept(d, b)
  BY DEF UdpInv, SdkInv, PhonesInv, PhoneOK
<1> HIDE DEF h
<1>2. SdkInv(h) /\ Later(d, h) /\ (\A b \in App : Quiet(d, h, b)) /\ Awaited(h)
  BY <1>1, HeartbeatKeeps DEF h
<1>3. h \in Sdk
  BY <1>2 DEF SdkInv
<1>4. SdkInv(u) /\ Alike(h, u) /\ Awaited(u)
  <2>1. u = [h EXCEPT !.sock = sk]
    BY DEF set_event_udp
  <2>2. sk \in BOOLEAN
    OBVIOUS
  <2> HIDE DEF sk
  <2>3. u \in Sdk /\ u.client = h.client /\ u.list = h.list /\ u.out = h.out /\ u.stray = h.stray /\ Alike(h, u)
    BY <1>3, <2>1, <2>2 DEF Sdk, Alike, Same
  <2> HIDE DEF u
  <2>4. Told(u)
    BY <1>2, <2>3 DEF Told, Honest, Alike, SdkInv
  <2>5. Meant(u)
    BY <1>2, <2>3 DEF Meant, MeantFor, SdkInv
  <2>6. Awaited(u)
    BY <1>2, <2>3 DEF Awaited, AwaitedIn
  <2> QED BY <1>2, <2>3, <2>4, <2>5, <2>6, AlikeKeeps
<1>5. z = event_udp_recv_data(u, gone, v)
  BY DEF xlink_net_loop, h
<1> HIDE DEF u
<1>6. Later(d, u) /\ (\A b \in App : Quiet(d, u, b)) /\ u \in Sdk
  <2>1. u \in Sdk /\ Later(h, u) /\ \A b \in App : Quiet(h, u, b)
    BY <1>2, <1>4, AlikeKeeps DEF SdkInv
  <2> QED BY <1>1, <1>2, <1>3, <2>1, LaterAgain, QuietAgain
<1>7. CASE up = <<>> \/ ~u.sock
  <2>1. z = u
    BY <1>5, <1>7 DEF event_udp_recv_data
  <2> QED BY <1>1, <1>4, <1>6, <2>1, QuietKept
<1>8. CASE up # <<>> /\ u.sock
  <2> DEFINE a == up[1].from
             p == up[1].p
  <2>1. z = XlinkProcessUdpDataV4(u, a, p, gone, v)
    BY <1>5, <1>8 DEF event_udp_recv_data
  <2>2. a \in App /\ p \in Request /\ Coming(a, p)
    <3>1. up \in Seq([from : App, p : Request])
      BY DEF UdpInv, UdpTypeOK
    <3>2. 1 \in 1..Len(up)
      BY <1>8, <3>1, EmptySeq, LenProperties
    <3>3. up[1] \in [from : App, p : Request]
      BY <3>1, <3>2, ElementOfSeq
    <3> QED BY <3>2, <3>3 DEF UdpInv, UpInv
  <2> HIDE DEF a, p
  <2>3. p.cmd \in {"pipe", "set"} => Numbered(u, a, p)
    BY <1>6, <2>2 DEF Coming, Numbered, Repeat, Quiet
  <2>4. Handled(u, z, a, p)
    BY <1>4, <2>1, <2>2, <2>3, DataKeeps
  <2>5. SdkInv(z) /\ Later(u, z) /\ Turned(u, z, a, p) /\ z \in Sdk
    BY <2>4 DEF Handled, SdkInv
  <2>6. Later(d, z)
    BY <1>1, <1>6, <2>5, LaterAgain
  <2>7. \A b \in App : Kept(u, b)
    BY <1>1, <1>6, QuietKept
  <2>8. ASSUME NEW b \in App PROVE Kept(z, b)
    <3>1. CASE b # a \/ Quiet(u, z, a)
      <4>1. Quiet(u, z, b)
        BY <2>5, <3>1 DEF Turned
      <4> QED BY <2>7, <4>1, QuietKept
    <3>2. CASE b = a /\ p.cmd = "hello" /\ z.done[a] = u.done[a]
      BY <2>2, <2>7, <3>2 DEF Kept, Coming
    <3>3. CASE /\ b = a /\ p.cmd \in {"pipe", "set"}
               /\ \A n \in 1..MaxPipe : n # p.id => z.done[a][n] = u.done[a][n]
               /\ \A s \in Slot : Has(z, s, a) => z.client[s].msgid = p.id
      <4>1. p.id \in 1..MaxPipe /\ p.id <= app[a].sent /\ app[a].wait \in {0, p.id}
        BY <2>2, <3>3 DEF Coming, Numbered
      <4>2. app[a].sent \in Nat
        <5>1. app[a] \in Phone /\ MaxPipe \in Nat
          BY <2>2, UdpAssumption DEF UdpInv, UdpTypeOK
        <5> QED BY <5>1 DEF Phone
      <4>3. ASSUME NEW n \in 1..MaxPipe, n > app[a].sent PROVE z.done[a][n] = 0
        <5>1. n # p.id
          BY <4>1, <4>2, <4>3
        <5> QED BY <2>2, <2>7, <3>3, <4>3, <5>1 DEF Kept
      <4>4. app[a].wait # 0 => Repeat(z, a, app[a].wait)
        BY <3>3, <4>1 DEF Repeat
      <4> QED BY <3>3, <4>3, <4>4 DEF Kept
    <3> QED BY <2>5, <3>1, <3>2, <3>3 DEF Turned
  <2> QED BY <2>5, <2>6, <2>8
<1> QED BY <1>7, <1>8

\* A whole turn.
LEMMA LoopKeeps ==
  ASSUME UdpInv, NEW due \in SUBSET Slot, Loop(due)
  PROVE  UdpInv'
<1>1. PICK gone \in SUBSET {s \in Slot : d.client[s].active}, v \in Check, push \in {"pipe", "sync", "none"}, made \in xlink_udp_create :
        XlinkLoop(gone, v, due, push, made)
  BY DEF Loop
<1> DEFINE r == xlink_net_loop(gone, v, made)
           z == NSProcessSendBufferTask(r, due)
           w == CASE push = "pipe" -> XlinkSendUdpPipe(z, Slot)
                  [] push = "sync" -> XlinkClientSendUdpDataPointSync_V2(z)
                  [] push = "none" -> z
           all == down \o w.out
           m == Min({MaxNet, Len(all)})
<1>2. Flush(w) /\ up' = <<>> /\ turn' = (IF due = Slot THEN 1 - turn ELSE turn) /\ app' = app /\ hellos' = hellos
  BY <1>1 DEF XlinkLoop
<1>3. d' = [w EXCEPT !.out = <<>>] /\ down' = SubSeq(all, 1, m)
  BY <1>2 DEF Flush
<1>4. SdkInv(r) /\ Later(d, r) /\ \A b \in App : Kept(r, b)
  BY NetLoopKeeps DEF xlink_udp_create
<1> HIDE DEF r
<1>5. SdkInv(z) /\ Alike(r, z) /\ Awaited(z)
  BY <1>4, BufferKeeps
<1> HIDE DEF z
<1>6. SdkInv(w) /\ Alike(z, w) /\ Awaited(w)
  <2>1. CASE push = "pipe"
    <3>1. w = XlinkSendUdpPipe(z, Slot)
      BY <2>1
    <3> QED BY <1>5, <3>1, SendPipeKeeps
  <2>2. CASE push = "sync"
    <3>1. w = XlinkClientSendUdpDataPointSync_V2(z)
      BY <2>2
    <3> QED BY <1>5, <3>1, SyncKeeps
  <2>3. CASE push = "none"
    <3>1. w = z
      BY <2>3
    <3> QED BY <1>5, <3>1, AlikeItself
  <2> QED BY <2>1, <2>2, <2>3
<1> HIDE DEF w
<1>7. w \in Sdk /\ r \in Sdk /\ d \in Sdk
  BY <1>4, <1>6 DEF SdkInv, UdpInv
<1>8. d' \in Sdk /\ d'.out = <<>> /\ d'.client = w.client /\ d'.list = w.list /\ d'.stray = w.stray /\ d'.key = w.key
      /\ d'.done = w.done /\ d'.swallowed = w.swallowed /\ d'.count = w.count
  <2>1. <<>> \in Seq(Letter)
    BY EmptySeq
  <2> QED BY <1>3, <1>7, <2>1 DEF Sdk
<1> DEFINE x == d'
<1>9. Alike(w, x)
  BY <1>8 DEF Alike, Same
<1>10. SdkInv(x)
  <2>1. Told(x)
    <3>1. Len(x.out) = 0
      BY <1>8, EmptySeq
    <3> QED BY <3>1 DEF Told
  <2>2. Meant(x)
    BY <1>6, <1>8 DEF Meant, MeantFor, SdkInv
  <2> QED BY <1>6, <1>8, <1>9, <2>1, <2>2, AlikeKeeps
<1>11. Awaited(x)
  BY <1>6, <1>8 DEF Awaited, AwaitedIn
<1>12. Alike(r, x)
  BY <1>5, <1>6, <1>9, AlikeAgain
<1>13. Later(r, x)
  BY <1>4, <1>8, <1>10, <1>12, AlikeKeeps DEF SdkInv
<1>14. Later(d, x)
  BY <1>4, <1>7, <1>8, <1>13, LaterAgain
<1>15. \A b \in App : Kept(x, b)
  BY <1>4, <1>12, AlikeQuiet, QuietKept
<1>16. \A b \in App : Kept(d, b)' 
  BY <1>2, <1>15 DEF Kept, Repeat, Has
<1>17. PhonesInv'
  <2>1. ASSUME NEW a \in App PROVE PhoneOK(a)'
    <3>1. PhoneOK(a) /\ app[a] \in Phone
      BY DEF UdpInv, PhonesInv, UdpTypeOK
    <3>2. ASSUME NEW n \in app[a].acked PROVE x.done[a][n] >= 1 \/ <<a, n>> \in x.swallowed
      <4>1. n \in 1..MaxPipe
        BY <3>1 DEF Phone
      <4>2. d.done[a][n] \in Nat /\ x.done[a][n] \in Nat
        <5>1. d.done \in [App -> [1..MaxPipe -> Nat]] /\ x.done \in [App -> [1..MaxPipe -> Nat]]
          BY <1>7, <1>8 DEF Sdk
        <5> QED BY <4>1, <5>1
      <4>3. d.done[a][n] <= x.done[a][n] /\ d.swallowed \subseteq x.swallowed
        BY <1>14, <4>1 DEF Later
      <4>4. d.done[a][n] >= 1 \/ <<a, n>> \in d.swallowed
        BY <3>1 DEF PhoneOK
      <4> QED BY <4>2, <4>3, <4>4
    <3>3. d.stray => x.stray
      BY <1>14 DEF Later
    <3> QED BY <1>2, <1>16, <3>1, <3>2, <3>3 DEF PhoneOK
  <2> QED BY <2>1 DEF PhonesInv
<1>18. down' \in Seq(Letter) /\ Len(down') <= MaxNet /\ LettersInv'
  <2>1. down \in Seq(Letter) /\ w.out \in Seq(Letter) /\ MaxNet \in Nat
    BY <1>7, UdpAssumption DEF UdpInv, UdpTypeOK, Sdk
  <2> DEFINE n == Len(all)
  <2>2. all \in Seq(Letter) /\ n \in Nat /\ Len(down) \in Nat /\ Len(w.out) \in Nat /\ n = Len(down) + Len(w.out)
        /\ \A i \in 1..n : all[i] = IF i <= Len(down) THEN down[i] ELSE w.out[i - Len(down)]
    BY <2>1, ConcatProperties, LenProperties
  <2> HIDE DEF all
  <2>3. m \in Nat /\ m <= MaxNet /\ m <= n
    <3>1. {MaxNet, n} \in SUBSET Nat
      BY <2>1, <2>2
    <3> HIDE DEF n
    <3>2. Min({MaxNet, n}) \in {MaxNet, n} /\ \A y \in {MaxNet, n} : Min({MaxNet, n}) <= y
      BY <3>1, MinIs
    <3> QED BY <2>1, <2>2, <3>2 DEF n
  <2> HIDE DEF m
  <2>4. down' \in Seq(Letter) /\ Len(down') = m /\ \A i \in 1..m : down'[i] = all[i]
    <3>1. 1 \in 1..(n + 1) /\ m \in 0..n
      BY <2>2, <2>3
    <3>2. down' \in Seq(Letter) /\ Len(down') = m /\ \A i \in 1..m : down'[i] = all[(1 + i) - 1]
      <4>1. Len(SubSeq(all, 1, m)) = IF 1 <= m THEN (m - 1) + 1 ELSE 0
        BY <2>2, <3>1, SubSeqProperties
      <4> QED BY <1>3, <2>2, <2>3, <3>1, <4>1, SubSeqProperties
    <3> QED BY <3>2
  <2>5. ASSUME NEW i \in 1..m PROVE Honest(x, all[i])
    <3>1. CASE i <= Len(down)
      <4>1. all[i] = down[i] /\ i \in 1..Len(down)
        BY <2>2, <2>3, <3>1
      <4>2. Honest(d, down[i]) /\ down[i] \in Letter
        BY <2>1, <4>1, ElementOfSeq DEF UdpInv, LettersInv
      <4> QED BY <1>7, <1>8, <1>14, <4>1, <4>2, HonestLater
    <3>2. CASE ~(i <= Len(down))
      <4>1. i - Len(down) \in 1..Len(w.out) /\ all[i] = w.out[i - Len(down)]
        BY <2>2, <2>3, <3>2
      <4>2. Honest(w, all[i])
        BY <1>6, <4>1 DEF Told, SdkInv
      <4> QED BY <1>8, <4>2 DEF Honest
    <3> QED BY <3>1, <3>2
  <2>6. ASSUME NEW i \in 1..Len(down') PROVE Honest(d, down[i])'
    <3>1. Honest(x, down'[i])
      BY <2>4, <2>5
    <3> QED BY <3>1 DEF Honest
  <2> QED BY <2>3, <2>4, <2>6 DEF LettersInv
<1>19. UdpTypeOK'
  <2>1. up' \in Seq([from : App, p : Request]) /\ Len(up') <= 1
    BY <1>2, EmptySeq
  <2>2. turn' \in {0, 1}
    BY <1>2 DEF UdpInv, UdpTypeOK
  <2>3. app' \in [App -> Phone] /\ hellos' \in 0..MaxHello
    BY <1>2 DEF UdpInv, UdpTypeOK
  <2> QED BY <1>8, <1>18, <2>1, <2>2, <2>3 DEF UdpTypeOK
<1>20. UpInv'
  <2>1. Len(up') = 0
    BY <1>2, EmptySeq
  <2> QED BY <2>1 DEF UpInv
<1>21. SdkInv(d)' /\ Awaited(d)' /\ (d.out = <<>>)'
  <2>1. SdkInv(d)'
    BY <1>10 DEF SdkInv, Sound, Own, Once, Told, Honest, Meant, MeantFor
  <2>2. Awaited(d)'
    BY <1>11 DEF Awaited, AwaitedIn
  <2> QED BY <1>8, <2>1, <2>2
<1> QED BY <1>17, <1>18, <1>19, <1>20, <1>21 DEF UdpInv

LEMMA UdpInitInv == UdpInit => UdpInv
<1> SUFFICES ASSUME UdpInit PROVE UdpInv
  OBVIOUS
<1>1. PICK k \in Keys \cup {Unset} :
        d = [sock |-> FALSE, client |-> [s \in Slot |-> NoClient], count |-> FALSE, list |-> <<>>, msgid |-> 1, key |-> k,
             out |-> <<>>, done |-> [a \in App |-> [n \in 1..MaxPipe |-> 0]], swallowed |-> {}, stray |-> FALSE]
  BY DEF UdpInit
<1>2. app = [a \in App |-> [sess |-> None, wait |-> 0, cmd |-> "pipe", sent |-> 0, got |-> 1, acked |-> {}, lost |-> FALSE]]
      /\ turn = 0 /\ hellos = 0 /\ up = <<>> /\ down = <<>>
  BY DEF UdpInit
<1>3. MaxPipe \in Nat /\ MaxHello \in Nat /\ MaxNet \in Nat /\ 0 \in Slot /\ App # {}
  BY UdpAssumption DEF Slot
<1>4. NoClient \in Client /\ NoClient.active = FALSE
  BY <1>3 DEF NoClient, Client, Key
<1>5. d.client \in [Slot -> Client] /\ \A s \in Slot : d.client[s].active = FALSE
  BY <1>1, <1>4
<1>6. d.done \in [App -> [1..MaxPipe -> Nat]] /\ \A a \in App : \A n \in 1..MaxPipe : d.done[a][n] = 0
  BY <1>1
<1>7. Len(<<>>) = 0 /\ \A S : <<>> \in Seq(S)
  BY EmptySeq
<1>8. d \in Sdk /\ d.out = <<>> /\ d.list = <<>> /\ d.swallowed = {}
  <2> DEFINE c == [s \in Slot |-> NoClient]
             dn == [a \in App |-> [n \in 1..MaxPipe |-> 0]]
  <2>1. c \in [Slot -> Client] /\ dn \in [App -> [1..MaxPipe -> Nat]]
    BY <1>4
  <2> HIDE DEF c, dn
  <2>2. d = [sock |-> FALSE, client |-> c, count |-> FALSE, list |-> <<>>, msgid |-> 1, key |-> k,
             out |-> <<>>, done |-> dn, swallowed |-> {}, stray |-> FALSE]
    BY <1>1 DEF c, dn
  <2>3. <<>> \in Seq(Item) /\ <<>> \in Seq(Letter)
    BY <1>7
  <2> QED BY <2>1, <2>2, <2>3 DEF Sdk, Key
<1>9. SdkInv(d)
  <2>1. Sound(d) /\ Own(d)
    BY <1>5 DEF Sound, Own
  <2>2. Once(d)
    BY <1>6 DEF Once
  <2>3. Told(d) /\ Meant(d)
    BY <1>7, <1>8 DEF Told, Meant
  <2> QED BY <1>8, <2>1, <2>2, <2>3 DEF SdkInv
<1>10. Awaited(d) /\ UpInv /\ LettersInv
  BY <1>2, <1>7, <1>8 DEF Awaited, UpInv, LettersInv
<1>11. UdpTypeOK
  <2> DEFINE ph == [sess |-> None, wait |-> 0, cmd |-> "pipe", sent |-> 0, got |-> 1, acked |-> {}, lost |-> FALSE]
  <2>1. ph \in Phone
    BY <1>3 DEF Phone, Session, None
  <2> HIDE DEF ph
  <2>2. app = [a \in App |-> ph]
    BY <1>2 DEF ph
  <2>3. app \in [App -> Phone]
    BY <2>1, <2>2
  <2>4. up \in Seq([from : App, p : Request]) /\ Len(up) = 0 /\ down \in Seq(Letter) /\ Len(down) = 0
    BY <1>2, EmptySeq
  <2>5. turn \in {0, 1} /\ hellos \in 0..MaxHello
    BY <1>2, <1>3
  <2>6. Len(up) <= 1 /\ Len(down) <= MaxNet
    BY <1>3, <2>4
  <2> QED BY <1>8, <2>3, <2>4, <2>5, <2>6 DEF UdpTypeOK
<1>12. PhonesInv
  <2>1. ASSUME NEW a \in App PROVE PhoneOK(a)
    <3>1. app[a].wait = 0 /\ app[a].sent = 0 /\ app[a].acked = {} /\ app[a].lost = FALSE
      BY <1>2
    <3> QED BY <1>6, <3>1 DEF PhoneOK, Kept
  <2> QED BY <2>1 DEF PhonesInv
<1> QED BY <1>8, <1>9, <1>10, <1>11, <1>12 DEF UdpInv

\* The SDK does not move in a step of an app or of the network.
LEMMA SdkStays ==
  ASSUME UdpInv, d' = d, app' \in [App -> Phone], up' \in Seq([from : App, p : Request]), Len(up') <= 1,
         down' \in Seq(Letter), Len(down') <= MaxNet, turn' = turn, hellos' \in 0..MaxHello,
         UpInv', PhonesInv', LettersInv'
  PROVE  UdpInv'
<1>1. SdkInv(d) /\ Awaited(d) /\ d.out = <<>> /\ turn \in {0, 1} /\ d \in Sdk
  BY DEF UdpInv, UdpTypeOK
<1>2. SdkInv(d)'
  BY <1>1 DEF SdkInv, Sound, Own, Once, Told, Honest, Meant, MeantFor
<1>3. Awaited(d)'
  BY <1>1 DEF Awaited, AwaitedIn
<1>4. UdpTypeOK'
  BY <1>1 DEF UdpTypeOK
<1> QED BY <1>1, <1>2, <1>3, <1>4 DEF UdpInv

LEMMA PhoneStays ==
  ASSUME NEW b, PhoneOK(b), d' = d, app'[b] = app[b]
  PROVE  PhoneOK(b)'
BY DEF PhoneOK, Kept, Repeat, Has

LEMMA LettersStay ==
  ASSUME UdpInv, d' = d, down' = down \/ (down # <<>> /\ down' = Tail(down))
  PROVE  down' \in Seq(Letter) /\ Len(down') <= MaxNet /\ LettersInv'
<1>1. down \in Seq(Letter) /\ Len(down) <= MaxNet /\ Len(down) \in Nat /\ MaxNet \in Nat /\ LettersInv
  <2>1. down \in Seq(Letter) /\ Len(down) <= MaxNet /\ LettersInv
    BY DEF UdpInv, UdpTypeOK
  <2> QED BY <2>1, UdpAssumption, LenProperties
<1>2. CASE down' = down
  BY <1>1, <1>2 DEF LettersInv, Honest
<1>3. CASE down # <<>> /\ down' = Tail(down)
  <2>1. down' \in Seq(Letter) /\ Len(down') = Len(down) - 1 /\ \A i \in 1..Len(down') : down'[i] = down[i + 1]
    BY <1>1, <1>3, HeadTailProperties
  <2>2. ASSUME NEW k \in 1..Len(down') PROVE Honest(d, down[k])'
    <3>1. k + 1 \in 1..Len(down) /\ down'[k] = down[k + 1]
      BY <1>1, <2>1
    <3>2. Honest(d, down[k + 1])
      BY <1>1, <3>1 DEF LettersInv
    <3> QED BY <3>1, <3>2 DEF Honest
  <2> QED BY <1>1, <2>1, <2>2 DEF LettersInv
<1> QED BY <1>2, <1>3

LEMMA PostKeeps ==
  ASSUME NEW a \in App, NEW q \in Request, Post(a, q), Coming(a, q)'
  PROVE  up' \in Seq([from : App, p : Request]) /\ Len(up') <= 1 /\ UpInv'
<1> DEFINE r == [from |-> a, p |-> q]
<1>1. up' = <<r>>
  BY DEF Post
<1>2. r \in [from : App, p : Request] /\ r.from = a /\ r.p = q
  OBVIOUS
<1> HIDE DEF r
<1>3. up' \in Seq([from : App, p : Request]) /\ Len(up') = 1 /\ up'[1] = r
  BY <1>1, <1>2
<1>4. ASSUME NEW k \in 1..Len(up') PROVE Coming(up[k].from, up[k].p)'
  <2>1. up'[k].from = a /\ up'[k].p = q
    BY <1>2, <1>3
  <2> QED BY <2>1 DEF Coming, Numbered, Repeat, Has
<1> QED BY <1>3, <1>4 DEF UpInv

\* Nothing on its way changes but what app a waits for, which may end.
LEMMA UpStays ==
  ASSUME UdpInv, d' = d, up' = up, NEW a \in App, \A b \in App : b # a => app'[b] = app[b],
         app'[a].sent = app[a].sent, app'[a].wait \in {0, app[a].wait}
  PROVE  UpInv'
<1>1. ASSUME NEW k \in 1..Len(up') PROVE Coming(up[k].from, up[k].p)'
  <2>1. up \in Seq([from : App, p : Request])
    BY DEF UdpInv, UdpTypeOK
  <2>2. up[k] \in [from : App, p : Request] /\ Coming(up[k].from, up[k].p)
    BY <2>1, ElementOfSeq DEF UdpInv, UpInv
  <2> QED BY <2>2 DEF Coming, Numbered, Repeat, Has
<1> QED BY <1>1 DEF UpInv

LEMMA HelloKeeps ==
  ASSUME UdpInv, NEW a \in App, AppHello(a)
  PROVE  UdpInv'
<1>1. d' = d /\ down' = down /\ app' = app /\ turn' = turn /\ hellos' = hellos + 1 /\ hellos < MaxHello /\ app[a].sess = None
  BY DEF AppHello
<1>2. PICK q : q = [cmd |-> "hello", key |-> d.key] /\ Post(a, q)
  BY DEF AppHello
<1>3. UdpTypeOK /\ PhonesInv /\ d.key \in Key /\ MaxHello \in Nat
  BY UdpAssumption DEF UdpInv, UdpTypeOK, Sdk
<1>4. q \in Request
  BY <1>2, <1>3 DEF Request
<1>5. Coming(a, q)'
  BY <1>1, <1>2, <1>3 DEF Coming, PhonesInv, PhoneOK
<1>6. up' \in Seq([from : App, p : Request]) /\ Len(up') <= 1 /\ UpInv'
  BY <1>2, <1>4, <1>5, PostKeeps
<1>7. down' \in Seq(Letter) /\ Len(down') <= MaxNet /\ LettersInv'
  BY <1>1, LettersStay
<1>8. PhonesInv'
  BY <1>1, <1>3, PhoneStays DEF PhonesInv
<1>9. app' \in [App -> Phone] /\ hellos' \in 0..MaxHello
  BY <1>1, <1>3 DEF UdpTypeOK
<1> QED BY <1>1, <1>6, <1>7, <1>8, <1>9, SdkStays

LEMMA KeyKeeps ==
  ASSUME UdpInv, NEW a \in App, AppKey(a)
  PROVE  UdpInv'
<1>1. d' = d /\ down' = down /\ app' = app /\ turn' = turn /\ hellos' = hellos + 1 /\ hellos < MaxHello
  BY DEF AppKey
<1>2. PICK k \in Keys, q \in Request : q = [cmd |-> "setack", key |-> k] /\ Post(a, q)
  BY DEF AppKey, Request
<1>3. UdpTypeOK /\ PhonesInv /\ MaxHello \in Nat
  BY UdpAssumption DEF UdpInv
<1>4. q \in Request
  BY <1>2 DEF Request
<1>5. Coming(a, q)'
  BY <1>2 DEF Coming
<1>6. up' \in Seq([from : App, p : Request]) /\ Len(up') <= 1 /\ UpInv'
  BY <1>2, <1>4, <1>5, PostKeeps
<1>7. down' \in Seq(Letter) /\ Len(down') <= MaxNet /\ LettersInv'
  BY <1>1, LettersStay
<1>8. PhonesInv'
  BY <1>1, <1>3, PhoneStays DEF PhonesInv
<1>9. app' \in [App -> Phone] /\ hellos' \in 0..MaxHello
  BY <1>1, <1>3 DEF UdpTypeOK
<1> QED BY <1>1, <1>6, <1>7, <1>8, <1>9, SdkStays

LEMMA AskKeeps ==
  ASSUME UdpInv, NEW a \in App, AppAsk(a)
  PROVE  UdpInv'
<1>1. d' = d /\ down' = down /\ app' = app /\ turn' = turn /\ hellos' = hellos
  BY DEF AppAsk
<1>0. PICK c \in Cmds \ {"pipe", "set"} : Post(a, [cmd |-> c, sess |-> app[a].sess, key |-> d.key])
  BY DEF AppAsk
<1>2. PICK q : q = [cmd |-> c, sess |-> app[a].sess, key |-> d.key] /\ Post(a, q)
  BY <1>0
<1>3. UdpTypeOK /\ PhonesInv /\ d.key \in Key
  BY DEF UdpInv, UdpTypeOK, Sdk
<1>4. q \in Request /\ q.cmd \notin {"hello", "pipe", "set"}
  <2>1. c \in {"scan", "subkey", "ping", "probe", "debug", "alien"}
    BY UdpAssumption
  <2>2. app[a] \in Phone
    BY <1>3 DEF UdpTypeOK
  <2>3. app[a].sess \in Session
    BY <2>2 DEF Phone
  <2> QED BY <1>2, <1>3, <2>1, <2>3 DEF Request
<1>5. Coming(a, q)'
  BY <1>4 DEF Coming
<1>6. up' \in Seq([from : App, p : Request]) /\ Len(up') <= 1 /\ UpInv'
  BY <1>2, <1>4, <1>5, PostKeeps
<1>7. down' \in Seq(Letter) /\ Len(down') <= MaxNet /\ LettersInv'
  BY <1>1, LettersStay
<1>8. PhonesInv'
  BY <1>1, <1>3, PhoneStays DEF PhonesInv
<1>9. app' \in [App -> Phone] /\ hellos' \in 0..MaxHello
  BY <1>1, <1>3 DEF UdpTypeOK
<1> QED BY <1>1, <1>6, <1>7, <1>8, <1>9, SdkStays

LEMMA AppByeKeeps ==
  ASSUME UdpInv, NEW a \in App, AppBye(a)
  PROVE  UdpInv'
<1> DEFINE g == [app[a] EXCEPT !.sess = None, !.wait = 0]
<1>1. d' = d /\ down' = down /\ turn' = turn /\ hellos' = hellos
  BY DEF AppBye
<1>2. PICK q : q = [cmd |-> "bye", sess |-> app[a].sess] /\ Post(a, q)
  BY DEF AppBye
<1>3. UdpTypeOK /\ PhonesInv /\ app \in [App -> Phone] /\ MaxPipe \in Nat /\ 0 \in Slot
  BY UdpAssumption DEF UdpInv, UdpTypeOK, Slot
<1>4. app' = [app EXCEPT ![a] = g]
  BY <1>3 DEF AppBye
<1>5. app[a] \in Phone
  BY <1>3
<1>6. g \in Phone /\ g.wait = 0 /\ g.sent = app[a].sent /\ g.acked = app[a].acked /\ g.lost = app[a].lost
  <2> DEFINE e == app[a]
  <2>1. e \in Phone /\ None \in Session /\ 0 \in 0..MaxPipe
    BY <1>3, <1>5 DEF Session, None
  <2>2. g = [e EXCEPT !.sess = None, !.wait = 0]
    OBVIOUS
  <2> HIDE DEF e, g
  <2>3. g \in Phone /\ g.wait = 0 /\ g.sent = e.sent /\ g.acked = e.acked /\ g.lost = e.lost
    BY <2>1, <2>2 DEF Phone
  <2> QED BY <2>3 DEF e
<1> HIDE DEF g
<1>7. q \in Request /\ Coming(a, q)'
  <2>1. app[a].sess \in Session
    BY <1>5 DEF Phone
  <2> QED BY <1>2, <2>1 DEF Request, Coming
<1>8. up' \in Seq([from : App, p : Request]) /\ Len(up') <= 1 /\ UpInv'
  BY <1>2, <1>7, PostKeeps
<1>9. down' \in Seq(Letter) /\ Len(down') <= MaxNet /\ LettersInv'
  BY <1>1, LettersStay
<1>10. app' \in [App -> Phone] /\ app'[a] = g /\ \A b \in App : b # a => app'[b] = app[b]
  BY <1>3, <1>4, <1>6
<1>11. PhoneOK(a)'
  <2>1. PhoneOK(a) /\ app[a].sent \in 0..MaxPipe
    BY <1>3, <1>5 DEF PhonesInv, Phone
  <2> QED BY <1>1, <1>3, <1>6, <1>10, <2>1 DEF PhoneOK, Kept
<1>12. PhonesInv'
  BY <1>1, <1>3, <1>10, <1>11, PhoneStays DEF PhonesInv
<1>13. hellos' \in 0..MaxHello
  BY <1>1, <1>3 DEF UdpTypeOK
<1> QED BY <1>1, <1>8, <1>9, <1>10, <1>12, <1>13, SdkStays

\* A new message has a number no message was handled with; a resent one is the one the app waits for.
LEMMA AppPipeKeeps ==
  ASSUME UdpInv, NEW a \in App, AppPipe(a)
  PROVE  UdpInv'
<1>1. d' = d /\ down' = down /\ turn' = turn /\ hellos' = hellos /\ app[a].sess # None
  BY DEF AppPipe
<1>2. UdpTypeOK /\ PhonesInv /\ app \in [App -> Phone] /\ MaxPipe \in Nat /\ d \in Sdk
  BY UdpAssumption DEF UdpInv, UdpTypeOK
<1> DEFINE e == app[a]
<1>3. e \in Phone /\ PhoneOK(a)
  BY <1>2 DEF PhonesInv
<1>4. e.sess \in Session /\ e.sent \in Nat /\ e.sent <= MaxPipe /\ e.wait \in Nat /\ e.wait <= MaxPipe /\ e.cmd \in {"pipe", "set"}
  <2> HIDE DEF e
  <2> QED BY <1>2, <1>3 DEF Phone
<1>5. down' \in Seq(Letter) /\ Len(down') <= MaxNet /\ LettersInv'
  BY <1>1, LettersStay
<1>6. hellos' \in 0..MaxHello
  BY <1>1, <1>2 DEF UdpTypeOK
<1>7. CASE e.wait = 0 /\ e.sent < MaxPipe
           /\ \E c \in Cmds \cap {"pipe", "set"} :
                /\ Post(a, [cmd |-> c, sess |-> app[a].sess, id |-> app[a].sent + 1, resend |-> FALSE])
                /\ app' = [app EXCEPT ![a].sent = @ + 1, ![a].wait = app[a].sent + 1, ![a].cmd = c]
  <2> DEFINE n == e.sent + 1
  <2>0. PICK c \in {"pipe", "set"} : /\ Post(a, [cmd |-> c, sess |-> e.sess, id |-> n, resend |-> FALSE])
                                     /\ app' = [app EXCEPT ![a] = [e EXCEPT !.sent = n, !.wait = n, !.cmd = c]]
    <3>1. PICK c \in {"pipe", "set"} : /\ Post(a, [cmd |-> c, sess |-> e.sess, id |-> n, resend |-> FALSE])
                                       /\ app' = [app EXCEPT ![a].sent = @ + 1, ![a].wait = n, ![a].cmd = c]
      BY <1>7
    <3>2. app' = [app EXCEPT ![a] = [e EXCEPT !.sent = n, !.wait = n, !.cmd = c]]
      BY <1>2, <3>1
    <3> HIDE DEF e, n
    <3> QED BY <3>1, <3>2
  <2>1. PICK q : /\ q = [cmd |-> c, sess |-> e.sess, id |-> n, resend |-> FALSE]
                 /\ Post(a, q)
                 /\ app' = [app EXCEPT ![a] = [e EXCEPT !.sent = n, !.wait = n, !.cmd = c]]
    BY <2>0
  <2> DEFINE g == [e EXCEPT !.sent = n, !.wait = n, !.cmd = c]
  <2>2. n \in 1..MaxPipe /\ n > e.sent /\ n # 0 /\ n \in 0..MaxPipe
    BY <1>2, <1>4, <1>7
  <2>3. d.done[a][n] = 0
    BY <1>3, <2>2 DEF PhoneOK, Kept
  <2> HIDE DEF n
  <2>4. g \in Phone /\ g.sent = n /\ g.wait = n /\ g.sess = e.sess /\ g.acked = e.acked /\ g.lost = e.lost
    <3> HIDE DEF e
    <3> QED BY <1>3, <2>2 DEF Phone
  <2> HIDE DEF g
  <2>5. app' \in [App -> Phone] /\ app'[a] = g /\ \A b \in App : b # a => app'[b] = app[b]
    BY <1>2, <2>1, <2>4 DEF g
  <2>6. q \in Request
    BY <1>4, <2>0, <2>1, <2>2 DEF Request
  <2>7. Coming(a, q)'
    <3>1. q.cmd # "hello" /\ q.sess \in Session /\ q.id = n /\ q.resend = FALSE
      BY <1>4, <2>1
    <3>2. Numbered(d, a, q)'
      <4>1. Repeat(d, a, q.id)'
        BY <1>1, <2>3, <3>1 DEF Repeat
      <4>2. q.resend \in BOOLEAN
        BY <3>1
      <4> QED BY <1>1, <2>2, <2>3, <3>1, <4>1, <4>2 DEF Numbered
    <3>3. q.id <= app'[a].sent /\ app'[a].wait \in {0, q.id}
      BY <2>2, <2>4, <2>5, <3>1
    <3> QED BY <3>1, <3>2, <3>3 DEF Coming
  <2>8. up' \in Seq([from : App, p : Request]) /\ Len(up') <= 1 /\ UpInv'
    BY <2>1, <2>6, <2>7, PostKeeps
  <2>9. PhoneOK(a)'
    <3>1. ASSUME NEW m \in 1..MaxPipe, m > n PROVE d.done[a][m] = 0
      <4>1. m > e.sent
        BY <1>4, <2>2, <3>1
      <4> QED BY <1>3, <4>1 DEF PhoneOK, Kept
    <3>2. Kept(d, a)'
      BY <1>1, <2>3, <2>4, <2>5, <3>1 DEF Kept, Repeat
    <3>3. \A m \in e.acked : d.done[a][m] >= 1 \/ <<a, m>> \in d.swallowed
      BY <1>3 DEF PhoneOK
    <3>4. e.lost => d.stray
      BY <1>3 DEF PhoneOK
    <3>5. n <= n
      BY <2>2
    <3> QED BY <1>1, <2>4, <2>5, <3>2, <3>3, <3>4, <3>5 DEF PhoneOK
  <2>10. PhonesInv'
    BY <1>1, <1>2, <2>5, <2>9, PhoneStays DEF PhonesInv
  <2> QED BY <1>1, <1>5, <1>6, <2>5, <2>8, <2>10, SdkStays
<1>8. CASE /\ e.wait # 0 /\ app' = app
           /\ Post(a, [cmd |-> app[a].cmd, sess |-> app[a].sess, id |-> app[a].wait, resend |-> TRUE])
  <2>1. PICK q : q = [cmd |-> e.cmd, sess |-> e.sess, id |-> e.wait, resend |-> TRUE] /\ Post(a, q)
    BY <1>8
  <2>2. e.wait \in 1..MaxPipe /\ e.wait <= e.sent /\ Repeat(d, a, e.wait)
    BY <1>2, <1>3, <1>4, <1>8 DEF PhoneOK, Kept
  <2>3. app'[a] = e
    BY <1>8
  <2> HIDE DEF e
  <2>4. q \in Request
    BY <1>4, <2>1, <2>2 DEF Request
  <2>5. q.cmd # "hello" /\ q.sess \in Session /\ q.id = e.wait /\ q.resend = TRUE
    BY <1>4, <2>1
  <2>6. Coming(a, q)'
    <3>1. Numbered(d, a, q)'
      BY <1>1, <2>2, <2>5 DEF Numbered, Repeat, Has
    <3> QED BY <2>2, <2>3, <2>5, <3>1 DEF Coming
  <2>7. up' \in Seq([from : App, p : Request]) /\ Len(up') <= 1 /\ UpInv'
    BY <2>1, <2>4, <2>6, PostKeeps
  <2>8. PhonesInv'
    BY <1>1, <1>2, <1>8, PhoneStays DEF PhonesInv
  <2>9. app' \in [App -> Phone]
    BY <1>2, <1>8
  <2> QED BY <1>1, <1>5, <1>6, <2>7, <2>8, <2>9, SdkStays
<1> QED BY <1>7, <1>8 DEF AppPipe

\* App a takes something: no new message, and what it takes for acknowledged is.
LEMMA TakesPhone ==
  ASSUME UdpInv, d' = d, NEW a \in App, NEW g \in Phone, app' = [app EXCEPT ![a] = g],
         g.sent = app[a].sent, g.wait \in {0, app[a].wait}, g.sess = None => g.wait = 0, g.lost => d.stray,
         \A n \in g.acked : n \in app[a].acked \/ d.done[a][n] >= 1 \/ <<a, n>> \in d.swallowed
  PROVE  app' \in [App -> Phone] /\ PhonesInv' /\ app'[a] = g /\ \A b \in App : b # a => app'[b] = app[b]
<1>1. UdpTypeOK /\ PhonesInv /\ app \in [App -> Phone]
  BY DEF UdpInv, UdpTypeOK
<1>2. app' \in [App -> Phone] /\ app'[a] = g /\ \A b \in App : b # a => app'[b] = app[b]
  BY <1>1
<1>3. PhoneOK(a)'
  <2>1. PhoneOK(a) /\ app[a].sent \in Nat /\ app[a].wait \in Nat
    <3>1. app[a] \in Phone /\ MaxPipe \in Nat
      BY <1>1, UdpAssumption
    <3> QED BY <1>1, <3>1 DEF PhonesInv, Phone
  <2>2. g.wait <= g.sent
    BY <2>1 DEF PhoneOK
  <2>3. \A n \in g.acked : d.done[a][n] >= 1 \/ <<a, n>> \in d.swallowed
    BY <2>1 DEF PhoneOK
  <2>4. Kept(d, a)'
    BY <1>2, <2>1 DEF PhoneOK, Kept, Repeat, Has
  <2> QED BY <1>2, <2>2, <2>3, <2>4 DEF PhoneOK
<1> QED BY <1>1, <1>2, <1>3, PhoneStays DEF PhonesInv

LEMMA TakesKeeps ==
  ASSUME UdpInv, NEW a \in App, AppTakes(a)
  PROVE  UdpInv'
<1>1. d' = d /\ down # <<>> /\ down' = Tail(down) /\ turn' = turn /\ hellos' = hellos
  BY DEF AppTakes
<1>2. UdpTypeOK /\ PhonesInv /\ app \in [App -> Phone] /\ up \in Seq([from : App, p : Request]) /\ Len(up) <= 1 /\ hellos \in 0..MaxHello
      /\ MaxPipe \in Nat /\ down \in Seq(Letter) /\ LettersInv /\ 0 \in Slot
  BY UdpAssumption DEF UdpInv, UdpTypeOK, Slot
<1>3. PICK o \in Letter : o = Head(down) /\ o.to = a /\ Honest(d, o)
  <2>1. Head(down) \in Letter /\ Head(down) = down[1] /\ 1 \in 1..Len(down)
    BY <1>1, <1>2, HeadTailProperties, LenProperties, EmptySeq
  <2> QED BY <1>2, <2>1 DEF AppTakes, LettersInv
<1> DEFINE p == o.p
           e == app[a]
<1>4. e \in Phone /\ PhoneOK(a) /\ p \in Packet
  BY <1>2 DEF PhonesInv, Letter
<1>5. down' \in Seq(Letter) /\ Len(down') <= MaxNet /\ LettersInv'
  BY <1>1, LettersStay
<1>6. ASSUME NEW g \in Phone, app' = [app EXCEPT ![a] = g], up' = up, g.sent = e.sent, g.wait \in {0, e.wait},
             g.sess = None => g.wait = 0, g.lost => d.stray,
             \A n \in g.acked : n \in e.acked \/ d.done[a][n] >= 1 \/ <<a, n>> \in d.swallowed
      PROVE  UdpInv'
  <2>1. app' \in [App -> Phone] /\ PhonesInv' /\ app'[a] = g /\ \A b \in App : b # a => app'[b] = app[b]
    BY <1>1, <1>6, TakesPhone
  <2>2. UpInv'
    BY <1>1, <1>6, <2>1, UpStays
  <2> QED BY <1>1, <1>2, <1>5, <1>6, <2>1, <2>2, SdkStays
<1>7. (e.sess = None => e.wait = 0) /\ (e.lost => d.stray)
  BY <1>4 DEF PhoneOK
<1>8. app = [app EXCEPT ![a] = e]
  BY <1>2
<1>9. p.cmd \in {"session", "refused", "done", "ack", "item"}
  BY <1>4 DEF Packet
<1>10. CASE p.cmd = "session"
  <2>1. app' = [app EXCEPT ![a] = [e EXCEPT !.sess = p.sess]] /\ up' = up
    BY <1>3, <1>10 DEF AppTakes
  <2>2. PICK g : g = [e EXCEPT !.sess = p.sess]
    OBVIOUS
  <2>3. p.sess \in Session /\ p.sess # None
    BY <1>3, <1>4, <1>10 DEF Packet, Honest, None
  <2> HIDE DEF e, p
  <2>4. g \in Phone /\ g.sess = p.sess /\ g.wait = e.wait /\ g.sent = e.sent /\ g.acked = e.acked /\ g.lost = e.lost
    BY <1>4, <2>2, <2>3 DEF Phone
  <2> QED BY <1>6, <1>7, <2>1, <2>2, <2>3, <2>4
<1>11. CASE p.cmd \in {"refused", "done"}
  <2>1. app' = app /\ up' = up
    BY <1>3, <1>11 DEF AppTakes
  <2>2. PICK g : g = e
    OBVIOUS
  <2> QED BY <1>4, <1>6, <1>7, <1>8, <2>1, <2>2
<1>12. CASE p.cmd = "ack" /\ p.ok
  <2> DEFINE w == IF e.wait = p.id THEN 0 ELSE e.wait
  <2>1. app' = [app EXCEPT ![a] = [e EXCEPT !.wait = w, !.acked = e.acked \cup {p.id}]] /\ up' = up
    BY <1>2, <1>3, <1>12 DEF AppTakes
  <2>2. w \in {0, e.wait}
    OBVIOUS
  <2> HIDE DEF w
  <2>3. PICK g : g = [e EXCEPT !.wait = w, !.acked = e.acked \cup {p.id}]
    OBVIOUS
  <2>4. p.id \in 1..MaxPipe /\ (d.done[a][p.id] >= 1 \/ <<a, p.id>> \in d.swallowed)
    BY <1>3, <1>4, <1>12 DEF Packet, Honest
  <2> HIDE DEF e, p
  <2>5. g \in Phone /\ g.sess = e.sess /\ g.wait = w /\ g.sent = e.sent /\ g.acked = e.acked \cup {p.id} /\ g.lost = e.lost
    <3> DEFINE ac == e.acked \cup {p.id}
    <3>1. w \in 0..MaxPipe /\ ac \in SUBSET (1..MaxPipe)
      BY <1>2, <1>4, <2>2, <2>4 DEF Phone
    <3> HIDE DEF ac
    <3>2. g = [e EXCEPT !.wait = w, !.acked = ac]
      BY <2>3 DEF ac
    <3>3. g \in Phone /\ g.sess = e.sess /\ g.wait = w /\ g.sent = e.sent /\ g.acked = ac /\ g.lost = e.lost
      BY <1>4, <3>1, <3>2 DEF Phone
    <3> QED BY <3>3 DEF ac
  <2>6. \A n \in g.acked : n \in e.acked \/ d.done[a][n] >= 1 \/ <<a, n>> \in d.swallowed
    BY <2>4, <2>5
  <2> QED BY <1>6, <1>7, <2>1, <2>2, <2>3, <2>5, <2>6
<1>13. CASE p.cmd = "ack" /\ ~p.ok
  <2>1. app' = [app EXCEPT ![a] = [e EXCEPT !.sess = None, !.wait = 0]] /\ up' = up
    BY <1>2, <1>3, <1>13 DEF AppTakes
  <2>2. PICK g : g = [e EXCEPT !.sess = None, !.wait = 0]
    OBVIOUS
  <2>3. None \in Session /\ 0 \in 0..MaxPipe
    BY <1>2 DEF Session, None
  <2> HIDE DEF e, p
  <2>4. g \in Phone /\ g.wait = 0 /\ g.sent = e.sent /\ g.acked = e.acked /\ g.lost = e.lost
    BY <1>4, <2>2, <2>3 DEF Phone
  <2> QED BY <1>6, <1>7, <2>1, <2>2, <2>4
<1>14. CASE p.cmd = "item"
  <2>1. PICK q : q = [cmd |-> "got", sess |-> e.sess, id |-> p.id] /\ Post(a, q)
    BY <1>3, <1>14 DEF AppTakes
  <2>2. app' = app \/ app' = [app EXCEPT ![a] = [e EXCEPT !.got = p.id, !.lost = e.lost \/ ~p.mine]]
    BY <1>2, <1>3, <1>14 DEF AppTakes
  <2>3. e.sess \in Session /\ p.id \in Nat /\ p.mine \in BOOLEAN /\ (~d.stray => p.mine) /\ e.lost \in BOOLEAN
    <3>1. p.id \in Nat /\ p.mine \in BOOLEAN /\ (~d.stray => p.mine)
      BY <1>3, <1>4, <1>14 DEF Packet, Honest
    <3> HIDE DEF e
    <3> QED BY <1>4, <3>1 DEF Phone
  <2> DEFINE lost == e.lost \/ ~p.mine
  <2>4. lost \in BOOLEAN /\ (lost => d.stray)
    BY <1>7, <2>3
  <2>5. PICK g : app' = [app EXCEPT ![a] = g] /\ (g = e \/ g = [e EXCEPT !.got = p.id, !.lost = lost])
    BY <1>8, <2>2
  <2> HIDE DEF e, p, lost
  <2>6. g \in Phone /\ g.sess = e.sess /\ g.wait = e.wait /\ g.sent = e.sent /\ g.acked = e.acked /\ (g.lost => d.stray)
    BY <1>4, <1>7, <2>3, <2>4, <2>5 DEF Phone
  <2>7. app' \in [App -> Phone] /\ PhonesInv'
    BY <1>1, <1>7, <2>5, <2>6, TakesPhone DEF e
  <2>8. q \in Request /\ Coming(a, q)'
    BY <2>1, <2>3 DEF Request, Coming
  <2>9. up' \in Seq([from : App, p : Request]) /\ Len(up') <= 1 /\ UpInv'
    BY <2>1, <2>8, PostKeeps
  <2> QED BY <1>1, <1>2, <1>5, <2>7, <2>9, SdkStays
<1> QED BY <1>9, <1>10, <1>11, <1>12, <1>13, <1>14

LEMMA LoseKeeps ==
  ASSUME UdpInv, Lose
  PROVE  UdpInv'
<1>1. UdpTypeOK /\ PhonesInv /\ app \in [App -> Phone] /\ up \in Seq([from : App, p : Request]) /\ Len(up) <= 1 /\ hellos \in 0..MaxHello
      /\ UpInv
  BY DEF UdpInv, UdpTypeOK
<1>2. d' = d /\ app' = app /\ turn' = turn /\ hellos' = hellos /\ (down' = down \/ (down # <<>> /\ down' = Tail(down)))
      /\ (up' = <<>> \/ up' = up)
  BY DEF Lose
<1>3. down' \in Seq(Letter) /\ Len(down') <= MaxNet /\ LettersInv'
  BY <1>2, LettersStay
<1>4. PhonesInv'
  BY <1>1, <1>2, PhoneStays DEF PhonesInv
<1>5. up' \in Seq([from : App, p : Request]) /\ Len(up') <= 1 /\ UpInv'
  <2>1. CASE up' = <<>>
    <3>1. up' \in Seq([from : App, p : Request]) /\ Len(up') = 0
      BY <2>1, EmptySeq
    <3> QED BY <3>1 DEF UpInv
  <2>2. CASE up' = up
    <3>1. ASSUME NEW a \in App PROVE UpInv'
      BY <1>2, <2>2, UpStays
    <3>2. \E a \in App : TRUE
      BY UdpAssumption
    <3> QED BY <1>1, <2>2, <3>1, <3>2
  <2> QED BY <1>2, <2>1, <2>2
<1> QED BY <1>1, <1>2, <1>3, <1>4, <1>5, SdkStays

-----------------------------------------------------------------------------
(* Every reachable state *)

LEMMA UdpStep == UdpInv /\ [UdpNext]_udpVars => UdpInv'
<1> SUFFICES ASSUME UdpInv, [UdpNext]_udpVars PROVE UdpInv'
  OBVIOUS
<1>1. CASE UNCHANGED udpVars
  <2>1. d' = d /\ app' = app /\ up' = up /\ turn' = turn /\ hellos' = hellos /\ down' = down
    BY <1>1 DEF udpVars
  <2>2. PhonesInv'
    BY <2>1, PhoneStays DEF PhonesInv, UdpInv
  <2>3. PICK a \in App : TRUE
    BY UdpAssumption
  <2>4. UpInv'
    BY <2>1, UpStays
  <2>5. down' \in Seq(Letter) /\ Len(down') <= MaxNet /\ LettersInv'
    BY <2>1, LettersStay
  <2> QED BY <2>1, <2>2, <2>4, <2>5, SdkStays DEF UdpInv, UdpTypeOK
<1>2. ASSUME NEW due \in SUBSET Slot, Loop(due) PROVE UdpInv'
  BY <1>2, LoopKeeps
<1>3. ASSUME NEW a \in App, AppHello(a) PROVE UdpInv'
  BY <1>3, HelloKeeps
<1>4. ASSUME NEW a \in App, AppKey(a) PROVE UdpInv'
  BY <1>4, KeyKeeps
<1>5. ASSUME NEW a \in App, AppPipe(a) PROVE UdpInv'
  BY <1>5, AppPipeKeeps
<1>6. ASSUME NEW a \in App, AppAsk(a) PROVE UdpInv'
  BY <1>6, AskKeeps
<1>7. ASSUME NEW a \in App, AppBye(a) PROVE UdpInv'
  BY <1>7, AppByeKeeps
<1>8. ASSUME NEW a \in App, AppTakes(a) PROVE UdpInv'
  BY <1>8, TakesKeeps
<1>9. CASE Lose
  BY <1>9, LoseKeeps
<1> QED BY <1>1, <1>2, <1>3, <1>4, <1>5, <1>6, <1>7, <1>8, <1>9 DEF UdpNext, Apps

LEMMA UdpAlways == UdpSpec => []UdpInv
<1> QED BY UdpInitInv, UdpStep, PTL DEF UdpSpec

\* The SDK, the apps and the packets keep their types.
THEOREM UdpTypes == UdpSpec => []UdpTypeOK
<1>1. UdpInv => UdpTypeOK
  BY DEF UdpInv
<1> QED BY <1>1, UdpAlways, PTL

\* Sessions of the local apps: an address never has two slots, an active slot has a check value, and
\* clientCount is set while one is active, however handshakes, byes and expiries interleave.
THEOREM SessionsStaySound == UdpSpec => []SessionsSound
<1>1. UdpInv => SessionsSound
  <2> SUFFICES ASSUME UdpInv PROVE SessionsSound
    OBVIOUS
  <2>1. Sound(d) /\ DOMAIN d.client = Slot
    BY DEF UdpInv, SdkInv, Sdk
  <2> QED BY <2>1 DEF SessionsSound, Sound
<1> QED BY <1>1, UdpAlways, PTL

\* However often a message is resent and packets are lost, it is handled at most once, and an
\* acknowledged one was handled unless an earlier session's number swallowed it.
THEOREM PipesHandledOnce == UdpSpec => []PipeExactlyOnce
<1>1. UdpInv => PipeExactlyOnce
  <2> SUFFICES ASSUME UdpInv PROVE PipeExactlyOnce
    OBVIOUS
  <2>1. d \in Sdk /\ Once(d) /\ PhonesInv /\ DOMAIN app = App
    BY DEF UdpInv, SdkInv, UdpTypeOK
  <2>2. DOMAIN d.done = App /\ d.done \in [App -> [1..MaxPipe -> Nat]]
    BY <2>1 DEF Sdk
  <2>3. ASSUME NEW a \in App, NEW n \in 1..MaxPipe
        PROVE d.done[a][n] <= 1 /\ (n \in app[a].acked => d.done[a][n] = 1 \/ <<a, n>> \in d.swallowed)
    <3>1. d.done[a][n] \in Nat /\ d.done[a][n] <= 1
      BY <2>1, <2>2 DEF Once
    <3>2. n \in app[a].acked => d.done[a][n] >= 1 \/ <<a, n>> \in d.swallowed
      BY <2>1 DEF PhonesInv, PhoneOK
    <3> QED BY <3>1, <3>2
  <2>4. \A a \in App : DOMAIN d.done[a] = 1..MaxPipe
    BY <2>2
  <2> QED BY <2>1, <2>3, <2>4 DEF PipeExactlyOnce
<1> QED BY <1>1, UdpAlways, PTL

\* A message the gateway queued for an app is never taken by another one that was given the slot
\* since, as long as no client expires with messages waiting.
THEOREM RepliesReachAskers == UdpSpec => []ReplyReachesAsker
<1>1. UdpInv => ReplyReachesAsker
  <2> SUFFICES ASSUME UdpInv PROVE ReplyReachesAsker
    OBVIOUS
  <2>1. PhonesInv /\ DOMAIN app = App
    BY DEF UdpInv, UdpTypeOK
  <2> QED BY <2>1 DEF ReplyReachesAsker, PhonesInv, PhoneOK
<1> QED BY <1>1, UdpAlways, PTL
=============================================================================
