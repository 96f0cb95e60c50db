------------------------------ MODULE XlinkTcp ------------------------------
(* The xlink SDK's connection of the gateway to the cloud.  TcpWorkThread       *)
(* (XlinkSystemTcpLoop, every 5 s) opens the connection; UDPWorkThread          *)
(* (XlinkLoop) does everything else on it: requests, timeouts, receiving,       *)
(* closing.  They share tcp_fd, work_type and the bits of tcpFlag without a      *)
(* lock.  tcpFlag is one byte: a write of one bit loads the byte and stores it,  *)
(* so load and store are separate steps wherever the other thread may be in      *)
(* between.  The clock is abstract: a timer may have run out whenever one of     *)
(* its tests is made.                                                            *)
EXTENDS Naturals, FiniteSets

CONSTANTS Fd,            \* descriptors socket() may return (0 is "no connection")
          MaxDomainTry,  \* 3: loops spent on a redirect address before it is erased
          MaxPing,       \* 1: pings that may go unanswered
          MaxUpsets,     \* bound: restarts, resets, and faults of the server or the network
          Redirects      \* what the server may redirect to: subset of {"good", "bad"}

ASSUME FdAssumption == Fd # {} /\ 0 \notin Fd
ASSUME BoundAssumption == MaxDomainTry \in Nat /\ MaxPing \in Nat \ {0} /\ MaxUpsets \in Nat
ASSUME RedirectAssumption == Redirects \subseteq {"good", "bad"}

VARIABLES tcp_fd,    \* net_info.tcp_fd
          open,      \* descriptors the process holds
          work,      \* m_tcp_client.work_type
          tcpFlag,   \* [isLogined, is80Port, is80Success, isFirst]
          ping,      \* net_info.tcpPingCount
          config,    \* [act, auth, domain]: isActivation and the keys xsdk_flash holds; saved at every change
          tries,     \* domain_connect_times
          port,      \* net_info.ServerPort
          tcp,       \* TcpWorkThread: [pc, fd, flags, dom]
          udp,       \* UDPWorkThread: [pc, flags, next]
          line,      \* the connection as the server sees it: [req, ans, tunnel, ok, port, stray]; stray: app
                     \* data came before the login was accepted
          upsets     \* restarts, resets and faults so far

vars == <<tcp_fd, open, work, tcpFlag, ping, config, tries, port, tcp, udp, line, upsets>>

Works == {"NOT_CONNECT", "SEND_HTTPCONNECT", "WAIT_HTTP", "ACTIVATION", "WAIT_ACTIVE",
          "CONNECT", "WAIT_CONNECT", "PING", "WAIT_PING"}
Requests == {"http", "activate", "connect", "ping"}
\* Answers and pushes of the server.  "pipe" stands for the pushes check_typeOk_t knows (PIPE, SET,
\* PROBE, EVENT), "pipe2" for the others; "junk" for a bad type or length; "eof" for the end of the stream.
Answers == {"http", "active", "activeEmpty", "activeFail", "connectOk", "connectFail",
            "good", "bad", "pong", "pipe", "pipe2", "junk", "eof"}
NoLine == [req |-> "none", ans |-> "none", tunnel |-> FALSE, ok |-> FALSE, port |-> 0, stray |-> FALSE]
IdleTcp == [pc |-> "idle", fd |-> 0, flags |-> 0, dom |-> "none"]
IdleUdp == [pc |-> "loop", flags |-> 0, next |-> "none"]
ClearedFlags == [bit \in {"isLogined", "is80Port", "is80Success", "isFirst"} |-> FALSE]
\* Port 80, the SDK's own port, and the port a redirect names.
Ports == {80, 23778, 23779}

\* XlinkInit, XlinkSdkDataInit, XlinkNetInit on a factory-new device.
Init ==
  /\ tcp_fd = 0 /\ open = {} /\ work = "NOT_CONNECT" /\ ping = 0
  /\ tcpFlag = ClearedFlags
  /\ config = [act |-> FALSE, auth |-> FALSE, domain |-> "none"]
  /\ tries = 0 /\ port = 80
  /\ tcp = IdleTcp /\ udp = IdleUdp /\ line = NoLine /\ upsets = 0

\* One more of the bounded number of faults.
Upset == upsets < MaxUpsets /\ upsets' = upsets + 1

\* The process is started again: what xsdk_config_save wrote is read back by xsdk_config_init.
XlinkInit ==
  /\ Upset
  /\ tcp_fd' = 0 /\ open' = {} /\ work' = "NOT_CONNECT" /\ ping' = 0
  /\ tcpFlag' = ClearedFlags
  /\ tries' = 0 /\ port' = 80
  /\ tcp' = IdleTcp /\ udp' = IdleUdp /\ line' = NoLine
  /\ UNCHANGED config

-----------------------------------------------------------------------------
(* TcpWorkThread *)

\* The port alternates between 80 and the connect port; a connect port that changed comes first.
NextPort(connectPort) == IF port = connectPort THEN 80 ELSE connectPort

\* The redirect address is read, and counted whether or not a connection is due; past the limit it is
\* erased, and the emptied name resolves to nothing, so this loop does not connect.
xlink_net_loop_Domain_name ==
  /\ tcp.pc = "idle" /\ tcp_fd = 0
  /\ IF config.domain = "none"
     THEN tcp' = [tcp EXCEPT !.pc = "due", !.dom = "none"] /\ UNCHANGED <<tries, config>>
     ELSE IF tries + 1 > MaxDomainTry
          THEN /\ config' = [config EXCEPT !.domain = "none"]
               /\ tries' = tries + 1
               /\ UNCHANGED tcp
          ELSE /\ tries' = tries + 1
               /\ tcp' = [tcp EXCEPT !.pc = "due", !.dom = config.domain]
               /\ UNCHANGED config
  /\ UNCHANGED <<tcp_fd, open, work, tcpFlag, ping, port, udp, line, upsets>>

\* The delay since the last attempt is not over.
NotDue ==
  /\ tcp.pc = "due"
  /\ tcp' = IdleTcp
  /\ UNCHANGED <<tcp_fd, open, work, tcpFlag, ping, config, tries, port, udp, line, upsets>>

\* The default host is a name, a redirect may give one (is_valid_ip), and a name may not resolve: no
\* socket is made and nothing is cleared.
xlinkGetHostByName ==
  /\ tcp.pc = "due"
  /\ (tcp.dom = "bad" /\ UNCHANGED upsets) \/ Upset
  /\ tcp' = IdleTcp
  /\ UNCHANGED <<tcp_fd, open, work, tcpFlag, ping, config, tries, port, udp, line>>

\* isLogined and tcp_fd are cleared, a socket is made, the port bits are set.
OpenSocket ==
  /\ tcp.pc = "due"
  /\ tcp_fd' = 0
  /\ \E f \in Fd \ open :
       open' = open \cup {f} /\ tcp' = [tcp EXCEPT !.pc = "connecting", !.fd = f]
  /\ port' = NextPort(IF tcp.dom = "none" THEN 23778 ELSE 23779)
  /\ tcpFlag' = [tcpFlag EXCEPT !.isLogined = FALSE, !.is80Port = (port' = 80), !.is80Success = (port' # 80)]
  /\ UNCHANGED <<work, ping, config, tries, udp, line, upsets>>

ConnectFails ==
  /\ tcp.pc = "connecting"
  /\ (tcp.dom = "bad" /\ UNCHANGED upsets) \/ Upset
  /\ open' = open \ {tcp.fd}
  /\ tcp' = IdleTcp
  /\ UNCHANGED <<tcp_fd, work, tcpFlag, ping, config, tries, port, udp, line>>

\* connect() succeeds and tcp_fd is published; a bad redirect address never answers.
xlink_tcp_connect_server ==
  /\ tcp.pc = "connecting" /\ tcp.dom # "bad"
  /\ tcp_fd' = tcp.fd
  /\ line' = [NoLine EXCEPT !.port = port, !.tunnel = (port # 80)]
  /\ tcp' = [tcp EXCEPT !.pc = "connected"]
  /\ UNCHANGED <<open, work, tcpFlag, ping, config, tries, port, udp, upsets>>

\* tcp_fd is read again: XlinkTcpInit only when it is still set.
tcp_Connect_server_init ==
  /\ tcp.pc = "connected"
  /\ IF tcp_fd # 0
     THEN /\ work' = IF tcpFlag.is80Port THEN "SEND_HTTPCONNECT" ELSE "ACTIVATION"
          /\ tcp' = [tcp EXCEPT !.pc = "init", !.flags = tcpFlag]
     ELSE tcp' = IdleTcp /\ UNCHANGED work
  /\ UNCHANGED <<tcp_fd, open, tcpFlag, ping, config, tries, port, udp, line, upsets>>

\* The byte loaded before goes back with isLogined cleared and isFirstConnectSuccess set.
XlinkTcpInit ==
  /\ tcp.pc = "init"
  /\ tcpFlag' = [tcp.flags EXCEPT !.isLogined = FALSE, !.isFirst = TRUE]
  /\ ping' = 0
  /\ tcp' = IdleTcp
  /\ UNCHANGED <<tcp_fd, open, work, config, tries, port, udp, line, upsets>>

-----------------------------------------------------------------------------
(* UDPWorkThread *)

\* xlink_send: a request reaches the server unless the connection is gone.
Send(r) == line' = [line EXCEPT !.req = r]

\* xsdk_closeTCP, first half; the rest of the closing follows in steps of its own, and then
\* work_type is set to next unless next is "none".
CloseThen(next) ==
  /\ open' = open \ {tcp_fd}
  /\ tcp_fd' = 0
  /\ line' = NoLine
  /\ udp' = [udp EXCEPT !.pc = "closed", !.next = next]

\* xlinkChangeWork(TCP_NOT_CONNECT); the flag byte is loaded.
CloseWork ==
  /\ udp.pc = "closed"
  /\ work' = "NOT_CONNECT" /\ ping' = 0
  /\ udp' = [udp EXCEPT !.pc = "clear", !.flags = tcpFlag]
  /\ UNCHANGED <<tcp_fd, open, tcpFlag, config, tries, port, tcp, line, upsets>>

\* The byte is stored with isLogined cleared; whatever the other thread wrote in between is lost.
CloseFlag ==
  /\ udp.pc = "clear"
  /\ tcpFlag' = [udp.flags EXCEPT !.isLogined = FALSE]
  /\ work' = IF udp.next = "none" THEN work ELSE udp.next
  /\ udp' = IdleUdp
  /\ UNCHANGED <<tcp_fd, open, ping, config, tries, port, tcp, line, upsets>>

Looping(w) == udp.pc = "loop" /\ tcp_fd # 0 /\ work = w

\* XlinkTcpLoop, one action per case of its switch.
SendHttpConnect ==
  /\ Looping("SEND_HTTPCONNECT")
  /\ Send("http") /\ work' = "WAIT_HTTP"
  /\ UNCHANGED <<tcp_fd, open, tcpFlag, ping, config, tries, port, tcp, udp, upsets>>

\* A timer runs out because the server is silent; or before an answer that is late.
TimerOut == (line.req = "none" /\ line.ans = "none" /\ UNCHANGED upsets) \/ Upset

\* The 15-second timer of a request has run out.
WaitTimeout ==
  /\ \E w \in {"WAIT_HTTP", "WAIT_ACTIVE", "WAIT_CONNECT"} : Looping(w)
  /\ TimerOut
  /\ CloseThen("none")
  /\ UNCHANGED <<work, tcpFlag, ping, config, tries, port, tcp>>

XlinkTcpWorkActivation ==
  /\ Looping("ACTIVATION")
  /\ IF config.act
     THEN work' = "CONNECT" /\ UNCHANGED line
     ELSE Send("activate") /\ work' = "WAIT_ACTIVE"
  /\ UNCHANGED <<tcp_fd, open, tcpFlag, ping, config, tries, port, tcp, udp, upsets>>

\* Mutant: without an auth key the activation is kept.
ConnectKeepsAct ==
  /\ Looping("CONNECT")
  /\ IF config.auth
     THEN /\ Send("connect") /\ work' = "WAIT_CONNECT"
          /\ UNCHANGED <<tcp_fd, open, config, udp>>
     ELSE /\ CloseThen("WAIT_CONNECT")
          /\ UNCHANGED <<work, config>>
  /\ UNCHANGED <<tcpFlag, ping, tries, port, tcp, upsets>>

\* Without a stored auth key the activation is given up, and the work becomes WAIT_CONNECT all the same.
XlinkTcpWorkConnect ==
  /\ Looping("CONNECT")
  /\ IF config.auth
     THEN /\ Send("connect") /\ work' = "WAIT_CONNECT"
          /\ UNCHANGED <<tcp_fd, open, config, udp>>
     ELSE /\ config' = [config EXCEPT !.act = FALSE]
          /\ CloseThen("WAIT_CONNECT")
          /\ UNCHANGED work
  /\ UNCHANGED <<tcpFlag, ping, tries, port, tcp, upsets>>

\* 20 seconds without a message that counts, or an unanswered ping with one more to spare.
XlinkTcpWorkPing ==
  /\ Looping("PING") \/ (Looping("WAIT_PING") /\ ping <= MaxPing)
  /\ Send("ping") /\ ping' = ping + 1 /\ work' = "WAIT_PING"
  /\ UNCHANGED <<tcp_fd, open, tcpFlag, config, tries, port, tcp, udp, upsets>>

PingTimeout ==
  /\ Looping("WAIT_PING") /\ ping > MaxPing
  /\ TimerOut
  /\ CloseThen("none")
  /\ UNCHANGED <<work, tcpFlag, ping, config, tries, port, tcp>>

\* event_tcp_recv_data: the descriptor is readable.
Readable == udp.pc = "loop" /\ tcp_fd # 0 /\ line.ans # "none"
Framed == ~(tcpFlag.is80Port /\ ~tcpFlag.is80Success)
Took == line' = [line EXCEPT !.ans = "none"]

\* The end of the stream, a type or length that is not known, a body that breaks off; a login refused.
RecvClose ==
  /\ Readable
  /\ \/ line.ans = "eof"
     \/ Framed /\ line.ans \in {"junk", "connectFail", "http"}
  /\ CloseThen("none")
  /\ UNCHANGED <<work, tcpFlag, ping, config, tries, port, tcp, upsets>>

\* On port 80 whatever comes first is taken for the answer to CONNECT.
tcp_http ==
  /\ Readable /\ ~Framed /\ line.ans # "eof"
  /\ work' = "ACTIVATION" /\ ping' = 0
  /\ tcpFlag' = [tcpFlag EXCEPT !.isLogined = FALSE, !.is80Success = TRUE]
  /\ Took
  /\ UNCHANGED <<tcp_fd, open, config, tries, port, tcp, udp, upsets>>

\* The answer to an activation; after a refusal the client waits for its own timeout.
xlink_process_tcp_active ==
  /\ Readable /\ Framed /\ line.ans \in {"active", "activeEmpty", "activeFail"}
  /\ IF line.ans = "activeFail"
     THEN UNCHANGED <<config, work>>
     ELSE /\ config' = [config EXCEPT !.act = TRUE, !.auth = (line.ans = "active")]
          /\ work' = "CONNECT"
  /\ ping' = 0 /\ Took
  /\ UNCHANGED <<tcp_fd, open, tcpFlag, tries, port, tcp, udp, upsets>>

\* Mutant: a redirect is taken for a login.
ConnectAnyCode ==
  /\ Readable /\ Framed /\ line.ans \in {"connectOk", "good", "bad"}
  /\ tcpFlag' = [tcpFlag EXCEPT !.isLogined = TRUE]
  /\ work' = "PING" /\ ping' = 0 /\ Took
  /\ UNCHANGED <<tcp_fd, open, config, tries, port, tcp, udp, upsets>>

\* Login, or code 12: the address to use from now on is saved and the connection closed.
xlink_process_tcp_connect ==
  /\ Readable /\ Framed
  /\ \/ /\ line.ans = "connectOk"
        /\ tcpFlag' = [tcpFlag EXCEPT !.isLogined = TRUE]
        /\ work' = "PING" /\ ping' = 0 /\ Took
        /\ UNCHANGED <<tcp_fd, open, config, tries, udp>>
     \/ /\ line.ans \in {"good", "bad"}
        /\ tries' = 0
        /\ config' = [config EXCEPT !.domain = line.ans]
        /\ CloseThen("none")
        /\ UNCHANGED <<work, tcpFlag, ping>>
  /\ UNCHANGED <<port, tcp, upsets>>

xlink_process_tcp_data ==
  /\ Readable /\ Framed /\ line.ans = "pong"
  /\ work' = "PING" /\ ping' = 0 /\ Took
  /\ UNCHANGED <<tcp_fd, open, tcpFlag, config, tries, port, tcp, udp, upsets>>

\* Data for the apps or of them, on whatever connection is open.
AppData == line' = [line EXCEPT !.stray = @ \/ ~line.ok]

\* The pushes check_typeOk_t knows count as a sign of life.  A command of an app is acknowledged before
\* GAPStartProtocol sees it (module GAProtocol).
xlink_process_tcp_pipe ==
  /\ Readable /\ Framed /\ line.ans = "pipe"
  /\ ping' = 0
  /\ line' = [line EXCEPT !.ans = "none", !.stray = @ \/ ~line.ok]
  /\ UNCHANGED <<tcp_fd, open, work, tcpFlag, config, tries, port, tcp, udp, upsets>>

\* The other pushes do not, and nobody wants them: OnTcpPipe2 is NULL.
xlink_process_tcp_pipe2 ==
  /\ Readable /\ Framed /\ line.ans = "pipe2"
  /\ Took
  /\ UNCHANGED <<tcp_fd, open, work, tcpFlag, ping, config, tries, port, tcp, udp, upsets>>

\* The answer of a command, and a notification for all apps: nothing unless isLogined is set.
XlinkSendTcpPipe ==
  /\ udp.pc = "loop" /\ tcpFlag.isLogined /\ tcp_fd # 0
  /\ AppData
  /\ UNCHANGED <<tcp_fd, open, work, tcpFlag, ping, config, tries, port, tcp, udp, upsets>>

XlinkSendTcpBroadcast ==
  /\ udp.pc = "loop" /\ tcpFlag.isLogined /\ tcp_fd # 0
  /\ AppData
  /\ UNCHANGED <<tcp_fd, open, work, tcpFlag, ping, config, tries, port, tcp, udp, upsets>>

\* A factory reset asked for by another thread: the activation is forgotten, the connection closed.
XlinkReSetSDK ==
  /\ Upset
  /\ udp.pc = "loop" /\ config.act
  /\ config' = [config EXCEPT !.act = FALSE]
  /\ CloseThen("none")
  /\ UNCHANGED <<work, tcpFlag, ping, tries, port, tcp>>

-----------------------------------------------------------------------------
(* The server *)

\* What a request may be answered with; outside the tunnel of port 80 only "http" is understood.
Reply(r) ==
  IF line.tunnel = (r = "http")
  THEN {"junk"}
  ELSE CASE r = "http" -> {"http"}
         [] r = "activate" -> {"active", "activeEmpty", "activeFail"}
         [] r = "connect" -> {"connectOk", "connectFail"} \cup Redirects
         [] r = "ping" -> {"pong"}

Answer(a) ==
  /\ line.req # "none" /\ line.ans = "none"
  /\ a \in Reply(line.req)
  /\ (a \in {"http", "active", "connectOk", "pong", "junk"} /\ UNCHANGED upsets) \/ Upset
  /\ line' = [line EXCEPT !.req = "none", !.ans = a, !.tunnel = @ \/ a = "http", !.ok = @ \/ a = "connectOk"]
  /\ UNCHANGED <<tcp_fd, open, work, tcpFlag, ping, config, tries, port, tcp, udp>>

\* A request the server never sees, or never answers.
Silence ==
  /\ line.req # "none" /\ Upset
  /\ line' = [line EXCEPT !.req = "none"]
  /\ UNCHANGED <<tcp_fd, open, work, tcpFlag, ping, config, tries, port, tcp, udp>>

Push ==
  /\ line.ok /\ line.ans = "none"
  /\ \E a \in {"pipe", "pipe2"} : line' = [line EXCEPT !.ans = a]
  /\ UNCHANGED <<tcp_fd, open, work, tcpFlag, ping, config, tries, port, tcp, udp, upsets>>

\* The server ends a session, or a connection that has been idle for long; or the network breaks it.
Hangup ==
  /\ tcp_fd # 0 /\ line.ans = "none"
  /\ \/ line.ok /\ UNCHANGED upsets
     \/ line.req = "none" /\ tcp.pc = "idle" /\ UNCHANGED upsets
        /\ work \in {"NOT_CONNECT", "WAIT_HTTP", "WAIT_ACTIVE", "WAIT_CONNECT", "PING", "WAIT_PING"}
     \/ Upset
  /\ line' = [line EXCEPT !.req = "none", !.ans = "eof"]
  /\ UNCHANGED <<tcp_fd, open, work, tcpFlag, ping, config, tries, port, tcp, udp>>

-----------------------------------------------------------------------------
TcpThread ==
  \/ xlink_net_loop_Domain_name \/ OpenSocket \/ xlink_tcp_connect_server
  \/ tcp_Connect_server_init \/ XlinkTcpInit
UdpClosing == CloseWork \/ CloseFlag
UdpSend == SendHttpConnect \/ XlinkTcpWorkActivation \/ XlinkTcpWorkConnect \/ XlinkTcpWorkPing
UdpTimeout == WaitTimeout \/ PingTimeout
UdpRecv ==
  \/ RecvClose \/ tcp_http \/ xlink_process_tcp_active \/ xlink_process_tcp_connect \/ xlink_process_tcp_data
  \/ xlink_process_tcp_pipe \/ xlink_process_tcp_pipe2
Server == (\E a \in Answers : Answer(a)) \/ Silence \/ Push \/ Hangup

Next ==
  \/ TcpThread \/ NotDue \/ xlinkGetHostByName \/ ConnectFails
  \/ UdpClosing \/ UdpSend \/ UdpTimeout \/ UdpRecv \/ XlinkReSetSDK
  \/ XlinkSendTcpPipe \/ XlinkSendTcpBroadcast
  \/ Server
  \/ XlinkInit

Spec == Init /\ [][Next]_vars

\* The threads are out of each other's way: no connecting during a closing, and no traffic while
\* XlinkTcpInit is between its load and its store.
Calm ==
  /\ udp.pc # "loop" => tcp.pc = "idle" /\ tcp_fd = 0
  /\ tcp.pc = "init" => line.req = "none" /\ line.ans = "none"

-----------------------------------------------------------------------------
TypeOK ==
  /\ tcp_fd \in Fd \cup {0} /\ open \subseteq Fd
  /\ work \in Works
  /\ tcpFlag \in [{"isLogined", "is80Port", "is80Success", "isFirst"} -> BOOLEAN]
  /\ ping \in 0..MaxPing + 1
  /\ config \in [act : BOOLEAN, auth : BOOLEAN, domain : {"none"} \cup Redirects]
  /\ tries \in 0..MaxDomainTry + 1
  /\ port \in Ports
  /\ tcp.pc \in {"idle", "due", "connecting", "connected", "init"}
  /\ udp.pc \in {"loop", "closed", "clear"} /\ udp.next \in {"none", "WAIT_CONNECT"}
  /\ upsets \in 0..MaxUpsets
  /\ line.req \in Requests \cup {"none"} /\ line.ans \in Answers \cup {"none"}

\* Once the closing of a connection is over, isLogined is set only if the server accepted a login on
\* the connection that is open now: XlinkSendTcpBroadcast and XlinkSendTcpPipe trust that bit, and so
\* send nothing on a connection before its login.
LoginTruthful == (tcpFlag.isLogined /\ udp.pc = "loop" => tcp_fd # 0 /\ line.ok) /\ ~line.stray
=============================================================================
