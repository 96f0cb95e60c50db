------------------------------- MODULE MCXlink -------------------------------
(* The xlink SDK: a behaviour is one of the cloud connection (XlinkTcp, with     *)
(* the constants of the configuration), or one of the phone sessions (XlinkUdp)   *)
(* with two apps that compete for one slot, or with one app and two slots.        *)
EXTENDS XlinkTcp, XlinkUdp

VARIABLE scenario

OnePhone == INSTANCE XlinkUdp WITH App <- {"a"}, XLINK_CLIENT_SIZE <- 2, Check <- {7}, Keys <- {1, 9},
            Cmds <- {"pipe", "set", "scan", "subkey", "ping", "probe", "debug", "alien"}, MaxResend <- 1,
            MaxPipe <- 1, MaxPipes <- 1, MaxPush <- 0, MaxHello <- 2, MaxNet <- 1

tcpVars == vars
allVars == <<scenario, tcpVars, udpVars>>

MCInit ==
  \/ scenario = "cloud" /\ Init /\ UdpInit
  \/ scenario = "phones" /\ Init /\ UdpInit
  \/ scenario = "phone" /\ Init /\ OnePhone!UdpInit

MCNext ==
  \/ scenario = "cloud" /\ Next /\ UNCHANGED <<scenario, udpVars>>
  \/ scenario = "phones" /\ UdpNext /\ UNCHANGED <<scenario, tcpVars>>
  \/ scenario = "phone" /\ OnePhone!UdpNext /\ UNCHANGED <<scenario, tcpVars>>

Cloud == scenario = "cloud"

\* Both threads keep running, timers run out, a request that is not lost is answered, a connection
\* falls due in the end and none lasts for ever.  The threads collide finitely often: the windows are
\* a few instructions wide, and the connecting thread sleeps 5 s between two loops.  Turns 300 ms
\* after the last resends happen again and again.
MCFairness ==
  /\ WF_vars(Cloud /\ (TcpThread \/ NotDue \/ xlinkGetHostByName \/ ConnectFails)) /\ SF_vars(Cloud /\ OpenSocket)
  /\ WF_vars(Cloud /\ UdpClosing) /\ WF_vars(Cloud /\ (UdpSend \/ UdpRecv)) /\ WF_vars(Cloud /\ UdpTimeout)
  /\ WF_vars(Cloud /\ \E a \in Answers : Answer(a)) /\ SF_vars(Cloud /\ Hangup)
  /\ <>[](Cloud => Calm)
  /\ []<>(Cloud \/ turn = 0) /\ []<>(Cloud \/ turn = 1)

MCSpec == MCInit /\ [][MCNext]_allVars /\ MCFairness

-----------------------------------------------------------------------------
\* Every queued message leaves the send buffer.
BufferDrains == []<>(Cloud \/ d.list = <<>>)

\* The gateway's connection recovers: it is logged in again and again, whatever answers were lost,
\* refused or redirected and however the two threads interleaved.
CloudReconnects == []<>(Cloud => tcpFlag.isLogined /\ tcp_fd # 0)
=============================================================================
