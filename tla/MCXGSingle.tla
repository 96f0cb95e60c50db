----------------------------- MODULE MCXGSingle -----------------------------
(* XGCore without cloud sockets, two devices on two connections (the constants   *)
(* of the configuration), and with them, one device on one connection.            *)
EXTENDS XGCore

CONSTANTS Other,      \* the connection record and the device that the second scenario leaves alone
          OtherDevice

VARIABLE scenario

Live == INSTANCE XGCore WITH MaxFd <- 4, Transient <- {}, MaxTasks <- 2,
          ClientFrames <- {"CONNECT", "PING", "OTHER"}, ServerFrames <- {"CONNECT", "OTHER", "IGNORED"}

allVars == <<scenario, vars>>

MCInit ==
  \/ scenario = "login" /\ Init
  \/ scenario = "live" /\ Live!Init

LiveNext == Live!Next /\ conn'[Other] = conn[Other] /\ OtherDevice \notin {peer'[c] : c \in Conn} \cup {conn'[c].id : c \in Conn}

MCNext ==
  /\ \/ scenario = "login" /\ Next
     \/ scenario = "live" /\ LiveNext
  /\ UNCHANGED scenario

\* The fairness of FairSpec, where there are cloud sockets.
MCSpec ==
  /\ MCInit /\ [][MCNext]_allVars
  /\ WF_vars(scenario = "live" /\ Live!CoreThread /\ LiveNext)
  /\ WF_vars(scenario = "live" /\ Live!ConnectThread /\ LiveNext)
  /\ SF_vars(scenario = "live" /\ Live!TakeResults /\ batch' # <<>> /\ LiveNext)
=============================================================================
