---------------------------- MODULE MCGAProtocol ----------------------------
(* Two instances of GAProtocol over the same variables: a behaviour is one of    *)
(* the handshakes and deletions (the constants of the configuration), or one of   *)
(* the key commands both threads of XDevice.c give to one device.                 *)
EXTENDS GAProtocol

VARIABLE scenario

Keys == INSTANCE GAProtocol WITH Addr <- {CHOOSE a \in Addr : TRUE}, Key <- {"k1", "k2"}, Chatty <- Device,
          Commands <- {"setack", "getack", "subkey", "info", "control", "list", "lamp", "system"},
          MaxTimeout <- 1, DefaultTimeout <- 1, ConsoleTimeout <- 0, MaxReq <- 2, MaxMoves <- 0, MaxUp <- 0, MaxAnswers <- 0

allVars == <<scenario, vars>>

MCInit == (scenario = "handshake" /\ Init) \/ (scenario = "keys" /\ Keys!Init)
MCNext ==
    \/ scenario = "handshake" /\ Next /\ UNCHANGED scenario
    \/ scenario = "keys" /\ Keys!Next /\ UNCHANGED scenario

Handshake == scenario = "handshake"

\* Time passes, threads keep running, the 20-second timer fires for ever, and a message sent again
\* and again is in the end delivered; losses, moves and commands owe nothing.
MCFairness ==
    /\ WF_vars(Handshake /\ Tick) /\ WF_vars(Handshake /\ CoreStep)
    /\ WF_vars(Handshake /\ TakeNotification) /\ WF_vars(Handshake /\ PeriodicRestart)
    /\ \A w \in Worker : WF_vars(Handshake /\ CommandStep(w))
    /\ \A d \in Device : /\ SF_vars(Handshake /\ XGStartProtocolUdp /\ core'.d = d)
                         /\ SF_vars(Handshake /\ DeviceHears(d))
                         /\ SF_vars(Handshake /\ \E t \in AnswerType : DeviceTakes(d, t))

MCSpec == MCInit /\ [][MCNext]_allVars /\ MCFairness

-----------------------------------------------------------------------------
\* A device that was deleted while it could not be reached, or whose deletion crossed a join
\* or restart answer of the core thread, does not take itself for joined for ever: it learns
\* from the answer to the restart notification sent every 20 seconds (XDevice.c:313).
RemovalLearned ==
    \A d \in Device : (Handshake /\ running /\ db[d] = NoRow /\ dev[d].joined) ~> (db[d] # NoRow \/ ~dev[d].joined)

\* The address commands are sent to catches up with a joined device that has moved, although
\* a join of a known device leaves it alone (xlink_gateway.c:74) and old restart messages may
\* bring an old address back.
AddressFollows ==
    \A d \in Device : []<>(Handshake /\ running /\ db[d] # NoRow /\ dev[d].joined => db[d].addr = dev[d].addr)
=============================================================================
