------------------------------- MODULE MCBoards -------------------------------
(* The daemons of four boards; a behaviour is one of a single board: the serial    *)
(* to TCP bridge (TcpTty, with all commands, or with one in the fair scenario), the *)
(* bed sensor (Bed, for its panel, and once more for its files), and the two vending *)
(* machine boards (Pos, with the constants of Vend, and VtsPos).  The variables of  *)
(* the other boards stay as they are.                                                *)
EXTENDS Integers, Vend, TcpTty, Bed

VARIABLES scenario, d, v, p, m, rx

Bridge == INSTANCE TcpTty WITH Task <- {"A"}, Commands <- {"DO"}
NightOf(s1, s2) == [start |-> 1, end |-> 9, score |-> 80, s1 |-> s1, s2 |-> s2, deep |-> 300, light |-> 70000,
                   heart_beat |-> [num |-> <<61, 300>>, time |-> <<22, 0>>], breath |-> [num |-> <<14>>, time |-> <<0>>],
                 move |-> [num |-> <<>>, time |-> <<>>]]
BedI == INSTANCE Bed WITH MaxNum <- 2, MaxTok <- 5, Hours <- {}, Nights <- {NightOf(<<-1>>, <<-1>>)}
PanelNights == {NightOf(<<11, 12>>, <<13>>), NightOf(<<11>>, <<-1>>), NightOf(<<-1>>, <<-1>>)}
PosI == INSTANCE Pos WITH MaxFd <- 2
VtsI == INSTANCE VtsPos WITH MaxSeq <- 2, TtCount <- 3, MaxRepeat <- 2, Refusals <- {"nocard", "err"}, Cmds <- {"PD", "SL"}

posVars == <<fj, term, sale, d>>
vtsVars == <<fj, term, sale, v, p, m, rx>>
allVars == <<scenario, ttyVars, bedVars, posVars, vtsVars>>

Off(x) == x = 0
VtsOff == Off(v) /\ Off(p) /\ Off(m) /\ Off(rx)

MCInit ==
  /\ Init /\ BedInit
  /\ \/ scenario \in {"tty", "bridge", "bed", "panel"} /\ VendInit /\ Off(d) /\ VtsOff
     \/ scenario = "pos" /\ PosI!PosInit /\ VtsOff
     \/ scenario = "vts" /\ VtsI!VtsInit /\ Off(d)

MCNext ==
  /\ UNCHANGED scenario
  /\ \/ scenario = "tty" /\ Next /\ UNCHANGED <<bedVars, posVars, vtsVars>>
     \/ scenario = "bridge" /\ Bridge!Next /\ UNCHANGED <<bedVars, posVars, vtsVars>>
     \/ scenario = "bed" /\ BedI!BedNext /\ UNCHANGED <<ttyVars, posVars, vtsVars>>
     \/ scenario = "panel" /\ BedNext /\ UNCHANGED <<ttyVars, posVars, vtsVars>>
     \/ scenario = "pos" /\ PosI!PosNext /\ UNCHANGED <<ttyVars, bedVars, v, p, m, rx>>
     \/ scenario = "vts" /\ VtsI!VtsNext /\ UNCHANGED <<ttyVars, bedVars, d>>

\* The bridge's two threads keep running and the faults end; then the server answers, and so does the
\* device in the end, whatever else arrives first.
BridgeFair ==
  LET On == scenario = "bridge" IN
  /\ WF_ttyVars(On /\ Bridge!Settle) /\ WF_ttyVars(On /\ Bridge!Uart)
  /\ WF_ttyVars(On /\ (Bridge!init_connect \/ Bridge!CloseAgain \/ Bridge!Stat \/ Bridge!leom_handle_sock_cmd \/ Bridge!pt_cond_wait))
  /\ WF_ttyVars(On /\ s.pc = "recv" /\ (Bridge!RecvError \/ Bridge!LoginBack \/ Bridge!HeartBack))
  /\ SF_ttyVars(On /\ (Bridge!LoginBack \/ Bridge!HeartBack \/ Bridge!RecvTimeout))
  /\ SF_ttyVars(On /\ Bridge!Package("answer")) /\ SF_ttyVars(On /\ Bridge!init_connect)

\* The sensor is silent for a second now and then; the two tasks of the uC/OS board keep running.
MCSpec ==
  /\ MCInit /\ [][MCNext]_allVars
  /\ BridgeFair
  /\ WF_bedVars(scenario = "bed" /\ BedI!SensorSilent) /\ WF_bedVars(scenario = "panel" /\ SensorSilent)
  /\ WF_vtsVars(scenario = "vts" /\ VtsI!Vts) /\ WF_vtsVars(scenario = "vts" /\ VtsI!PosTask)

-----------------------------------------------------------------------------
\* When the faults are over the bridge comes up and stays up (handle_uart, handle_socket_machine).
BridgeStaysUp == <>[](scenario = "bridge" => Bridge!BothEnds)

\* The wait for the terminal's result ends (vts_recv_task).
WaitEnds == (scenario = "vts" /\ m.flag) ~> (scenario = "vts" => ~m.flag)
=============================================================================
