------------------------------- MODULE MCNet4g -------------------------------
(* The daemon with five repertoires of the server, each with bounds of its own, and, as a sixth   *)
(* scenario, the path a position takes from the modem to a report.                                *)
EXTENDS Net4g, Agps

VARIABLE scenario

\* Two sentences with a position, two without and one of another kind; every second one is used.
MCCycle ==
  <<[name |-> "RMC", flag |-> "A"], [name |-> "GSV", flag |-> "A"], [name |-> "RMC", flag |-> "A"],
    [name |-> "RMC", flag |-> "V"], [name |-> "GGA", flag |-> "A"]>>
MCBucket == [latitude |-> 1, longitude |-> 1, signal |-> 1]

\* Per scenario: the commands and how they may be formed, how many of them, of connections and of
\* upsets; calm: a server that is there, accepts every login in time and gives
\* commands only after it.
Bounds ==
  [link |-> [cmds |-> {"reboot", "setplatform", "checktime"}, shapes |-> Shapes,
             n |-> 1, conns |-> 2, upsets |-> 1, calm |-> FALSE],
   each |-> [cmds |-> {"reset", "readtiming", "readlog", "setdialparameters", "getdialparameters", "gpiotype", "gpiotiming", "invalid"}, shapes |-> Shapes,
             n |-> 1, conns |-> 1, upsets |-> 0, calm |-> TRUE],
   pair |-> [cmds |-> {"getplatform", "runcmd", "ota"}, shapes |-> Shapes,
             n |-> 2, conns |-> 1, upsets |-> 0, calm |-> TRUE],
   uart |-> [cmds |-> {"set232parameters", "tc232"}, shapes |-> Shapes,
             n |-> 1, conns |-> 1, upsets |-> 1, calm |-> TRUE],
   gpio |-> [cmds |-> {"gpiotiming", "gpiotype"}, shapes |-> {"good"},
             n |-> 2, conns |-> 1, upsets |-> 1, calm |-> TRUE]]

MCInit == Init /\ AgInit /\ scenario \in DOMAIN Bounds \cup {"agps"} /\ (scenario # "gpio" => ~inwin)

Daemon ==
  /\ scenario # "agps" /\ Next /\ UNCHANGED <<scenario, agVars>>
  /\ LET b == Bounds[scenario] IN
     /\ Len(given') <= b.n /\ \A i \in 1..Len(given') : given'[i] \in b.cmds
     /\ conns' <= b.conns /\ upsets' <= b.upsets
     /\ b.calm => (~m'.disc => net'.up) /\ (net'.owed < net.owed => net'.acc \/ m'.disc)
                  /\ (m.pc = "answer" => m'.pc \in {"answer", "wait"} \/ m'.disc)
                  /\ (m.pc = "connect" /\ conns < b.conns => m'.pc # "top" \/ upsets' # upsets)
     /\ scenario # "gpio" => inwin' = inwin
     /\ given' # given => /\ b.calm => net.acc
                          /\ net'.down[Len(net'.down)].shape \in b.shapes

MCNext == Daemon \/ (scenario = "agps" /\ AgNext /\ UNCHANGED <<vars, scenario>>)

\* The threads keep running, time passes in select, and the serial port can be opened again and again.
Running == scenario # "agps" /\ m.pc # "exit"

MCSpec == MCInit /\ [][MCNext]_<<vars, scenario, agVars>>
          /\ WF_vars(Running /\ Main) /\ WF_vars(scenario # "agps" /\ Answer) /\ WF_vars(Running /\ Gpio) /\ WF_vars(Running /\ Tty)
          /\ SF_vars(Running /\ init_com_dev /\ tty'.fd = 1)
          /\ SF_vars(scenario # "agps" /\ m.pc = "wait" /\ Wait /\ m'.idle # m.idle)
=============================================================================
