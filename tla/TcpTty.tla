-------------------------------- MODULE TcpTty --------------------------------
(* The serial to TCP bridge (tcptty/src).  handle_uart reads packages of the      *)
(* device and reports them on the server's connection; handle_socket_machine      *)
(* keeps that connection and carries the server's commands to the device.  They    *)
(* share glb_tty, glb_sock and the process's descriptors; loop_socket_handle and   *)
(* its caller both close the connection.  The kernel's descriptor table, the       *)
(* device, the server and the network are external.                                *)
EXTENDS Naturals, FiniteSetsExt

CONSTANTS Task,            \* the task ids the server works for
          Commands,        \* TAKEUP, RELEASE, RESET, SETPARS, and DO for start, stop or delete parameters: one package each
          Fd,              \* the descriptor numbers, 1..n
          HeartExit,       \* HEART_EXIT_COUNT, 5
          MaxLeak          \* bound: descriptors lost by setport

\* 0 stands for no descriptor.
ASSUME FdAssumption == Fd \subseteq Nat \ {0}

VARIABLES fdt,   \* the descriptor table: [Fd -> Object]
          u,     \* handle_uart: [pc, fd, sock, asked]; sock is the copy of glb_sock made at the top of the loop
          s,     \* handle_socket_machine: [pc, fd, stat, login, outinx, cmds, tries, tty]; cmds: packages to write
          g,     \* glb_cfg: [tty, sock], 0 where the code has -1 or its first 0
          dev,   \* what is known of the device: [id, name, ver, named]; named: deviceid and devicename are filled
          work,  \* dev_work_status, taskid and, for the properties, the task that holds the device
          owed,  \* the answers of the server that are due
          calm,  \* no more faults
          seen   \* for the properties: [crossed, intruded]

ttyVars == <<fdt, u, s, g, dev, work, owed, calm, seen>>

Free == "free"
Objects == {Free, "tty", "sock", "lost"}
NoTask == "none"
Lowest == Min({n \in Fd : fdt[n] = Free})
Full == \A n \in Fd : fdt[n] # Free
Close(n) == [fdt EXCEPT ![n] = Free]

\* What lands on the wrong object when it is written to descriptor n.
Crossed(n, want) == n \in Fd /\ fdt[n] \notin {want, Free, "lost"}

Idle == [pc |-> "wait", fd |-> 0, stat |-> "IDLE", login |-> FALSE, outinx |-> 0, cmds |-> 0, tries |-> 0, tty |-> 0]

Opening == [pc |-> "open", fd |-> 0, sock |-> 0, asked |-> "none"]
Unknown == [id |-> FALSE, name |-> FALSE, ver |-> FALSE, named |-> {}]
NoWork == [status |-> "INIT", taskid |-> "zeros", holder |-> NoTask]

Init ==
  /\ fdt = [n \in Fd |-> Free] /\ u = Opening /\ s = Idle /\ g = [tty |-> 0, sock |-> 0]
  /\ dev = Unknown /\ work = NoWork /\ owed = {} /\ calm = FALSE
  /\ seen = [crossed |-> FALSE, intruded |-> FALSE]

-----------------------------------------------------------------------------
(* The serial port *)

\* setport: input waiting is flushed; when the settings are refused the descriptor stays open, and lost.
setport(n) ==
  \/ /\ fdt' = [fdt EXCEPT ![n] = "tty"]
     /\ u' = [u EXCEPT !.pc = "top", !.fd = n] /\ g' = [g EXCEPT !.tty = n]
  \/ /\ ~calm /\ Cardinality({k \in Fd : fdt[k] = "lost"}) < MaxLeak
     /\ fdt' = [fdt EXCEPT ![n] = "lost"]
     /\ g' = [g EXCEPT !.tty = 0] /\ UNCHANGED u

init_com_dev ==
  /\ u.pc = "open"
  /\ \/ ~Full /\ setport(Lowest)
     \/ (Full \/ ~calm) /\ g' = [g EXCEPT !.tty = 0] /\ UNCHANGED <<fdt, u>>
  /\ UNCHANGED <<s, dev, work, owed, calm, seen>>

\* What the loop asks the device for first.
self_dev_send_cmd == CASE ~dev.id -> "id" [] dev.id /\ ~dev.name -> "name" [] dev.id /\ dev.name /\ ~dev.ver -> "ver" [] OTHER -> "none"

UartTop ==
  /\ u.pc = "top"
  /\ u' = [u EXCEPT !.pc = "read", !.sock = g.sock, !.asked = IF fdt[u.fd] = "tty" THEN self_dev_send_cmd ELSE "none"]
  /\ seen' = [seen EXCEPT !.crossed = @ \/ (self_dev_send_cmd # "none" /\ Crossed(u.fd, "tty"))]
  /\ UNCHANGED <<fdt, s, g, dev, work, owed, calm>>

\* Nothing, a package that stops half way, noise or a bad length: what was read is forgotten.
NoPackage ==
  /\ u.pc = "read" /\ fdt[u.fd] = "tty"
  /\ u' = [u EXCEPT !.pc = "top"]
  /\ UNCHANGED <<fdt, s, g, dev, work, owed, calm, seen>>

\* tt_read fails: the line does, or the descriptor is not open any more.  The caller closes its number.
ComError ==
  /\ u.pc = "read" /\ (fdt[u.fd] # "tty" \/ ~calm)
  /\ fdt' = Close(u.fd) /\ g' = [g EXCEPT !.tty = 0]
  /\ u' = [u EXCEPT !.pc = "open", !.fd = 0, !.sock = 0, !.asked = "none"]
  /\ UNCHANGED <<s, dev, work, owed, calm, seen>>

\* The answers of the device to the three questions; a refusal forgets the old answer.
Learn(what, ok) ==
  [dev EXCEPT ![what] = ok, !.named = IF ok /\ what # "ver" THEN @ \cup {what} ELSE @]

\* send_taskret_info, send_taskperc_info and send_taskerr_info.
send_task_info(k) == k = "report" /\ Crossed(u.sock, "sock")

\* get_one_package: a whole package wakes the other thread, whatever it says, and is handled: an answer
\* to a question or a command, or a report, which goes out on the connection noted at the top of the loop.
Package(k) ==
  /\ u.pc = "read" /\ fdt[u.fd] = "tty"
  /\ \/ k = "answer" /\ u.asked # "none" /\ \E ok \in BOOLEAN : (~ok => ~calm) /\ dev' = Learn(u.asked, ok)
     \/ k \in {"done", "report"} /\ UNCHANGED dev
  /\ seen' = [seen EXCEPT !.crossed = @ \/ send_task_info(k)]
  /\ s' = IF s.pc = "answer" THEN [s EXCEPT !.pc = "cmd", !.tries = 0, !.cmds = @ - 1] ELSE s
  /\ u' = [u EXCEPT !.pc = "top", !.asked = "none"]
  /\ UNCHANGED <<fdt, g, work, owed, calm>>

Uart == init_com_dev \/ UartTop \/ NoPackage \/ ComError \/ \E k \in {"answer", "done", "report"} : Package(k)

-----------------------------------------------------------------------------
(* The connection to the server *)

\* is_wifi_connected and check_valid_id_name hold, and the nonblocking connect is done within 10 s.  The
\* caller has slept 5 s: ten read timeouts of the other thread, which has met a closed descriptor by then.
\* Mutant: the sleep is gone.
NoSleep == s.pc = "wait"

Slept == s.pc = "wait" /\ (u.pc # "open" => fdt[u.fd] = "tty" /\ (u.pc = "read" => u.sock \in {0, g.sock}))

init_connect ==
  /\ Slept /\ dev.named = {"id", "name"}
  /\ \/ /\ ~Full
        /\ fdt' = [fdt EXCEPT ![Lowest] = "sock"]
        /\ s' = [Idle EXCEPT !.pc = "stat", !.fd = Lowest]
     \/ (Full \/ ~calm) /\ UNCHANGED <<fdt, s>>
  /\ UNCHANGED <<u, g, dev, work, owed, calm, seen>>

\* The way out of loop_socket_handle: it closes the connection ...
ExitErr ==
  /\ fdt' = Close(s.fd) /\ g' = [g EXCEPT !.sock = 0] /\ owed' = {}
  /\ s' = [s EXCEPT !.pc = "closed"]
  /\ UNCHANGED <<u, dev, work, calm>>

\* ... and its caller closes the same number once more.
CloseAgain ==
  /\ s.pc = "closed"
  /\ fdt' = Close(s.fd) /\ s' = Idle
  /\ UNCHANGED <<u, g, dev, work, owed, calm, seen>>

SendOn == seen' = [seen EXCEPT !.crossed = @ \/ Crossed(s.fd, "sock")]

Go(stat) == s' = [s EXCEPT !.pc = "recv", !.stat = stat]

\* The state machine: what the state sends.  The state of the login stays until it is answered.
Stat ==
  /\ s.pc = "stat"
  /\ \/ s.stat = "IDLE" /\ Go("IDLE") /\ UNCHANGED <<fdt, g, owed, seen>>
     \/ s.stat = "TO_LOGIN" /\ Go("TO_LOGIN") /\ owed' = owed \cup {"login"} /\ SendOn /\ UNCHANGED <<fdt, g>>
     \/ s.stat = "TO_DEVSTATUS" /\ Go("TO_DEVSTATUS") /\ g' = [g EXCEPT !.sock = s.fd] /\ UNCHANGED <<fdt, owed, seen>>
     \/ s.stat \in {"TO_WORKSTATUS", "TO_RESPSTATUS", "TO_RESP"} /\ Go("IDLE") /\ SendOn /\ UNCHANGED <<fdt, g, owed>>
     \/ /\ s.stat = "TO_HEART" /\ SendOn
        /\ IF s.outinx > HeartExit
             THEN ExitErr
             ELSE /\ s' = [s EXCEPT !.pc = "recv", !.stat = "IDLE", !.outinx = @ + 1]
                  /\ owed' = owed \cup {"heart"} /\ UNCHANGED <<fdt, g>>
  /\ UNCHANGED <<u, dev, work, calm>>

\* Nothing within tt_ms (8 s), which is a fault of the server when an answer is due.
RecvTimeout ==
  /\ s.pc = "recv" /\ fdt[s.fd] = "sock" /\ (calm => owed = {})
  /\ s' = [s EXCEPT !.pc = "stat", !.stat = IF s.login THEN "TO_HEART" ELSE "TO_LOGIN"]
  /\ UNCHANGED <<fdt, u, g, dev, work, owed, calm, seen>>

\* The connection fails, or a payload is not there yet when its header is: the code does not wait for it.
RecvError == s.pc = "recv" /\ (~calm \/ fdt[s.fd] # "sock") /\ ExitErr /\ UNCHANGED seen

\* Less than a header, or a payload cut off, or a command that is not known: the state is gone through again.
RecvBad ==
  /\ s.pc = "recv" /\ fdt[s.fd] = "sock" /\ ~calm
  /\ s' = [s EXCEPT !.pc = "stat"]
  /\ UNCHANGED <<fdt, u, g, dev, work, owed, calm, seen>>

\* Mutant: every login starts afresh.
OnlineAgain == work' = [work EXCEPT !.status = "ONLINE"]

Online == work' = [work EXCEPT !.status = IF @ = "TAKEUP" THEN @ ELSE "ONLINE"]

LoginBack ==
  /\ s.pc = "recv" /\ "login" \in owed
  /\ s' = [s EXCEPT !.pc = "stat", !.login = TRUE, !.stat = "TO_DEVSTATUS"]
  /\ Online /\ owed' = owed \ {"login"}
  /\ UNCHANGED <<fdt, u, g, dev, calm, seen>>

\* Mutant: the count of hearts is one of the whole connection.
HeartsAddUp ==
  /\ s.pc = "recv" /\ "heart" \in owed
  /\ s' = [s EXCEPT !.pc = "stat"] /\ owed' = owed \ {"heart"}
  /\ UNCHANGED <<fdt, u, g, dev, work, calm, seen>>

HeartBack ==
  /\ s.pc = "recv" /\ "heart" \in owed
  /\ s' = [s EXCEPT !.pc = "stat", !.outinx = 0] /\ owed' = owed \ {"heart"}
  /\ UNCHANGED <<fdt, u, g, dev, work, calm, seen>>

\* get dev, and the test command that is sent back.
Ask ==
  /\ s.pc = "recv" /\ fdt[s.fd] = "sock"
  /\ \E st \in {"TO_RESPSTATUS", "TO_RESP"} : s' = [s EXCEPT !.pc = "stat", !.stat = st]
  /\ UNCHANGED <<fdt, u, g, dev, work, owed, calm, seen>>

\* A command for task t: taken when the device is not taken up, or by t.  Take up and release end here;
\* the others are written to the device, reset as a stop and a clear.  holder is for the properties.
Holder(c, t) == CASE c = "TAKEUP" -> t [] c \in {"RELEASE", "RESET"} /\ work.holder = t -> NoTask [] OTHER -> work.holder

\* How many packages a command becomes: parameters that are too long for one are dropped.
Packages(c) == CASE c \in {"TAKEUP", "RELEASE"} -> {0} [] c = "RESET" -> {2} [] c = "SETPARS" -> {0, 1} [] OTHER -> {1}

Command(c, t, n) ==
  /\ s.pc = "recv" /\ fdt[s.fd] = "sock"
  /\ IF t # work.taskid /\ work.status = "TAKEUP"
       THEN s' = [s EXCEPT !.pc = "stat", !.stat = "TO_WORKSTATUS"] /\ UNCHANGED <<work, seen>>
       ELSE /\ work' = [status |-> CASE c = "TAKEUP" -> "TAKEUP" [] c \in {"RELEASE", "RESET"} -> "ONLINE" [] OTHER -> work.status,
                        taskid |-> CASE c = "TAKEUP" -> t [] c = "RELEASE" -> "nul" [] OTHER -> work.taskid,
                        holder |-> Holder(c, t)]
            /\ seen' = [seen EXCEPT !.intruded = @ \/ work.holder \notin {NoTask, t}]
            /\ s' = [s EXCEPT !.pc = IF c \in {"TAKEUP", "RELEASE"} THEN "stat" ELSE "cmd", !.tty = 0, !.tries = 0,
                              !.cmds = n,
                              !.stat = IF c \in {"TAKEUP", "RELEASE", "RESET"} THEN "TO_WORKSTATUS" ELSE @]
  /\ UNCHANGED <<fdt, u, g, dev, owed, calm>>

\* leom_handle_sock_cmd: the descriptor is noted at the start and written to three times at most, each time
\* with a wait of 500 ms for any package of the device.  A signal given before the wait starts is lost.
leom_handle_sock_cmd ==
  /\ s.pc = "cmd"
  /\ LET tty == IF s.tries = 0 THEN g.tty ELSE s.tty
         done == [s EXCEPT !.tries = 0, !.cmds = @ - 1, !.tty = 0]
     IN IF s.cmds = 0 THEN s' = [s EXCEPT !.pc = "stat"] /\ UNCHANGED seen
        ELSE IF tty = 0 \/ s.tries >= 3 THEN s' = done /\ UNCHANGED seen
        ELSE /\ seen' = [seen EXCEPT !.crossed = @ \/ Crossed(tty, "tty")]
             /\ s' = IF fdt[tty] = Free THEN done ELSE [s EXCEPT !.pc = "answer", !.tty = tty, !.tries = @ + 1]
  /\ UNCHANGED <<fdt, u, g, dev, work, owed, calm>>

\* pt_cond_wait gives up after 500 ms.
pt_cond_wait ==
  /\ s.pc = "answer" /\ s' = [s EXCEPT !.pc = "cmd"]
  /\ UNCHANGED <<fdt, u, g, dev, work, owed, calm, seen>>

Socket ==
  \/ init_connect \/ CloseAgain \/ Stat \/ RecvTimeout \/ RecvError \/ RecvBad \/ LoginBack \/ HeartBack \/ Ask
  \/ \E c \in Commands, t \in Task : \E n \in Packages(c) : Command(c, t, n)
  \/ leom_handle_sock_cmd \/ pt_cond_wait

\* From now on the network, the line and the server behave.
Settle == ~calm /\ calm' = TRUE /\ UNCHANGED <<fdt, u, s, g, dev, work, owed, seen>>

\* SIGINT, SIGTERM and SIGQUIT (init_signals; SIGPIPE is ignored) end the process, which tcptty.init starts again:
\* nothing is kept, so a task that held the device has to take it up anew.
termination_handler ==
  /\ ~calm
  /\ fdt' = [n \in Fd |-> Free] /\ u' = Opening /\ s' = Idle /\ g' = [tty |-> 0, sock |-> 0]
  /\ dev' = Unknown /\ work' = NoWork /\ owed' = {}
  /\ UNCHANGED <<calm, seen>>

Next == Uart \/ Socket \/ Settle \/ termination_handler

Spec == Init /\ [][Next]_ttyVars

-----------------------------------------------------------------------------
\* A task that took the device up keeps it until it gives it up itself: no command of another task is
\* carried out meanwhile, over lost connections and new logins too.
HolderOnly == ~seen.intruded

\* What is meant for the device never lands on the server's connection, nor a report on the serial port,
\* although the connection is closed twice and numbers are used again.
NoCrossTalk == ~seen.crossed

\* Both ends are there and each thread knows the other's.
BothEnds ==
  /\ u.pc # "open" /\ fdt[u.fd] = "tty" /\ g.tty = u.fd
  /\ s.pc \notin {"wait", "closed"} /\ fdt[s.fd] = "sock" /\ s.login /\ g.sock = s.fd
=============================================================================
