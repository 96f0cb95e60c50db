---------------------------- MODULE Net4gProofs ----------------------------
(***************************************************************************)
(* Proofs about the 4G daemon: what /tmp/onoffline says of a connection,   *)
(* that no command is answered twice, and, in the last part, that the      *)
(* position it reports is that of one sentence (Agps).                     *)
(***************************************************************************)
EXTENDS Net4g, Agps, SequenceTheorems, WellFoundedInduction, TLAPS

Messages == [c : Cmds \cup {"respcode"}, of : Cmds \cup {"none"}, shape : Shapes, seq : Nat, val : {0, 1}, auto : BOOLEAN]

\* The states of main between a login that succeeded and the end of the connection.
Serving == {"wait", "report", "recv", "handle", "download", "flash", "timing", "automan", "uart", "uartfile"}

MainInv ==
  /\ DOMAIN m = {"pc", "disc", "faild", "fail", "idle", "todo", "wtd"}
  /\ m.pc \in {"top", "connect", "login", "answer", "disconn", "exit"} \cup Serving
  /\ m.disc \in BOOLEAN /\ m.faild \in BOOLEAN /\ m.fail \in Nat
  /\ DOMAIN net = {"up", "down", "owed", "acc"}
  /\ net.up \in BOOLEAN /\ net.acc \in BOOLEAN
  /\ net.down \in Seq(Messages) /\ given \in Seq(Cmds)

\* Where main is tells what it thinks of the connection: below the top of its loop it has not given up
\* yet, it logs in on a connection it holds and serves one it has logged in on.
StageInv ==
  /\ m.pc \notin {"top", "exit"} => m.fail < FailLimit
  /\ m.pc = "connect" => m.faild /\ onoff = "Offline"
  /\ m.pc \in {"login", "answer"} => ~m.disc
  /\ m.pc = "answer" => onoff = "Offline"
  /\ m.pc \in Serving => ~m.disc /\ ~m.faild
  /\ onoff = "Online" /\ ~m.disc => m.fail < FailLimit \/ m.pc = "exit"

\* An answer that says the server accepts comes only after it has; a report's answer, which looks the
\* same, is asked for only after a login.
AcceptInv ==
  /\ ~m.disc /\ ~m.faild /\ m.pc # "exit" => net.acc
  /\ \A i \in 1..Len(net.down) : parse_json_ret(net.down[i]) => net.acc

OnlineInv == MainInv /\ StageInv /\ AcceptInv /\ OnlineTruthful

\* The commands under way.  A command that has arrived and is not being handled has not been answered;
\* the one main handles has not been either, but an update's first answer precedes the download.
TodoInv ==
  /\ DOMAIN m.todo = {"c", "of", "shape", "seq", "val", "auto"}
  /\ m.todo.seq \in 0..Len(given)
  /\ m.todo.seq > 0 => /\ given[m.todo.seq] = m.todo.of
                       /\ sent[m.todo.seq] = IF m.pc \in {"download", "flash"} THEN 1 ELSE 0
  /\ m.pc \in {"download", "flash"} => m.todo.of = "ota"

ArrivedInv ==
  /\ \A i \in 1..Len(net.down) :
       /\ net.down[i].seq \in 0..Len(given)
       /\ net.down[i].seq > 0 => /\ given[net.down[i].seq] = net.down[i].c
                                 /\ sent[net.down[i].seq] = 0
                                 /\ m.todo.seq # net.down[i].seq
  /\ \A i, j \in 1..Len(net.down) : net.down[i].seq = net.down[j].seq /\ i # j => net.down[i].seq = 0

SentInv ==
  /\ given \in Seq(Cmds) /\ Len(given) <= MaxCmd
  /\ sent \in [1..MaxCmd -> Nat]
  /\ \A n \in 1..MaxCmd : n > Len(given) => sent[n] = 0

CountInv == MainInv /\ SentInv /\ TodoInv /\ ArrivedInv /\ AnsweredOnce

-----------------------------------------------------------------------------
(* What the steps do to main and to the connection.                        *)

\* A few messages are taken from the front.
LEMMA Taking ==
  ASSUME NEW s \in Seq(Messages), NEW k \in 1..Len(s), NEW t, t = SubSeq(s, k + 1, Len(s))
  PROVE  /\ t \in Seq(Messages) /\ Len(t) = Len(s) - k
         /\ \A i \in 1..Len(t) : i + k \in 1..Len(s) /\ t[i] = s[i + k]
<1>1. Len(s) \in Nat /\ k \in Nat /\ k <= Len(s)
  OBVIOUS
<1>2. CASE k + 1 <= Len(s)
  <2>1. \A i \in k + 1..Len(s) : s[i] \in Messages
    BY <1>1, ElementOfSeq
  <2> QED BY <1>1, <1>2, <2>1, SubSeqProperties
<1>3. CASE k = Len(s)
  BY <1>1, <1>3, SubSeqProperties
<1> QED BY <1>1, <1>2, <1>3

LEMMA Taken ==
  ASSUME net.down \in Seq(Messages), DOMAIN net = {"up", "down", "owed", "acc"}, NEW k \in 1..Len(net.down),
         net' = [net EXCEPT !.down = SubSeq(@, k + 1, Len(@))]
  PROVE  /\ net'.acc = net.acc
         /\ \A i \in 1..Len(net'.down) : i + k \in 1..Len(net.down) /\ net'.down[i] = net.down[i + k]
         /\ \A i \in 1..Len(net'.down) : \E j \in 1..Len(net.down) : net'.down[i] = net.down[j]
<1>1. net'.acc = net.acc /\ net'.down = SubSeq(net.down, k + 1, Len(net.down))
  OBVIOUS
<1>2. \A i \in 1..Len(net'.down) : i + k \in 1..Len(net.down) /\ net'.down[i] = net.down[i + k]
  BY <1>1, Taking
<1> QED BY <1>1, <1>2

\* A message arrives behind the others.
LEMMA Arriving ==
  ASSUME NEW s \in Seq(Messages), NEW x \in Messages, NEW t, t = Append(s, x)
  PROVE  /\ t \in Seq(Messages) /\ Len(t) = Len(s) + 1 /\ t[Len(t)] = x
         /\ \A i \in 1..Len(t) : i # Len(t) => i \in 1..Len(s) /\ t[i] = s[i]
BY AppendProperties

\* The answers are messages.
LEMMA AnswersAreMessages ==
  \A s \in Shapes : [NoTodo EXCEPT !.c = "respcode", !.shape = s] \in Messages
BY DEF NoTodo, Messages, Shapes

\* The server's command.
LEMMA CommandGives ==
  ASSUME Command
  PROVE  \E c \in Cmds, s \in Shapes, v \in {0, 1}, a \in BOOLEAN :
          /\ given' = Append(given, c)
          /\ net' = [net EXCEPT !.down = Append(@, [c |-> c, of |-> c, shape |-> s, seq |-> Len(given) + 1, val |-> v, auto |-> a])]
BY Zenon DEF Command

Handling ==
  \/ handle_msg \/ handle_read_gpio_cfg \/ OtherMsg \/ handle_checktime \/ update_uci_remote_config
  \/ update_uci_ppp_config \/ Reboot \/ handle_ota \/ do_ota \/ Flash \/ handle_gpiotiming \/ renew_timing_cfg_file
  \/ handle_gpiotype \/ renew_auto_manual_file \/ parse_json_tty_trans \/ ClearUart \/ parse_json_tty_cfg \/ SaveUart

\* What main may do with a command: be done with it, give up the connection, end, or go on with it.
Moves ==
  \/ m' = [m EXCEPT !.pc = "top", !.fail = 0, !.idle = 0, !.wtd = 0, !.todo = NoTodo]
  \/ m' = [m EXCEPT !.pc = "disconn", !.todo = NoTodo]
  \/ m' = [m EXCEPT !.pc = "exit", !.todo = NoTodo]
  \/ \E x \in Serving : m' = [m EXCEPT !.pc = x]

LEMMA Responding ==
  ASSUME NEW n, SEND_RESP(n)
  PROVE  Moves
BY Zenon DEF SEND_RESP, Handled, Moves

LEMMA HandlingMoves ==
  ASSUME Handling
  PROVE  m.pc \in Serving /\ net' = net /\ onoff' = onoff /\ given' = given /\ Moves
<1>0. \A x \in Serving : m' = [m EXCEPT !.pc = x] => Moves
  BY DEF Moves
<1>1. {"handle", "download", "flash", "timing", "automan", "uart", "uartfile"} \subseteq Serving
  BY DEF Serving
<1> USE <1>0, <1>1, Responding DEF mainVars, envVars, Is
<1>2. CASE handle_msg
  BY <1>2 DEF handle_msg
<1>3. CASE handle_read_gpio_cfg
  BY <1>3 DEF handle_read_gpio_cfg
<1>4. CASE OtherMsg
  BY <1>4 DEF OtherMsg, Handled, Moves
<1>5. CASE handle_checktime
  BY <1>5 DEF handle_checktime
<1>6. CASE update_uci_remote_config
  BY <1>6 DEF update_uci_remote_config
<1>7. CASE update_uci_ppp_config
  BY <1>7 DEF update_uci_ppp_config
<1>8. CASE Reboot
  BY <1>8 DEF Reboot, Moves
<1>9. CASE handle_ota
  BY <1>9 DEF handle_ota
<1>10. CASE do_ota
  BY <1>10 DEF do_ota
<1>11. CASE Flash
  BY <1>11 DEF Flash, Moves
<1>12. CASE handle_gpiotiming
  BY <1>12 DEF handle_gpiotiming
<1>13. CASE renew_timing_cfg_file
  BY <1>13 DEF renew_timing_cfg_file
<1>14. CASE handle_gpiotype
  BY <1>14 DEF handle_gpiotype
<1>15. CASE renew_auto_manual_file
  BY <1>15 DEF renew_auto_manual_file
<1>16. CASE parse_json_tty_trans
  BY <1>16 DEF parse_json_tty_trans
<1>17. CASE ClearUart
  BY <1>17 DEF ClearUart
<1>18. CASE parse_json_tty_cfg
  BY <1>18 DEF parse_json_tty_cfg
<1>19. CASE SaveUart
  BY <1>19 DEF SaveUart
<1> QED
  BY <1>2, <1>3, <1>4, <1>5, <1>6, <1>7, <1>8, <1>9, <1>10, <1>11, <1>12, <1>13, <1>14, <1>15, <1>16, <1>17, <1>18, <1>19
     DEF Handling

-----------------------------------------------------------------------------
(* The types of main and of the connection                                 *)

LEMMA MainInit == Init => MainInv
BY DEF Init, MainStart, Closed, MainInv

\* Nothing that concerns main and the connection happens.
LEMMA MainQuiet ==
  ASSUME MainInv, m' = m, net' = net, given' = given
  PROVE  MainInv'
BY DEF MainInv

LEMMA MainStep ==
  ASSUME MainInv, [Next]_vars
  PROVE  MainInv'
<1>0. /\ m.fail \in Nat /\ net.down \in Seq(Messages) /\ given \in Seq(Cmds) /\ DOMAIN net = {"up", "down", "owed", "acc"}
      /\ DOMAIN m = {"pc", "disc", "faild", "fail", "idle", "todo", "wtd"}
      /\ <<>> \in Seq(Messages)
  BY DEF MainInv
<1> USE <1>0
<1>1. CASE Handling
  <2>1. net' = net /\ given' = given
    BY <1>1, HandlingMoves
  <2>2. CASE \E x \in Serving : m' = [m EXCEPT !.pc = x]
    BY <2>1, <2>2 DEF MainInv
  <2>3. CASE m' = [m EXCEPT !.pc = "top", !.fail = 0, !.idle = 0, !.wtd = 0, !.todo = NoTodo]
    BY <2>1, <2>3 DEF MainInv
  <2>4. CASE \E pc \in {"disconn", "exit"} : m' = [m EXCEPT !.pc = pc, !.todo = NoTodo]
    BY <2>1, <2>4 DEF MainInv
  <2> QED BY <1>1, <2>2, <2>3, <2>4, HandlingMoves DEF Moves
<1>2. CASE LoopTop
  <2>1. CASE m.fail >= FailLimit
    <3>1. m' = [m EXCEPT !.pc = "exit"] /\ net' = Closed /\ given' = given
      BY <1>2, <2>1 DEF LoopTop, envVars
    <3> QED BY <3>1 DEF Closed, MainInv
  <2>2. CASE ~(m.fail >= FailLimit)
    <3>1. net' = net /\ given' = given
      BY <1>2, <2>2 DEF LoopTop, envVars
    <3>2. \E pc \in {"disconn", "connect", "login", "wait"} :
            m' = [m EXCEPT !.wtd = 1, !.faild = m.faild \/ m.disc, !.pc = pc]
      BY <1>2, <2>2 DEF LoopTop
    <3> QED BY <3>1, <3>2 DEF MainInv, Serving
  <2> QED BY <2>1, <2>2
<1>3. CASE init_connect
  <2>1. Connected(TRUE) \/ Connected(FALSE)
    BY <1>3 DEF init_connect
  <2>2. /\ DOMAIN m' = DOMAIN m /\ m'.pc \in {"login", "top"} /\ m'.disc \in BOOLEAN /\ m'.faild \in BOOLEAN
        /\ m'.fail \in Nat
    <3>1. \/ m' = [m EXCEPT !.pc = "login", !.disc = FALSE, !.fail = 0, !.idle = 0]
          \/ m' = [m EXCEPT !.pc = "top", !.fail = @ + 1, !.wtd = 0]
      BY <2>1 DEF Connected
    <3>2. CASE m' = [m EXCEPT !.pc = "login", !.disc = FALSE, !.fail = 0, !.idle = 0]
      BY <3>2 DEF MainInv
    <3>3. CASE m' = [m EXCEPT !.pc = "top", !.fail = @ + 1, !.wtd = 0]
      BY <3>3 DEF MainInv
    <3> QED BY <3>1, <3>2, <3>3
  <2>3. /\ DOMAIN net' = DOMAIN net /\ net'.up \in BOOLEAN /\ net'.acc \in BOOLEAN /\ net'.down \in Seq(Messages)
        /\ given' = given
    BY <1>3 DEF init_connect, Closed, MainInv, envVars
  <2> QED BY <2>2, <2>3 DEF MainInv
<1>4. CASE send_login
  BY <1>4 DEF envVars, send_login, LoggedIn, sock_send, MainInv
<1>5. CASE LoginAnswer
  <2>1. /\ DOMAIN net' = DOMAIN net /\ net'.up = net.up /\ net'.acc = net.acc /\ net'.down \in Seq(Messages)
        /\ given' = given
    <3>1. \/ net' = net
          \/ \E k \in 1..Len(net.down) : net' = [net EXCEPT !.down = SubSeq(@, k + 1, Len(@))]
      BY <1>5, Zenon DEF LoginAnswer
    <3>2. given' = given
      BY <1>5 DEF LoginAnswer
    <3> QED BY <3>1, <3>2, Taking
  <2>2. LoggedIn(1) \/ LoggedIn(-1)
    BY <1>5, Zenon DEF LoginAnswer
  <2>3. /\ DOMAIN m' = DOMAIN m /\ m'.pc \in {"wait", "top", "disconn"} /\ m'.disc = m.disc /\ m'.faild \in BOOLEAN
        /\ m'.fail \in Nat
    <3>1. \/ m' = [m EXCEPT !.pc = "wait", !.faild = FALSE, !.idle = 0]
          \/ m' = [m EXCEPT !.pc = "top", !.fail = @ + 1, !.wtd = 0]
      BY <2>2 DEF LoggedIn
    <3>2. CASE m' = [m EXCEPT !.pc = "wait", !.faild = FALSE, !.idle = 0]
      BY <3>2 DEF MainInv
    <3>3. CASE m' = [m EXCEPT !.pc = "top", !.fail = @ + 1, !.wtd = 0]
      BY <3>3 DEF MainInv
    <3> QED BY <3>1, <3>2, <3>3
  <2> QED BY <2>1, <2>3 DEF MainInv, Serving
<1>6. CASE Wait
  BY <1>6 DEF envVars, Wait, MainInv, Serving
<1>7. CASE send_board_info
  <2>1. CASE net' = net
    BY <1>7, <2>1 DEF envVars, send_board_info, MainInv
  <2>2. CASE net' = [net EXCEPT !.down = IF net.up THEN Append(@, [NoTodo EXCEPT !.c = "respcode", !.shape = "good"]) ELSE @]
    <3>1. [NoTodo EXCEPT !.c = "respcode", !.shape = "good"] \in Messages
      BY AnswersAreMessages DEF Shapes
    <3>2. DOMAIN net' = DOMAIN net /\ net'.up = net.up /\ net'.acc = net.acc /\ net'.down \in Seq(Messages)
      BY <2>2, <3>1, Arriving
    <3> QED BY <1>7, <3>2 DEF envVars, send_board_info, MainInv
  <2> QED BY <1>7, <2>1, <2>2 DEF send_board_info
<1>8. CASE Recv
  <2>1. PICK k \in 1..Len(net.down) :
          /\ net' = [net EXCEPT !.down = SubSeq(@, k + 1, Len(@))]
          /\ given' = given
          /\ \E t : m' = [m EXCEPT !.pc = "handle", !.todo = t]
    BY <1>8, Zenon DEF Recv, envVars
  <2>2. DOMAIN net' = DOMAIN net /\ net'.up = net.up /\ net'.acc = net.acc /\ net'.down \in Seq(Messages)
    BY <2>1, Taking
  <2> QED BY <2>1, <2>2 DEF MainInv, Serving
<1>9. CASE DISCONN
  BY <1>9 DEF envVars, DISCONN, Closed, MainInv
<1>10. CASE Tty \/ Gpio
  BY <1>10, MainQuiet
     DEF Tty, TtyTop, init_com_dev, TtyRead, TtyAgain, TtySend, Gpio, GpioStart, read_timing_cfg, detect_timing_flag,
         gpio_reverse, mainVars, envVars
<1>11. CASE Answer
  <2>1. PICK ok \in BOOLEAN :
          net' = [net EXCEPT !.owed = @ - 1, !.acc = @ \/ ok,
                             !.down = Append(@, [NoTodo EXCEPT !.c = "respcode", !.shape = IF ok THEN "good" ELSE "nobody"])]
    BY <1>11 DEF Answer
  <2>2. [NoTodo EXCEPT !.c = "respcode", !.shape = IF ok THEN "good" ELSE "nobody"] \in Messages
    BY AnswersAreMessages DEF Shapes
  <2>3. DOMAIN net' = DOMAIN net /\ net'.up = net.up /\ net'.acc = (net.acc \/ ok) /\ net'.down \in Seq(Messages)
    BY <2>1, <2>2, Arriving
  <2>4. m' = m /\ given' = given
    BY <1>11 DEF Answer, envVars
  <2> QED BY <2>3, <2>4 DEF MainInv
<1>12. CASE Command
  <2>1. PICK c \in Cmds, s \in Shapes, v \in {0, 1}, a \in BOOLEAN :
          /\ given' = Append(given, c)
          /\ net' = [net EXCEPT !.down = Append(@, [c |-> c, of |-> c, shape |-> s, seq |-> Len(given) + 1, val |-> v, auto |-> a])]
    BY <1>12, CommandGives, Zenon
  <2>2. [c |-> c, of |-> c, shape |-> s, seq |-> Len(given) + 1, val |-> v, auto |-> a] \in Messages
    BY DEF Messages
  <2>3. DOMAIN net' = DOMAIN net /\ net'.up = net.up /\ net'.acc = net.acc /\ net'.down \in Seq(Messages)
    BY <2>1, <2>2, Arriving
  <2>4. given' \in Seq(Cmds)
    BY <2>1, AppendProperties
  <2>5. m' = m
    BY <1>12 DEF Command
  <2> QED BY <2>3, <2>4, <2>5 DEF MainInv
<1>13. CASE Upset
  BY <1>13 DEF Upset, MainInv
<1>14. CASE Restart
  BY <1>14 DEF Restart, MainStart, Closed, MainInv
<1>15. CASE UNCHANGED vars
  BY <1>15, MainQuiet DEF vars, mainVars, envVars
<1> QED
  BY <1>1, <1>2, <1>3, <1>4, <1>5, <1>6, <1>7, <1>8, <1>9, <1>10, <1>11, <1>12, <1>13, <1>14, <1>15 DEF Next, Main, Handling

-----------------------------------------------------------------------------
(* /tmp/onoffline                                                          *)

LEMMA OnlineInit == Init => OnlineInv
<1> SUFFICES ASSUME Init PROVE StageInv /\ AcceptInv /\ OnlineTruthful
  BY MainInit DEF OnlineInv
<1> QED
  BY DEF Init, MainStart, Closed, StageInv, AcceptInv, OnlineTruthful, Serving

\* A step that leaves /tmp/onoffline and the accepted login alone, and brings no answer of its own:
\* only where main is has to be looked at.
LEMMA OnlineKept ==
  ASSUME OnlineInv, MainInv', m'.disc = m.disc, m'.faild = m.faild, onoff' = onoff, net'.acc = net.acc,
         \A i \in 1..Len(net'.down) : \E j \in 1..Len(net.down) : net'.down[i] = net.down[j],
         StageInv', m'.pc # "exit" => m.pc # "exit"
  PROVE  OnlineInv'
<1>1. AcceptInv'
  BY DEF OnlineInv, AcceptInv, parse_json_ret
<1>2. OnlineTruthful'
  BY DEF OnlineInv, OnlineTruthful
<1> QED BY <1>1, <1>2 DEF OnlineInv

LEMMA OnlineStep ==
  ASSUME OnlineInv, [Next]_vars
  PROVE  OnlineInv'
<1>0. MainInv /\ StageInv /\ AcceptInv /\ OnlineTruthful /\ MainInv'
  BY MainStep DEF OnlineInv
<1>a. /\ m.fail \in Nat /\ m.disc \in BOOLEAN /\ m.faild \in BOOLEAN /\ net.down \in Seq(Messages)
      /\ DOMAIN net = {"up", "down", "owed", "acc"}
      /\ DOMAIN m = {"pc", "disc", "faild", "fail", "idle", "todo", "wtd"}
      /\ \A i \in 1..Len(net.down) : \E j \in 1..Len(net.down) : net.down[i] = net.down[j]
  BY <1>0 DEF MainInv
<1> USE <1>0, <1>a, BoundAssumption
<1>1. CASE Handling
  <2>1. net' = net /\ onoff' = onoff /\ m.pc \in Serving
    BY <1>1, HandlingMoves
  <2>2. StageInv' /\ m'.disc = m.disc /\ m'.faild = m.faild /\ m.pc # "exit"
    <3>1. CASE \E x \in Serving : m' = [m EXCEPT !.pc = x]
      BY <2>1, <3>1 DEF StageInv, Serving
    <3>2. CASE m' = [m EXCEPT !.pc = "top", !.fail = 0, !.idle = 0, !.wtd = 0, !.todo = NoTodo]
      BY <2>1, <3>2 DEF StageInv, Serving
    <3>3. CASE \E pc \in {"disconn", "exit"} : m' = [m EXCEPT !.pc = pc, !.todo = NoTodo]
      BY <2>1, <3>3 DEF StageInv, Serving
    <3> QED BY <1>1, <3>1, <3>2, <3>3, HandlingMoves DEF Moves
  <2> QED BY <2>1, <2>2, OnlineKept
<1>2. CASE LoopTop
  <2>1. CASE m.fail >= FailLimit
    <3>1. m' = [m EXCEPT !.pc = "exit"] /\ net' = Closed /\ onoff' = onoff /\ m.pc = "top"
      BY <1>2, <2>1 DEF LoopTop
    <3>2. onoff = "Online" => m.disc
      BY <2>1, <3>1 DEF StageInv
    <3> QED BY <3>1, <3>2 DEF Closed, OnlineInv, StageInv, AcceptInv, OnlineTruthful, Serving
  <2>2. CASE ~(m.fail >= FailLimit)
    <3>1. net' = net /\ m.pc = "top" /\ onoff' = IF modem /\ (m.disc \/ m.faild) THEN "Offline" ELSE onoff
      BY <1>2, <2>2 DEF LoopTop
    <3>2. \/ ~modem /\ m' = [m EXCEPT !.wtd = 1, !.faild = m.faild \/ m.disc, !.pc = "disconn"]
          \/ modem /\ m.disc /\ m' = [m EXCEPT !.wtd = 1, !.faild = m.faild \/ m.disc, !.pc = "connect"]
          \/ modem /\ ~m.disc /\ m.faild /\ m' = [m EXCEPT !.wtd = 1, !.faild = m.faild \/ m.disc, !.pc = "login"]
          \/ modem /\ ~m.disc /\ ~m.faild /\ m' = [m EXCEPT !.wtd = 1, !.faild = m.faild \/ m.disc, !.pc = "wait"]
      BY <1>2, <2>2 DEF LoopTop
    <3>3. m'.disc = m.disc /\ m'.fail = m.fail
      BY <3>2
    <3>4. m'.faild = (m.faild \/ m.disc)
      BY <3>2
    <3>5. \/ m'.pc = "disconn"
          \/ m'.pc = "connect" /\ modem /\ m.disc
          \/ m'.pc = "login" /\ ~m.disc
          \/ m'.pc = "wait" /\ ~m.disc /\ ~m.faild
      BY <3>2
    <3>6. StageInv'
      BY <2>2, <3>1, <3>3, <3>4, <3>5 DEF StageInv, Serving
    <3>7. AcceptInv'
      BY <3>1, <3>3, <3>4 DEF AcceptInv
    <3>8. OnlineTruthful'
      BY <3>1, <3>3 DEF OnlineTruthful
    <3> QED BY <3>6, <3>7, <3>8 DEF OnlineInv
  <2> QED BY <2>1, <2>2
<1>3. CASE init_connect
  <2>1. m.pc = "connect" /\ m.faild /\ onoff' = "Offline" /\ m.fail < FailLimit
    BY <1>3 DEF init_connect, StageInv
  <2>2. CASE Connected(TRUE) /\ \E r \in BOOLEAN : net' = [Closed EXCEPT !.up = r]
    <3>1. m'.pc = "login" /\ ~m'.disc /\ m'.fail = 0 /\ m'.faild = m.faild
      BY <2>2 DEF Connected
    <3>2. net'.down = <<>>
      BY <2>2 DEF Closed
    <3>3. StageInv'
      BY <2>1, <3>1 DEF StageInv, Serving
    <3>4. AcceptInv' /\ OnlineTruthful'
      BY <2>1, <3>1, <3>2 DEF AcceptInv, OnlineTruthful
    <3> QED BY <3>3, <3>4 DEF OnlineInv
  <2>3. CASE Connected(FALSE) /\ net' = net
    <3>1. m'.pc = "top" /\ m'.disc = m.disc /\ m'.faild = m.faild
      BY <2>3 DEF Connected
    <3>2. StageInv'
      BY <2>1, <3>1 DEF StageInv, Serving
    <3>3. AcceptInv' /\ OnlineTruthful'
      BY <2>1, <2>3, <3>1 DEF AcceptInv, OnlineTruthful
    <3> QED BY <3>2, <3>3 DEF OnlineInv
  <2> QED BY <1>3, <2>2, <2>3, Zenon DEF init_connect
<1>4. CASE send_login
  <2>1. m.pc = "login" /\ net'.acc = net.acc /\ net'.down = net.down /\ onoff' = "Offline"
    BY <1>4 DEF send_login, LoggedIn
  <2>2. m'.pc \in {"answer", "disconn"} /\ m'.disc = m.disc /\ m'.faild = m.faild /\ m'.fail = m.fail
    BY <1>4 DEF send_login, LoggedIn
  <2>3. StageInv'
    BY <2>1, <2>2 DEF StageInv, Serving
  <2>4. AcceptInv' /\ OnlineTruthful'
    BY <2>1, <2>2 DEF AcceptInv, OnlineTruthful
  <2> QED BY <2>3, <2>4 DEF OnlineInv
<1>5. CASE LoginAnswer
  <2>1. m.pc = "answer" /\ onoff = "Offline" /\ ~m.disc /\ m.fail < FailLimit
    BY <1>5 DEF LoginAnswer, StageInv
  <2>2. CASE \E k \in 1..Len(net.down) :
               /\ net' = [net EXCEPT !.down = SubSeq(@, k + 1, Len(@))]
               /\ parse_json_ret(Took(k)[1]) /\ LoggedIn(1)
    <3>1. PICK k \in 1..Len(net.down) :
            net' = [net EXCEPT !.down = SubSeq(@, k + 1, Len(@))] /\ parse_json_ret(Took(k)[1])
      BY <2>2
    <3>2. Took(k)[1] = net.down[1]
      <4>1. \A i \in 1..k : net.down[i] \in Messages
        OBVIOUS
      <4> QED BY <4>1, SubSeqProperties DEF Took
    <3>3. net.acc
      <4>1. 1 \in 1..Len(net.down) /\ parse_json_ret(net.down[1])
        BY <3>1, <3>2
      <4> QED BY <4>1 DEF AcceptInv
    <3>4. net'.acc = net.acc /\ \A i \in 1..Len(net'.down) : \E j \in 1..Len(net.down) : net'.down[i] = net.down[j]
      BY <3>1, Taken
    <3>5. m'.pc = "wait" /\ ~m'.faild /\ m'.disc = m.disc /\ m'.fail = m.fail /\ onoff' = "Online"
      <4>1. m' = [m EXCEPT !.pc = "wait", !.faild = FALSE, !.idle = 0] /\ onoff' = "Online"
        BY <2>2 DEF LoggedIn
      <4> QED BY <4>1
    <3>6. StageInv'
      BY <2>1, <3>5 DEF StageInv, Serving
    <3>7. AcceptInv' /\ OnlineTruthful'
      BY <3>3, <3>4, <3>5 DEF AcceptInv, OnlineTruthful
    <3> QED BY <3>6, <3>7 DEF OnlineInv
  <2>3. CASE LoggedIn(-1) /\ \/ net' = net
                             \/ \E k \in 1..Len(net.down) : net' = [net EXCEPT !.down = SubSeq(@, k + 1, Len(@))]
    <3>1. net'.acc = net.acc /\ \A i \in 1..Len(net'.down) : \E j \in 1..Len(net.down) : net'.down[i] = net.down[j]
      BY <2>3, Taken
    <3>2. m' = [m EXCEPT !.pc = "top", !.fail = @ + 1, !.wtd = 0] /\ onoff' = onoff
      BY <2>3 DEF LoggedIn
    <3>3. StageInv'
      BY <2>1, <3>2 DEF StageInv, Serving
    <3> QED BY <2>1, <3>1, <3>2, <3>3, OnlineKept
  <2> QED BY <1>5, <2>2, <2>3, Zenon DEF LoginAnswer
<1>6. CASE Wait
  <2>1. net' = net /\ onoff' = onoff /\ m.pc = "wait" /\ m'.disc = m.disc /\ m'.faild = m.faild /\ m'.fail = m.fail
        /\ m'.pc \in {"disconn", "top", "report", "recv"}
    <3>1. net' = net /\ onoff' = onoff /\ m.pc = "wait"
      BY <1>6 DEF Wait
    <3>2. \/ m' = [m EXCEPT !.pc = "disconn", !.idle = 0]
          \/ \E dt \in {0, 1} : m' = [m EXCEPT !.pc = "top", !.wtd = 0, !.idle = @ + dt]
          \/ m' = [m EXCEPT !.pc = "report", !.idle = @ + 1]
          \/ m' = [m EXCEPT !.pc = "disconn"]
          \/ m' = [m EXCEPT !.pc = "recv"]
      BY <1>6, Zenon DEF Wait
    <3>3. m'.disc = m.disc /\ m'.faild = m.faild /\ m'.fail = m.fail
      BY <3>2
    <3>4. m'.pc \in {"disconn", "top", "report", "recv"}
      BY <3>2
    <3> QED BY <3>1, <3>3, <3>4
  <2>2. StageInv'
    BY <2>1 DEF StageInv, Serving
  <2> QED BY <2>1, <2>2, OnlineKept
<1>7. CASE send_board_info
  <2>1. onoff' = onoff /\ m.pc = "report" /\ m'.disc = m.disc /\ m'.faild = m.faild /\ m'.fail = m.fail
        /\ m'.pc \in {"disconn", "top"}
    <3>1. onoff' = onoff /\ m.pc = "report"
      BY <1>7 DEF send_board_info
    <3>2. m' = [m EXCEPT !.pc = "top", !.wtd = 0] \/ m' = [m EXCEPT !.pc = "disconn"]
      BY <1>7, Zenon DEF send_board_info
    <3>3. m'.disc = m.disc /\ m'.faild = m.faild /\ m'.fail = m.fail
      BY <3>2
    <3>4. m'.pc \in {"disconn", "top"}
      BY <3>2
    <3> QED BY <3>1, <3>3, <3>4
  <2>2. StageInv'
    BY <2>1 DEF StageInv, Serving
  <2>3. net.acc /\ net'.acc
    BY <1>7, <2>1 DEF send_board_info, StageInv, AcceptInv, Serving
  <2> QED BY <2>1, <2>2, <2>3 DEF OnlineInv, AcceptInv, OnlineTruthful
<1>8. CASE Recv
  <2>1. PICK k \in 1..Len(net.down) :
          /\ net' = [net EXCEPT !.down = SubSeq(@, k + 1, Len(@))]
          /\ \E t : m' = [m EXCEPT !.pc = "handle", !.todo = t]
    BY <1>8, Zenon DEF Recv
  <2>2. net'.acc = net.acc /\ \A i \in 1..Len(net'.down) : \E j \in 1..Len(net.down) : net'.down[i] = net.down[j]
    BY <2>1, Taken
  <2>3. onoff' = onoff /\ m.pc = "recv"
    BY <1>8 DEF Recv
  <2>4. StageInv'
    BY <2>1, <2>3 DEF StageInv, Serving
  <2> QED BY <2>1, <2>2, <2>3, <2>4, OnlineKept
<1>9. CASE DISCONN
  <2>1. m.pc = "disconn" /\ onoff' = onoff /\ net' = Closed
        /\ m' = [m EXCEPT !.pc = "top", !.fail = @ + 1, !.disc = TRUE, !.faild = TRUE, !.wtd = 0]
    BY <1>9 DEF DISCONN
  <2> QED BY <2>1 DEF Closed, OnlineInv, StageInv, AcceptInv, OnlineTruthful, Serving
<1>10. CASE Tty \/ Gpio \/ UNCHANGED vars
  <2>1. m' = m /\ net' = net /\ onoff' = onoff
    BY <1>10
       DEF Tty, TtyTop, init_com_dev, TtyRead, TtyAgain, TtySend, Gpio, GpioStart, read_timing_cfg, detect_timing_flag,
           gpio_reverse, mainVars, vars
  <2> QED BY <2>1, OnlineKept DEF StageInv
<1>11. CASE Answer
  <2>1. PICK ok \in BOOLEAN :
          net' = [net EXCEPT !.owed = @ - 1, !.acc = @ \/ ok,
                             !.down = Append(@, [NoTodo EXCEPT !.c = "respcode", !.shape = IF ok THEN "good" ELSE "nobody"])]
    BY <1>11 DEF Answer
  <2> DEFINE x == [NoTodo EXCEPT !.c = "respcode", !.shape = IF ok THEN "good" ELSE "nobody"]
  <2>2. x \in Messages /\ (parse_json_ret(x) => ok)
    BY AnswersAreMessages DEF Shapes, parse_json_ret, NoTodo
  <2> HIDE DEF x
  <2>3. net'.acc = (net.acc \/ ok) /\ net'.down = Append(net.down, x)
    BY <2>1 DEF x
  <2>4. AcceptInv'
    <3>1. \A i \in 1..Len(net'.down) : parse_json_ret(net'.down[i]) => net'.acc
      <4> TAKE i \in 1..Len(net'.down)
      <4>1. CASE i = Len(net'.down)
        BY <2>2, <2>3, <4>1, Arriving
      <4>2. CASE i # Len(net'.down)
        <5>1. i \in 1..Len(net.down) /\ net'.down[i] = net.down[i]
          BY <2>2, <2>3, <4>2, Arriving
        <5> QED BY <2>3, <5>1 DEF AcceptInv
      <4> QED BY <4>1, <4>2
    <3> QED BY <1>11, <2>3, <3>1 DEF Answer, AcceptInv
  <2> QED BY <1>11, <2>3, <2>4 DEF Answer, OnlineInv, StageInv, OnlineTruthful
<1>12. CASE Command
  <2>1. PICK c \in Cmds, s \in Shapes, v \in {0, 1}, a \in BOOLEAN :
          /\ given' = Append(given, c)
          /\ net' = [net EXCEPT !.down = Append(@, [c |-> c, of |-> c, shape |-> s, seq |-> Len(given) + 1, val |-> v, auto |-> a])]
    BY <1>12, CommandGives, Zenon
  <2> DEFINE x == [c |-> c, of |-> c, shape |-> s, seq |-> Len(given) + 1, val |-> v, auto |-> a]
  <2>2. x \in Messages /\ ~parse_json_ret(x)
    BY CmdsAssumption DEF Messages, MainInv, parse_json_ret
  <2> HIDE DEF x
  <2>3. net'.acc = net.acc /\ net'.down = Append(net.down, x)
    BY <2>1 DEF x
  <2>4. AcceptInv'
    <3>1. \A i \in 1..Len(net'.down) : parse_json_ret(net'.down[i]) => net'.acc
      <4> TAKE i \in 1..Len(net'.down)
      <4>1. CASE i = Len(net'.down)
        BY <2>2, <2>3, <4>1, Arriving
      <4>2. CASE i # Len(net'.down)
        <5>1. i \in 1..Len(net.down) /\ net'.down[i] = net.down[i]
          BY <2>2, <2>3, <4>2, Arriving
        <5> QED BY <2>3, <5>1 DEF AcceptInv
      <4> QED BY <4>1, <4>2
    <3> QED BY <1>12, <2>3, <3>1 DEF Command, AcceptInv
  <2> QED BY <1>12, <2>3, <2>4 DEF Command, OnlineInv, StageInv, OnlineTruthful
<1>13. CASE Upset
  <2>1. net'.acc = net.acc /\ net'.down = net.down /\ m' = m /\ onoff' = onoff
    BY <1>13 DEF Upset
  <2> QED BY <2>1, OnlineKept DEF StageInv
<1>14. CASE Restart
  BY <1>14 DEF Restart, MainStart, Closed, OnlineInv, StageInv, AcceptInv, OnlineTruthful, Serving
<1> QED
  BY <1>1, <1>2, <1>3, <1>4, <1>5, <1>6, <1>7, <1>8, <1>9, <1>10, <1>11, <1>12, <1>13, <1>14 DEF Next, Main, Handling

\* Whatever answers come late, together or on an earlier connection: /tmp/onoffline says Online of a
\* connection main holds only if the server accepted a login on it (send_login, init_connect, DISCONN).
THEOREM OnlineIsAccepted == Spec => []OnlineTruthful
<1>1. OnlineInv => OnlineTruthful
  BY DEF OnlineInv
<1> QED BY OnlineInit, OnlineStep, <1>1, PTL DEF Spec

-----------------------------------------------------------------------------
(* The answers                                                             *)

LEMMA CountInit == Init => CountInv
<1> SUFFICES ASSUME Init PROVE CountInv
  OBVIOUS
<1>1. /\ given = <<>> /\ net.down = <<>> /\ sent = [n \in 1..MaxCmd |-> 0]
      /\ m.todo = NoTodo /\ m.pc = "top"
  BY DEF Init, MainStart, Closed
<1>2. SentInv
  BY <1>1, BoundAssumption DEF SentInv
<1>3. TodoInv
  BY <1>1 DEF TodoInv, NoTodo
<1>4. ArrivedInv /\ AnsweredOnce
  BY <1>1 DEF ArrivedInv, AnsweredOnce
<1> QED BY <1>2, <1>3, <1>4, MainInit DEF CountInv

\* The messages that have arrived are some of those that had, and none has been answered meanwhile.
LEMMA ArrivedKept ==
  ASSUME ArrivedInv, net.down \in Seq(Messages), net'.down \in Seq(Messages), given' = given, NEW k \in Nat,
         \A i \in 1..Len(net'.down) : i + k \in 1..Len(net.down) /\ net'.down[i] = net.down[i + k],
         \A i \in 1..Len(net'.down) : net'.down[i].seq > 0 =>
            sent'[net'.down[i].seq] = sent[net'.down[i].seq] /\ m'.todo.seq # net'.down[i].seq
  PROVE  ArrivedInv'
<1>0. Len(net.down) \in Nat /\ Len(net'.down) \in Nat
  OBVIOUS
<1>1. \A i \in 1..Len(net'.down) : /\ net'.down[i].seq \in 0..Len(given')
                                   /\ net'.down[i].seq > 0 => /\ given'[net'.down[i].seq] = net'.down[i].c
                                                             /\ sent'[net'.down[i].seq] = 0
                                                             /\ m'.todo.seq # net'.down[i].seq
  <2> TAKE i \in 1..Len(net'.down)
  <2>1. PICK x \in 1..Len(net.down) : net'.down[i] = net.down[x]
    OBVIOUS
  <2>2. /\ net.down[x].seq \in 0..Len(given)
        /\ net.down[x].seq > 0 => given[net.down[x].seq] = net.down[x].c /\ sent[net.down[x].seq] = 0
    BY DEF ArrivedInv
  <2> QED BY <2>1, <2>2
<1>2. ASSUME NEW i \in 1..Len(net'.down), NEW j \in 1..Len(net'.down), net'.down[i].seq = net'.down[j].seq, i # j
      PROVE  net'.down[i].seq = 0
  <2>1. /\ i + k \in 1..Len(net.down) /\ net'.down[i] = net.down[i + k]
        /\ j + k \in 1..Len(net.down) /\ net'.down[j] = net.down[j + k]
    OBVIOUS
  <2>2. i + k # j + k
    BY <1>0, <1>2
  <2>3. \A a, b \in 1..Len(net.down) : net.down[a].seq = net.down[b].seq /\ a # b => net.down[a].seq = 0
    BY DEF ArrivedInv
  <2> QED BY <1>2, <2>1, <2>2, <2>3
<1> QED BY <1>1, <1>2 DEF ArrivedInv

\* An answer arrives.
LEMMA AnswerArrives ==
  ASSUME ArrivedInv, net.down \in Seq(Messages), given \in Seq(Cmds), given' = given, sent' = sent, m'.todo = m.todo,
         NEW x \in Messages, x.seq = 0, net'.down = Append(net.down, x)
  PROVE  ArrivedInv'
<1>1. /\ Len(net'.down) = Len(net.down) + 1 /\ net'.down[Len(net'.down)] = x
      /\ \A i \in 1..Len(net'.down) : i # Len(net'.down) => i \in 1..Len(net.down) /\ net'.down[i] = net.down[i]
  BY Arriving
<1>2. Len(given) \in Nat
  OBVIOUS
<1>3. \A i \in 1..Len(net'.down) : /\ net'.down[i].seq \in 0..Len(given')
                                   /\ net'.down[i].seq > 0 => /\ given'[net'.down[i].seq] = net'.down[i].c
                                                             /\ sent'[net'.down[i].seq] = 0
                                                             /\ m'.todo.seq # net'.down[i].seq
  <2> TAKE i \in 1..Len(net'.down)
  <2>1. CASE i = Len(net'.down)
    BY <1>1, <1>2, <2>1
  <2>2. CASE i # Len(net'.down)
    BY <1>1, <2>2 DEF ArrivedInv
  <2> QED BY <2>1, <2>2
<1>4. \A i, j \in 1..Len(net'.down) : net'.down[i].seq = net'.down[j].seq /\ i # j => net'.down[i].seq = 0
  <2> SUFFICES ASSUME NEW i \in 1..Len(net'.down), NEW j \in 1..Len(net'.down), net'.down[i].seq = net'.down[j].seq, i # j
               PROVE  net'.down[i].seq = 0
    OBVIOUS
  <2>1. CASE i = Len(net'.down) \/ j = Len(net'.down)
    BY <1>1, <2>1
  <2>2. CASE i # Len(net'.down) /\ j # Len(net'.down)
    BY <1>1, <2>2 DEF ArrivedInv
  <2> QED BY <2>1, <2>2
<1> QED BY <1>3, <1>4 DEF ArrivedInv

\* Nobody answers and nothing arrives; messages may be read and forgotten.
LEMMA CountQuiet ==
  ASSUME CountInv, MainInv', given' = given, sent' = sent, m'.todo = m.todo,
         m'.pc \in {"download", "flash"} <=> m.pc \in {"download", "flash"},
         NEW k \in Nat, \A i \in 1..Len(net'.down) : i + k \in 1..Len(net.down) /\ net'.down[i] = net.down[i + k]
  PROVE  CountInv'
<1>1. SentInv' /\ AnsweredOnce'
  BY DEF CountInv, SentInv, AnsweredOnce
<1>2. TodoInv'
  BY DEF CountInv, TodoInv
<1>3. ArrivedInv'
  <2>1. ArrivedInv /\ net.down \in Seq(Messages) /\ net'.down \in Seq(Messages)
    BY DEF CountInv, MainInv
  <2>2. \A i \in 1..Len(net'.down) : net'.down[i].seq > 0 =>
            sent'[net'.down[i].seq] = sent[net'.down[i].seq] /\ m'.todo.seq # net'.down[i].seq
    BY <2>1 DEF ArrivedInv
  <2> QED BY <2>1, <2>2, ArrivedKept
<1> QED BY <1>1, <1>2, <1>3 DEF CountInv

\* What a command does to the answers: done with it, at most one more answer to it (or to a number no
\* command has); going on without one; or an update's first answer, before the download.
Finish ==
  /\ m'.todo = NoTodo /\ m'.pc \notin {"download", "flash"}
  /\ sent' = sent \/ \E n \in {m.todo.seq, 0, -1, 99} : send_resp(n)

GoOn ==
  /\ m'.todo = m.todo /\ sent' = sent
  /\ m'.pc \in {"download", "flash"} <=> m.pc \in {"download", "flash"}

FirstAnswer ==
  /\ m'.todo = m.todo /\ m.pc = "handle" /\ m'.pc = "download"
  /\ m.todo.of = "ota" /\ send_resp(m.todo.seq)

LEMMA Answering ==
  ASSUME DOMAIN m = {"pc", "disc", "faild", "fail", "idle", "todo", "wtd"}, NEW n \in {m.todo.seq, 0, -1, 99}, SEND_RESP(n)
  PROVE  Finish
<1>1. \/ send_resp(n) /\ m' = [m EXCEPT !.pc = "top", !.fail = 0, !.idle = 0, !.wtd = 0, !.todo = NoTodo]
      \/ sent' = sent /\ m' = [m EXCEPT !.pc = "disconn", !.todo = NoTodo]
  BY Zenon DEF SEND_RESP, Handled
<1>2. CASE send_resp(n) /\ m' = [m EXCEPT !.pc = "top", !.fail = 0, !.idle = 0, !.wtd = 0, !.todo = NoTodo]
  <2>1. m'.todo = NoTodo /\ m'.pc = "top"
    BY <1>2
  <2> QED BY <1>2, <2>1 DEF Finish
<1>3. CASE sent' = sent /\ m' = [m EXCEPT !.pc = "disconn", !.todo = NoTodo]
  <2>1. m'.todo = NoTodo /\ m'.pc = "disconn"
    BY <1>3
  <2> QED BY <1>3, <2>1 DEF Finish
<1> QED BY <1>1, <1>2, <1>3

\* main goes on with the command.
LEMMA GoingOn ==
  ASSUME DOMAIN m = {"pc", "disc", "faild", "fail", "idle", "todo", "wtd"}, NEW x, m' = [m EXCEPT !.pc = x], sent' = sent,
         x \in {"download", "flash"} <=> m.pc \in {"download", "flash"}
  PROVE  GoOn
BY DEF GoOn

LEMMA HandlingAnswers ==
  ASSUME MainInv, Handling
  PROVE  Finish \/ GoOn \/ FirstAnswer
<1>0. DOMAIN m = {"pc", "disc", "faild", "fail", "idle", "todo", "wtd"}
  BY DEF MainInv
<1>a. /\ parse_json_seqnum(m.todo) \in {m.todo.seq, -1}
      /\ ParsedSeq(m.todo) \in {m.todo.seq, 0}
  BY DEF parse_json_seqnum, ParsedSeq
<1> USE <1>0, <1>a, Answering DEF Is
<1>2. CASE handle_msg
  BY <1>2 DEF handle_msg
<1>3. CASE handle_read_gpio_cfg
  BY <1>3 DEF handle_read_gpio_cfg
<1>4. CASE OtherMsg
  BY <1>4 DEF OtherMsg, Handled, Finish
<1>5. CASE handle_checktime
  BY <1>5 DEF handle_checktime
<1>6. CASE update_uci_remote_config
  BY <1>6 DEF update_uci_remote_config
<1>7. CASE update_uci_ppp_config
  BY <1>7 DEF update_uci_ppp_config
<1>8. CASE Reboot
  BY <1>8 DEF Reboot, Finish
<1>9. CASE handle_ota
  <2>1. CASE m' = [m EXCEPT !.pc = "download"] /\ m.pc = "handle" /\ m.todo.c = "ota" /\ parse_json_ota_msg(m.todo)
             /\ send_resp(m.todo.seq)
    BY <2>1 DEF FirstAnswer, parse_json_ota_msg, ParsedFields
  <2> QED BY <1>9, <2>1 DEF handle_ota
<1>10. CASE do_ota
  BY <1>10, GoingOn DEF do_ota
<1>11. CASE Flash
  BY <1>11 DEF Flash, Finish
<1>12. CASE handle_gpiotiming
  BY <1>12, GoingOn DEF handle_gpiotiming
<1>13. CASE renew_timing_cfg_file
  BY <1>13 DEF renew_timing_cfg_file
<1>14. CASE handle_gpiotype
  BY <1>14, GoingOn DEF handle_gpiotype
<1>15. CASE renew_auto_manual_file
  BY <1>15 DEF renew_auto_manual_file
<1>16. CASE parse_json_tty_trans
  BY <1>16 DEF parse_json_tty_trans
<1>17. CASE ClearUart
  BY <1>17, GoingOn DEF ClearUart
<1>18. CASE parse_json_tty_cfg
  BY <1>18, GoingOn DEF parse_json_tty_cfg
<1>19. CASE SaveUart
  BY <1>19 DEF SaveUart
<1> QED
  BY <1>2, <1>3, <1>4, <1>5, <1>6, <1>7, <1>8, <1>9, <1>10, <1>11, <1>12, <1>13, <1>14, <1>15, <1>16, <1>17, <1>18, <1>19
     DEF Handling

\* The numbers 0, -1 and 99 are none of a command's.
LEMMA SendsOne ==
  ASSUME sent \in [1..MaxCmd -> Nat], m.todo.seq \in Nat, NEW n \in {m.todo.seq, 0, -1, 99}, send_resp(n)
  PROVE  \/ sent' = sent
         \/ m.todo.seq \in 1..MaxCmd /\ sent' = [sent EXCEPT ![m.todo.seq] = sent[m.todo.seq] + 1]
<1>1. DOMAIN sent = 1..MaxCmd /\ 0 \notin 1..MaxCmd /\ -1 \notin 1..MaxCmd /\ 99 \notin 1..MaxCmd
  BY BoundAssumption
<1>2. CASE n \in 1..MaxCmd
  <2>1. n = m.todo.seq
    BY <1>1, <1>2
  <2> QED BY <1>1, <1>2, <2>1 DEF send_resp
<1>3. CASE n \notin 1..MaxCmd
  BY <1>1, <1>3 DEF send_resp
<1> QED BY <1>2, <1>3

LEMMA HandlingCounts ==
  ASSUME CountInv, MainInv', Handling
  PROVE  CountInv'
<1>0. /\ MainInv /\ SentInv /\ TodoInv /\ ArrivedInv /\ AnsweredOnce
      /\ net' = net /\ given' = given /\ net.down \in Seq(Messages) /\ Len(given) \in Nat /\ Len(net.down) \in Nat
      /\ sent \in [1..MaxCmd -> Nat] /\ MaxCmd \in 0..98 /\ m.todo.seq \in 0..Len(given)
  BY HandlingMoves, BoundAssumption DEF CountInv, MainInv, SentInv, TodoInv
<1>1. CASE GoOn
  <2>1. \A i \in 1..Len(net'.down) : i + 0 \in 1..Len(net.down) /\ net'.down[i] = net.down[i + 0]
    BY <1>0
  <2>2. 0 \in Nat
    OBVIOUS
  <2> QED BY <1>0, <1>1, <2>1, <2>2, CountQuiet DEF GoOn
<1>2. CASE (Finish /\ sent' # sent) \/ FirstAnswer
  <2>1. \/ sent' = sent
        \/ m.todo.seq \in 1..MaxCmd /\ sent' = [sent EXCEPT ![m.todo.seq] = sent[m.todo.seq] + 1]
    <3>1. PICK n \in {m.todo.seq, 0, -1, 99} : send_resp(n)
      BY <1>2 DEF Finish, FirstAnswer
    <3>2. m.todo.seq \in Nat /\ sent \in [1..MaxCmd -> Nat]
      BY <1>0
    <3> QED BY <3>1, <3>2, SendsOne
  <2>a. /\ sent' \in [1..MaxCmd -> Nat]
        /\ \A n \in 1..MaxCmd : n # m.todo.seq => sent'[n] = sent[n]
        /\ m.todo.seq \in 1..MaxCmd => sent'[m.todo.seq] \in {sent[m.todo.seq], sent[m.todo.seq] + 1}
    <3>1. sent \in [1..MaxCmd -> Nat]
      BY <1>0
    <3>2. CASE sent' = sent
      BY <3>1, <3>2
    <3>3. CASE m.todo.seq \in 1..MaxCmd /\ sent' = [sent EXCEPT ![m.todo.seq] = sent[m.todo.seq] + 1]
      <4>1. sent[m.todo.seq] + 1 \in Nat
        BY <3>1, <3>3
      <4> QED BY <3>1, <3>3, <4>1
    <3> QED BY <2>1, <3>2, <3>3
  <2>b. Len(given) <= MaxCmd /\ \A n \in 1..MaxCmd : n > Len(given) => sent[n] = 0
    BY <1>0 DEF SentInv
  <2>2. SentInv'
    <3>1. \A n \in 1..MaxCmd : n > Len(given) => n # m.todo.seq
      BY <1>0
    <3> QED BY <1>0, <2>a, <2>b, <3>1 DEF SentInv
  <2>3. AnsweredOnce'
    <3> SUFFICES ASSUME NEW n \in 1..Len(given)
                 PROVE  sent'[n] <= IF given[n] = "ota" THEN 2 ELSE 1
      BY <1>0 DEF AnsweredOnce
    <3>1. n \in 1..MaxCmd /\ sent[n] \in Nat /\ sent[n] <= IF given[n] = "ota" THEN 2 ELSE 1
      BY <1>0, <2>b DEF AnsweredOnce
    <3>2. CASE n # m.todo.seq
      BY <2>a, <3>1, <3>2
    <3>3. CASE n = m.todo.seq
      <4>1. sent'[n] \in {sent[n], sent[n] + 1}
        BY <2>a, <3>1, <3>3
      <4>2. sent[n] = IF m.pc \in {"download", "flash"} THEN 1 ELSE 0
        BY <1>0, <3>3 DEF TodoInv
      <4>3. m.pc \in {"download", "flash"} => given[n] = "ota"
        BY <1>0, <3>3 DEF TodoInv
      <4> QED BY <4>1, <4>2, <4>3
    <3> QED BY <3>2, <3>3
  <2>4. ArrivedInv'
    <3>1. m'.todo.seq \in {m.todo.seq, 0}
      BY <1>2 DEF Finish, FirstAnswer, NoTodo
    <3>2. \A i \in 1..Len(net.down) : net.down[i].seq > 0 =>
            sent'[net.down[i].seq] = sent[net.down[i].seq] /\ m'.todo.seq # net.down[i].seq
      <4> TAKE i \in 1..Len(net.down)
      <4>1. /\ net.down[i].seq \in 0..Len(given)
            /\ net.down[i].seq > 0 => m.todo.seq # net.down[i].seq
        BY <1>0 DEF ArrivedInv
      <4>2. net.down[i].seq > 0 => net.down[i].seq \in 1..MaxCmd
        BY <1>0, <2>b, <4>1
      <4>3. net.down[i].seq > 0 => sent'[net.down[i].seq] = sent[net.down[i].seq]
        BY <2>a, <4>1, <4>2
      <4>4. net.down[i].seq > 0 => m'.todo.seq # net.down[i].seq
        BY <3>1, <4>1
      <4> QED BY <4>3, <4>4
    <3>3. \A i \in 1..Len(net.down) : i + 0 \in 1..Len(net.down) /\ net.down[i] = net.down[i + 0]
      BY <1>0
    <3> QED BY <1>0, <3>2, <3>3, ArrivedKept
  <2>5. TodoInv'
    <3>1. CASE Finish
      BY <1>0, <3>1 DEF Finish, TodoInv, NoTodo
    <3>2. CASE FirstAnswer
      BY <1>0, <3>2 DEF FirstAnswer, TodoInv, SentInv, send_resp
    <3> QED BY <1>2, <3>1, <3>2
  <2> QED BY <1>0, <2>2, <2>3, <2>4, <2>5 DEF CountInv
<1>3. CASE Finish /\ sent' = sent
  <2>1. SentInv' /\ AnsweredOnce'
    BY <1>0, <1>3 DEF SentInv, AnsweredOnce
  <2>2. TodoInv'
    BY <1>0, <1>3 DEF Finish, TodoInv, NoTodo
  <2>3. ArrivedInv'
    BY <1>0, <1>3 DEF Finish, ArrivedInv, NoTodo
  <2> QED BY <2>1, <2>2, <2>3 DEF CountInv
<1> QED BY <1>0, <1>1, <1>2, <1>3, HandlingAnswers

\* The connection ends, and what had arrived with it.
LEMMA CountClosed ==
  ASSUME CountInv, MainInv', given' = given, sent' = sent, net'.down = <<>>, m'.todo \in {m.todo, NoTodo},
         m'.pc \notin {"download", "flash"}, m.pc \notin {"download", "flash"} \/ m'.todo = NoTodo
  PROVE  CountInv'
<1>1. SentInv' /\ AnsweredOnce' /\ ArrivedInv'
  BY DEF CountInv, SentInv, AnsweredOnce, ArrivedInv
<1>2. TodoInv'
  <2>1. CASE m'.todo = NoTodo
    BY <2>1 DEF CountInv, MainInv, TodoInv, NoTodo
  <2>2. CASE m'.todo = m.todo /\ m.pc \notin {"download", "flash"}
    BY <2>2 DEF CountInv, TodoInv
  <2> QED BY <2>1, <2>2
<1> QED BY <1>1, <1>2 DEF CountInv

\* An answer arrives, and the answers given stay as they are.
LEMMA CountAnswer ==
  ASSUME CountInv, MainInv', given' = given, sent' = sent, m'.todo = m.todo,
         m'.pc \in {"download", "flash"} <=> m.pc \in {"download", "flash"},
         NEW x \in Messages, x.seq = 0, net'.down = Append(net.down, x)
  PROVE  CountInv'
<1>1. SentInv' /\ AnsweredOnce' /\ TodoInv'
  BY DEF CountInv, SentInv, AnsweredOnce, TodoInv
<1>2. net.down \in Seq(Messages) /\ given \in Seq(Cmds) /\ ArrivedInv
  BY DEF CountInv, MainInv
<1>3. ArrivedInv'
  BY <1>2, AnswerArrives
<1> QED BY <1>1, <1>3 DEF CountInv

\* main takes up the first message.
LEMMA CountRecv ==
  ASSUME CountInv, MainInv', Recv
  PROVE  CountInv'
<1>0. /\ net.down \in Seq(Messages) /\ DOMAIN net = {"up", "down", "owed", "acc"} /\ Len(net.down) \in Nat
      /\ DOMAIN m = {"pc", "disc", "faild", "fail", "idle", "todo", "wtd"}
      /\ SentInv /\ TodoInv /\ ArrivedInv /\ AnsweredOnce /\ net'.down \in Seq(Messages) /\ Len(given) \in Nat
  BY DEF CountInv, MainInv
<1>1. PICK k \in 1..Len(net.down) :
        /\ net' = [net EXCEPT !.down = SubSeq(@, k + 1, Len(@))]
        /\ m' = [m EXCEPT !.pc = "handle",
                          !.todo = [net.down[1] EXCEPT !.c = Branch(Took(k)), !.of = net.down[1].c,
                                      !.shape = IF k > 1 /\ Branch(Took(k)) \in {"gpiotiming", "gpiotype"} THEN "garbled" ELSE @]]
  BY Zenon DEF Recv
<1>n. k \in Nat
  BY <1>0
<1>2. given' = given /\ sent' = sent
  BY DEF Recv, envVars
<1>3. \A i \in 1..Len(net'.down) : i + k \in 1..Len(net.down) /\ net'.down[i] = net.down[i + k]
  BY <1>0, <1>1, Taken
<1>4. 1 \in 1..Len(net.down) /\ net.down[1] \in Messages
  BY <1>0, <1>1
<1>5. /\ m'.pc = "handle" /\ DOMAIN m'.todo = {"c", "of", "shape", "seq", "val", "auto"}
      /\ m'.todo.seq = net.down[1].seq /\ m'.todo.of = net.down[1].c
  BY <1>0, <1>1, <1>4 DEF Messages
<1>6. TodoInv'
  BY <1>0, <1>2, <1>4, <1>5 DEF TodoInv, ArrivedInv
<1>7. ArrivedInv'
  <2>1. ASSUME NEW i \in 1..Len(net'.down), net'.down[i].seq > 0
        PROVE  m'.todo.seq # net'.down[i].seq
    <3>1. i + k \in 1..Len(net.down) /\ net'.down[i] = net.down[i + k] /\ i + k # 1
      BY <1>0, <1>1, <1>3
    <3>2. net.down[1].seq = net.down[i + k].seq => net.down[i + k].seq = 0
      BY <1>0, <1>4, <3>1 DEF ArrivedInv
    <3> QED BY <1>5, <2>1, <3>1, <3>2
  <2> QED BY <1>0, <1>n, <1>2, <1>3, <2>1, ArrivedKept
<1>8. SentInv' /\ AnsweredOnce'
  BY <1>0, <1>2 DEF SentInv, AnsweredOnce
<1> QED BY <1>6, <1>7, <1>8 DEF CountInv

\* The server gives the next command.
LEMMA CountCommand ==
  ASSUME CountInv, MainInv', Command
  PROVE  CountInv'
<1>0. /\ net.down \in Seq(Messages) /\ DOMAIN net = {"up", "down", "owed", "acc"} /\ Len(net.down) \in Nat
      /\ given \in Seq(Cmds) /\ Len(given) \in Nat /\ SentInv /\ TodoInv /\ ArrivedInv /\ AnsweredOnce
  BY DEF CountInv, MainInv
<1>1. PICK c \in Cmds, s \in Shapes, v \in {0, 1}, a \in BOOLEAN :
        /\ given' = Append(given, c)
        /\ net' = [net EXCEPT !.down = Append(@, [c |-> c, of |-> c, shape |-> s, seq |-> Len(given) + 1, val |-> v, auto |-> a])]
  BY CommandGives, Zenon
<1> DEFINE x == [c |-> c, of |-> c, shape |-> s, seq |-> Len(given) + 1, val |-> v, auto |-> a]
<1>2. x \in Messages /\ x.seq = Len(given) + 1 /\ x.c = c
  BY <1>0 DEF Messages
<1> HIDE DEF x
<1>3. net'.down = Append(net.down, x)
  BY <1>0, <1>1 DEF x
<1>4. m' = m /\ sent' = sent /\ Len(given) < MaxCmd
  BY DEF Command
<1>5. /\ given' \in Seq(Cmds) /\ Len(given') = Len(given) + 1 /\ given'[Len(given) + 1] = c
      /\ \A n \in 1..Len(given) : given'[n] = given[n]
  BY <1>0, <1>1, AppendProperties
<1>6. MaxCmd \in Nat /\ sent[Len(given) + 1] = 0 /\ \A n \in 1..MaxCmd : sent[n] \in Nat
  BY <1>0, <1>4, BoundAssumption DEF SentInv
<1>7. SentInv'
  BY <1>0, <1>4, <1>5, <1>6 DEF SentInv
<1>8. TodoInv'
  BY <1>0, <1>4, <1>5 DEF TodoInv
<1>9. AnsweredOnce'
  BY <1>0, <1>4, <1>5, <1>6 DEF AnsweredOnce
<1>10. ArrivedInv'
  <2>1. /\ Len(net'.down) = Len(net.down) + 1 /\ net'.down[Len(net'.down)] = x
        /\ \A i \in 1..Len(net'.down) : i # Len(net'.down) => i \in 1..Len(net.down) /\ net'.down[i] = net.down[i]
    BY <1>0, <1>2, <1>3, Arriving
  <2>2. ASSUME NEW i \in 1..Len(net'.down)
        PROVE  /\ net'.down[i].seq \in 0..Len(given')
               /\ net'.down[i].seq > 0 => /\ given'[net'.down[i].seq] = net'.down[i].c
                                         /\ sent'[net'.down[i].seq] = 0
                                         /\ m'.todo.seq # net'.down[i].seq
    <3>1. CASE i = Len(net'.down)
      BY <1>0, <1>2, <1>4, <1>5, <1>6, <2>1, <3>1 DEF TodoInv
    <3>2. CASE i # Len(net'.down)
      <4>1. i \in 1..Len(net.down) /\ net'.down[i] = net.down[i]
        BY <2>1, <3>2
      <4> QED BY <1>0, <1>4, <1>5, <4>1 DEF ArrivedInv
    <3> QED BY <3>1, <3>2
  <2>3. ASSUME NEW i \in 1..Len(net'.down), NEW j \in 1..Len(net'.down), net'.down[i].seq = net'.down[j].seq, i # j
        PROVE  net'.down[i].seq = 0
    <3>1. \A n \in 1..Len(net.down) : net.down[n].seq # Len(given) + 1
      BY <1>0 DEF ArrivedInv
    <3>2. i # Len(net'.down) /\ j # Len(net'.down)
      BY <1>2, <2>1, <2>3, <3>1
    <3>3. \A n, o \in 1..Len(net.down) : net.down[n].seq = net.down[o].seq /\ n # o => net.down[n].seq = 0
      BY <1>0 DEF ArrivedInv
    <3> QED BY <2>1, <2>3, <3>2, <3>3
  <2> QED BY <2>2, <2>3 DEF ArrivedInv
<1> QED BY <1>7, <1>8, <1>9, <1>10 DEF CountInv

LEMMA CountStep ==
  ASSUME CountInv, [Next]_vars
  PROVE  CountInv'
<1>0. /\ MainInv' /\ DOMAIN net = {"up", "down", "owed", "acc"} /\ net.down \in Seq(Messages)
      /\ DOMAIN m = {"pc", "disc", "faild", "fail", "idle", "todo", "wtd"}
  BY MainStep DEF CountInv, MainInv
<1>s. \A i \in 1..Len(net.down) : i + 0 \in 1..Len(net.down) /\ net.down[i] = net.down[i + 0]
  BY <1>0
<1>k. ASSUME given' = given, sent' = sent, net'.down = net.down, m'.todo = m.todo,
             m'.pc \in {"download", "flash"} <=> m.pc \in {"download", "flash"}
      PROVE  CountInv'
  <2>1. 0 \in Nat /\ \A i \in 1..Len(net'.down) : i + 0 \in 1..Len(net.down) /\ net'.down[i] = net.down[i + 0]
    BY <1>s, <1>k
  <2> QED BY <1>0, <1>k, <2>1, CountQuiet
<1>1. CASE Handling
  BY <1>0, <1>1, HandlingCounts
<1>2. CASE LoopTop
  <2>1. given' = given /\ sent' = sent /\ m.pc = "top"
    BY <1>2 DEF LoopTop, envVars
  <2>2. CASE m.fail >= FailLimit
    <3>1. m' = [m EXCEPT !.pc = "exit"] /\ net' = Closed
      BY <1>2, <2>2 DEF LoopTop
    <3> QED BY <1>0, <2>1, <3>1, CountClosed DEF Closed
  <2>3. CASE ~(m.fail >= FailLimit)
    <3>1. net' = net
      BY <1>2, <2>3 DEF LoopTop
    <3>2. \E pc \in {"disconn", "connect", "login", "wait"} :
            m' = [m EXCEPT !.wtd = 1, !.faild = m.faild \/ m.disc, !.pc = pc]
      BY <1>2, <2>3 DEF LoopTop
    <3>3. m'.todo = m.todo /\ m'.pc \in {"disconn", "connect", "login", "wait"}
      BY <1>0, <3>2
    <3> QED BY <1>k, <2>1, <3>1, <3>3
  <2> QED BY <2>2, <2>3
<1>3. CASE init_connect
  <2>1. given' = given /\ sent' = sent /\ m.pc = "connect" /\ (Connected(TRUE) \/ Connected(FALSE))
    BY <1>3 DEF init_connect, envVars
  <2>2. m'.todo = m.todo /\ m'.pc \in {"login", "top"}
    BY <1>0, <2>1 DEF Connected
  <2>3. net' = net \/ net'.down = <<>>
    BY <1>3 DEF init_connect, Closed
  <2>4. CASE net'.down = <<>>
    BY <1>0, <2>1, <2>2, <2>4, CountClosed
  <2>5. CASE net' = net
    BY <1>k, <2>1, <2>2, <2>5
  <2> QED BY <2>3, <2>4, <2>5
<1>4. CASE send_login
  <2>1. given' = given /\ sent' = sent /\ m.pc = "login" /\ net'.down = net.down
    BY <1>0, <1>4 DEF send_login, envVars
  <2>2. m'.todo = m.todo /\ m'.pc \in {"answer", "disconn"}
    BY <1>0, <1>4 DEF send_login, LoggedIn
  <2> QED BY <1>k, <2>1, <2>2
<1>5. CASE LoginAnswer
  <2>1. given' = given /\ sent' = sent /\ m.pc = "answer" /\ (LoggedIn(1) \/ LoggedIn(-1))
    BY <1>5 DEF LoginAnswer
  <2>2. m'.todo = m.todo /\ m'.pc \in {"wait", "top"}
    <3>1. \/ m' = [m EXCEPT !.pc = "wait", !.faild = FALSE, !.idle = 0]
          \/ m' = [m EXCEPT !.pc = "top", !.fail = @ + 1, !.wtd = 0]
      BY <2>1 DEF LoggedIn
    <3> QED BY <1>0, <3>1
  <2>3. \/ net' = net
        \/ \E k \in 1..Len(net.down) : net' = [net EXCEPT !.down = SubSeq(@, k + 1, Len(@))]
    BY <1>5, Zenon DEF LoginAnswer
  <2>4. CASE net' = net
    BY <1>k, <2>1, <2>2, <2>4
  <2>5. CASE \E k \in 1..Len(net.down) : net' = [net EXCEPT !.down = SubSeq(@, k + 1, Len(@))]
    <3>1. PICK k \in 1..Len(net.down) : net' = [net EXCEPT !.down = SubSeq(@, k + 1, Len(@))]
      BY <2>5
    <3>2. k \in Nat
      BY <1>0
    <3>3. \A i \in 1..Len(net'.down) : i + k \in 1..Len(net.down) /\ net'.down[i] = net.down[i + k]
      BY <1>0, <3>1, Taken
    <3> QED BY <1>0, <2>1, <2>2, <3>2, <3>3, CountQuiet
  <2> QED BY <2>3, <2>4, <2>5
<1>6. CASE Wait
  <2>1. given' = given /\ sent' = sent /\ m.pc = "wait" /\ net' = net /\ m'.todo = m.todo
        /\ m'.pc \in {"disconn", "top", "report", "recv"}
    BY <1>0, <1>6 DEF Wait, envVars
  <2> QED BY <1>k, <2>1
<1>7. CASE send_board_info
  <2>1. given' = given /\ sent' = sent /\ m.pc = "report" /\ m'.todo = m.todo /\ m'.pc \in {"disconn", "top"}
    BY <1>0, <1>7 DEF send_board_info, envVars
  <2> DEFINE x == [NoTodo EXCEPT !.c = "respcode", !.shape = "good"]
  <2>2. net'.down = net.down \/ net'.down = Append(net.down, x)
    BY <1>0, <1>7 DEF send_board_info
  <2>3. x \in Messages /\ x.seq = 0
    BY AnswersAreMessages DEF Shapes, NoTodo
  <2> HIDE DEF x
  <2>4. CASE net'.down = net.down
    BY <1>k, <2>1, <2>4
  <2>5. CASE net'.down = Append(net.down, x)
    BY <1>0, <2>1, <2>3, <2>5, CountAnswer
  <2> QED BY <2>2, <2>4, <2>5
<1>8. CASE Recv
  BY <1>0, <1>8, CountRecv
<1>9. CASE DISCONN
  <2>1. given' = given /\ sent' = sent /\ m.pc = "disconn" /\ net'.down = <<>> /\ m'.todo = m.todo /\ m'.pc = "top"
    BY <1>0, <1>9 DEF DISCONN, Closed, envVars
  <2> QED BY <1>0, <2>1, CountClosed
<1>10. CASE Tty \/ Gpio \/ UNCHANGED vars
  <2>1. m' = m /\ net' = net /\ given' = given /\ sent' = sent
    BY <1>10
       DEF Tty, TtyTop, init_com_dev, TtyRead, TtyAgain, TtySend, Gpio, GpioStart, read_timing_cfg, detect_timing_flag,
           gpio_reverse, mainVars, envVars, vars
  <2> QED BY <1>k, <2>1
<1>11. CASE Answer
  <2>1. given' = given /\ sent' = sent /\ m' = m
    BY <1>11 DEF Answer, envVars
  <2>2. PICK ok \in BOOLEAN :
          net' = [net EXCEPT !.owed = @ - 1, !.acc = @ \/ ok,
                             !.down = Append(@, [NoTodo EXCEPT !.c = "respcode", !.shape = IF ok THEN "good" ELSE "nobody"])]
    BY <1>11 DEF Answer
  <2> DEFINE x == [NoTodo EXCEPT !.c = "respcode", !.shape = IF ok THEN "good" ELSE "nobody"]
  <2>3. x \in Messages /\ x.seq = 0
    BY AnswersAreMessages DEF Shapes, NoTodo
  <2> HIDE DEF x
  <2>4. net'.down = Append(net.down, x)
    BY <1>0, <2>2 DEF x
  <2> QED BY <1>0, <2>1, <2>3, <2>4, CountAnswer
<1>12. CASE Command
  BY <1>0, <1>12, CountCommand
<1>13. CASE Upset
  <2>1. given' = given /\ sent' = sent /\ m' = m /\ net'.down = net.down
    BY <1>0, <1>13 DEF Upset
  <2> QED BY <1>k, <2>1
<1>14. CASE Restart
  <2>1. given' = given /\ sent' = sent /\ m'.todo = NoTodo /\ m'.pc = "top" /\ net'.down = <<>>
    BY <1>14 DEF Restart, MainStart, Closed
  <2> QED BY <1>0, <2>1, CountClosed
<1> QED
  BY <1>1, <1>2, <1>3, <1>4, <1>5, <1>6, <1>7, <1>8, <1>9, <1>10, <1>11, <1>12, <1>13, <1>14 DEF Next, Main, Handling

\* However many commands the server gives, over however many connections, and whatever messages arrive
\* together: none is answered twice, an update at most twice (main2.c, handle_msg and handle_ota).
THEOREM AnsweredAtMostOnce == Spec => []AnsweredOnce
<1>1. CountInv => AnsweredOnce
  BY DEF CountInv
<1> QED BY CountInit, CountStep, <1>1, PTL DEF Spec


-----------------------------------------------------------------------------
(* The position: what the modem's sentences are made of *)

Words == {Cycle[n].name : n \in 1..Len(Cycle)} \cup {Cycle[n].flag : n \in 1..Len(Cycle)} \cup {"lat", "lon", "blank", "zero", "NULL"}
Value == [what : Words, of : Nat]
Position == [latitude : Value, longitude : Value, broken : BOOLEAN]
Names == {"latitude", "longitude", "signal"}
Entry == [name : Names, value : Value]
Buckets == {Bucket[n] : n \in DOMAIN Bucket}
Tables == [Buckets -> Seq(Entry)]

-----------------------------------------------------------------------------
(* The hash table *)

\* A non-empty set of naturals has a least element.
LEMMA LeastNatural ==
  ASSUME NEW T \in SUBSET Nat, T # {}
  PROVE  \E x \in T : \A y \in T : x <= y
  <1> DEFINE Less == OpToRel(<, Nat)
  <1>1. IsWellFoundedOn(Less, Nat) BY NatLessThanWellFounded
  <1>2. \A x \in Nat, y \in Nat : y < x => <<y, x>> \in Less BY DEF OpToRel
  <1> HIDE DEF Less
  <1>3. PICK x \in T : \A y \in T : ~(<<y, x>> \in Less) BY <1>1, WFMin
  <1>4. ASSUME NEW y \in T PROVE x <= y
    <2>1. x \in Nat /\ y \in Nat /\ ~(y < x) BY <1>2, <1>3
    <2> QED BY <2>1
  <1> QED BY <1>4

LEMMA GetFirst ==
  ASSUME NEW t, NEW name, NEW c \in Seq(Entry), t[Bucket[name]] = c, NEW i \in 1..Len(c),
         c[i].name = name, \A j \in 1..(i - 1) : c[j].name # name
  PROVE  hash_nvram_get(t, name) = c[i].value
  <1>1. i \in Found(t, name) BY DEF Found
  <1>2. ASSUME NEW j \in Found(t, name) PROVE i <= j
    <2>1. j \in 1..Len(c) /\ c[j].name = name BY DEF Found
    <2> QED BY <2>1
  <1>3. ASSUME NEW k \in Found(t, name), \A j \in Found(t, name) : k <= j PROVE k = i
    <2>1. k <= i /\ i <= k BY <1>1, <1>2, <1>3
    <2>2. k \in Nat /\ i \in Nat BY DEF Found
    <2> QED BY <2>1, <2>2
  <1>4. (CHOOSE k \in Found(t, name) : \A j \in Found(t, name) : k <= j) = i BY <1>1, <1>2, <1>3
  <1> QED BY <1>1, <1>4 DEF hash_nvram_get

LEMMA GetNone ==
  ASSUME NEW t, NEW name, NEW c, t[Bucket[name]] = c, \A j \in 1..Len(c) : c[j].name # name
  PROVE  hash_nvram_get(t, name) = Null
  BY DEF hash_nvram_get, Found

\* Either the name is nowhere in its chain, or there is a first place.
LEMMA FirstPlace ==
  ASSUME NEW c \in Seq(Entry), NEW name
  PROVE  \/ \A j \in 1..Len(c) : c[j].name # name
         \/ \E i \in 1..Len(c) : c[i].name = name /\ \A j \in 1..(i - 1) : c[j].name # name
  <1> DEFINE F == {i \in 1..Len(c) : c[i].name = name}
  <1>1. F \subseteq Nat OBVIOUS
  <1>2. CASE F = {} BY <1>2
  <1>3. CASE F # {}
    <2>1. PICK i \in F : \A j \in F : i <= j BY <1>1, <1>3, LeastNatural
    <2>2. i \in 1..Len(c) /\ c[i].name = name OBVIOUS
    <2>3. ASSUME NEW j \in 1..(i - 1) PROVE c[j].name # name
      <3>1. j \in 1..Len(c) /\ ~(i <= j) BY <2>2
      <3> QED BY <2>1, <3>1
    <2> QED BY <2>2, <2>3
  <1> QED BY <1>2, <1>3

\* What is set is read, and nothing else changes.
LEMMA SetGet ==
  ASSUME NEW t \in Tables, NEW name \in Names, NEW v \in Value
  PROVE  /\ hash_nvram_set(t, name, v) \in Tables
         /\ hash_nvram_get(hash_nvram_set(t, name, v), name) = v
         /\ \A other \in Names \ {name} : hash_nvram_get(hash_nvram_set(t, name, v), other) = hash_nvram_get(t, other)
  <1> DEFINE b == Bucket[name]
             c == t[b]
             t2 == hash_nvram_set(t, name, v)
  <1>1. \A n \in Names : Bucket[n] \in Buckets BY AgpsAssumption DEF Buckets, Names
  <1>2. b \in Buckets /\ c \in Seq(Entry) /\ Len(c) \in Nat BY <1>1 DEF Tables
  <1>3. CASE Found(t, name) = {}
    <2> DEFINE e == [name |-> name, value |-> v]
    <2>1. e \in Entry BY DEF Entry
    <2>2. t2 = [t EXCEPT ![b] = <<e>> \o c] BY <1>3 DEF hash_nvram_set
    <2>3. <<e>> \o c \in Seq(Entry) /\ Len(<<e>> \o c) = Len(c) + 1 /\ (<<e>> \o c)[1] = e
          /\ \A i \in 1..Len(c) : (<<e>> \o c)[i + 1] = c[i]
      BY <1>2, <2>1
    <2>4. t2 \in Tables /\ t2[b] = <<e>> \o c /\ \A k \in Buckets \ {b} : t2[k] = t[k] BY <1>2, <2>2, <2>3 DEF Tables
    <2>5. hash_nvram_get(t2, name) = v
      <3>1. t2[b] \in Seq(Entry) /\ 1 \in 1..Len(t2[b]) /\ t2[b][1].name = name /\ t2[b][1].value = v
        BY <1>2, <2>1, <2>3, <2>4
      <3> HIDE DEF t2
      <3> QED BY <3>1, GetFirst
    <2>6. ASSUME NEW other \in Names \ {name} PROVE hash_nvram_get(t2, other) = hash_nvram_get(t, other)
      <3>1. CASE Bucket[other] # b
        <4>1. t2[Bucket[other]] = t[Bucket[other]] BY <1>1, <2>4, <3>1
        <4> QED BY <4>1 DEF hash_nvram_get, Found
      <3>2. CASE Bucket[other] = b
        <4>3. t[Bucket[other]] = c /\ t2[Bucket[other]] = t2[b] BY <3>2
        <4> HIDE DEF b, c
        <4>1. CASE \A j \in 1..Len(c) : c[j].name # other
          <5>1. ASSUME NEW j \in 1..Len(t2[b]) PROVE t2[b][j].name # other
            <6>1. CASE j = 1 BY <2>3, <2>4, <6>1
            <6>2. CASE j # 1
              <7>1. j - 1 \in 1..Len(c) /\ (j - 1) + 1 = j BY <1>2, <2>3, <2>4, <6>2
              <7>2. t2[b][j] = c[j - 1] BY <2>3, <2>4, <7>1
              <7> QED BY <4>1, <7>1, <7>2
            <6> QED BY <6>1, <6>2
          <5>2. hash_nvram_get(t, other) = Null BY <4>1, <4>3, GetNone
          <5> HIDE DEF t2
          <5>3. hash_nvram_get(t2, other) = Null BY <4>3, <5>1, GetNone
          <5> QED BY <5>2, <5>3
        <4>2. ASSUME NEW i \in 1..Len(c), c[i].name = other, \A j \in 1..(i - 1) : c[j].name # other
              PROVE  hash_nvram_get(t2, other) = hash_nvram_get(t, other)
          <5>0. c \in Seq(Entry) /\ i \in 1..Len(c) /\ c[i].name = other BY <1>2, <4>2
          <5>6. t[Bucket[other]] = c BY <4>3
          <5>1. hash_nvram_get(t, other) = c[i].value BY <4>2, <5>0, <5>6, GetFirst
          <5>2. t2[b] \in Seq(Entry) /\ i + 1 \in 1..Len(t2[b]) /\ t2[b][i + 1] = c[i] BY <1>2, <2>3, <2>4
          <5>3. ASSUME NEW j \in 1..((i + 1) - 1) PROVE t2[b][j].name # other
            <6>1. CASE j = 1 BY <2>3, <2>4, <6>1
            <6>2. CASE j # 1
              <7>1. j - 1 \in 1..(i - 1) /\ j - 1 \in 1..Len(c) /\ (j - 1) + 1 = j BY <1>2, <6>2
              <7>2. t2[b][j] = c[j - 1] BY <2>3, <2>4, <7>1
              <7> QED BY <4>2, <7>1, <7>2
            <6> QED BY <6>1, <6>2
          <5> DEFINE c3 == t2[b]
                     k == i + 1
          <5>4. t2[Bucket[other]] = c3 /\ c3 \in Seq(Entry) /\ k \in 1..Len(c3) /\ c3[k].name = other /\ c3[k].value = c[i].value
                /\ \A j \in 1..(k - 1) : c3[j].name # other
            BY <4>3, <5>0, <5>2, <5>3
          <5> HIDE DEF t2, c3, k
          <5>5. hash_nvram_get(t2, other) = c3[k].value BY <5>4, GetFirst
          <5> QED BY <5>1, <5>4, <5>5
        <4> QED BY ZenonT(60), <1>2, <4>1, <4>2, FirstPlace
      <3> QED BY <3>1, <3>2
    <2> QED BY <2>4, <2>5, <2>6
  <1>4. CASE Found(t, name) # {}
    <2> DEFINE c2 == [i \in 1..Len(c) |-> IF i \in Found(t, name) THEN [c[i] EXCEPT !.value = v] ELSE c[i]]
    <2>1. t2 = [t EXCEPT ![b] = c2] BY <1>4 DEF hash_nvram_set
    <2>2. ASSUME NEW i \in 1..Len(c)
          PROVE  c2[i] \in Entry /\ c2[i].name = c[i].name /\ c2[i].value = (IF c[i].name = name THEN v ELSE c[i].value)
      <3>1. c[i] \in Entry BY <1>2
      <3>2. i \in Found(t, name) <=> c[i].name = name BY DEF Found
      <3> QED BY <3>1, <3>2 DEF Entry
    <2>3. c2 \in Seq(Entry) /\ Len(c2) = Len(c)
      <3> HIDE DEF c
      <3>1. \A i \in 1..Len(c) : c2[i] \in Entry BY <2>2
      <3>2. c2 \in [1..Len(c) -> Entry] BY <3>1
      <3> QED BY <1>2, <3>2
    <2> HIDE DEF c2
    <2>4. t2 \in Tables /\ t2[b] = c2 /\ \A k \in Buckets \ {b} : t2[k] = t[k] BY <1>2, <2>1, <2>3 DEF Tables
    <2> HIDE DEF t2
    <2>5. hash_nvram_get(t2, name) = v
      <3>0. ~(\A j \in 1..Len(c) : c[j].name # name) BY <1>4 DEF Found
      <3>1. PICK i \in 1..Len(c) : c[i].name = name /\ \A j \in 1..(i - 1) : c[j].name # name
        <4> HIDE DEF c
        <4> QED BY <1>2, <3>0, FirstPlace
      <3>2. i \in 1..Len(t2[b]) /\ t2[b][i].name = name /\ t2[b][i].value = v BY <2>2, <2>3, <2>4, <3>1
      <3>3. ASSUME NEW j \in 1..(i - 1) PROVE t2[b][j].name # name
        <4>1. j \in 1..Len(c) /\ c[j].name # name BY <1>2, <3>1
        <4> HIDE DEF c
        <4> QED BY <2>2, <2>4, <4>1
      <3>4. t2[b] \in Seq(Entry) BY <2>3, <2>4
      <3> QED BY <3>2, <3>3, <3>4, GetFirst
    <2>6. ASSUME NEW other \in Names \ {name} PROVE hash_nvram_get(t2, other) = hash_nvram_get(t, other)
      <3>1. CASE Bucket[other] # b
        <4>1. t2[Bucket[other]] = t[Bucket[other]] BY <1>1, <2>4, <3>1
        <4> QED BY <4>1 DEF hash_nvram_get, Found
      <3>2. CASE Bucket[other] = b
        <4>3. t[Bucket[other]] = c /\ t2[Bucket[other]] = t2[b] BY <3>2
        <4> HIDE DEF b, c
        <4>1. CASE \A j \in 1..Len(c) : c[j].name # other
          <5>1. \A j \in 1..Len(t2[b]) : t2[b][j].name # other BY <2>2, <2>3, <2>4, <4>1
          <5>2. hash_nvram_get(t, other) = Null BY <4>1, <4>3, GetNone
          <5>3. hash_nvram_get(t2, other) = Null BY <4>3, <5>1, GetNone
          <5> QED BY <5>2, <5>3
        <4>2. ASSUME NEW i \in 1..Len(c), c[i].name = other, \A j \in 1..(i - 1) : c[j].name # other
              PROVE  hash_nvram_get(t2, other) = hash_nvram_get(t, other)
          <5>0. c \in Seq(Entry) /\ t[Bucket[other]] = c BY <1>2, <4>3
          <5>1. hash_nvram_get(t, other) = c[i].value BY <4>2, <5>0, GetFirst
          <5>2. t2[b] \in Seq(Entry) /\ i \in 1..Len(t2[b]) /\ t2[b][i].name = other /\ t2[b][i].value = c[i].value
            BY <2>2, <2>3, <2>4, <4>2
          <5>3. \A j \in 1..(i - 1) : t2[b][j].name # other BY <2>2, <2>4, <4>2
          <5>4. hash_nvram_get(t2, other) = t2[b][i].value BY <2>3, <2>4, <4>3, <5>2, <5>3, GetFirst
          <5> QED BY <5>1, <5>2, <5>4
        <4> QED BY ZenonT(60), <1>2, <4>1, <4>2, FirstPlace
      <3> QED BY <3>1, <3>2
    <2> QED BY <2>4, <2>5, <2>6 DEF t2
  <1> QED BY <1>3, <1>4

\* A name that is not there reads as an empty value.
LEMMA ReadsValue ==
  ASSUME NEW t \in Tables, NEW name \in Names
  PROVE  nvram_get(t, name) \in Value
  <1> DEFINE c == t[Bucket[name]]
  <1>1. c \in Seq(Entry) BY AgpsAssumption DEF Tables, Buckets, Names
  <1>2. Blank \in Value BY DEF Blank, Value, Words
  <1>3. CASE \A j \in 1..Len(c) : c[j].name # name
    <2>1. hash_nvram_get(t, name) = Null BY <1>3, GetNone
    <2> QED BY <1>2, <2>1 DEF nvram_get
  <1>4. CASE \E i \in 1..Len(c) : c[i].name = name /\ \A j \in 1..(i - 1) : c[j].name # name
    <2> HIDE DEF c
    <2>1. PICK i \in 1..Len(c) : c[i].name = name /\ \A j \in 1..(i - 1) : c[j].name # name BY <1>4
    <2>2. hash_nvram_get(t, name) = c[i].value BY <1>1, <2>1, GetFirst DEF c
    <2>3. c[i] \in Entry BY <1>1
    <2>4. c[i].value \in Value BY <2>3 DEF Entry
    <2> QED BY <1>2, <2>2, <2>4 DEF nvram_get
  <1> HIDE DEF c
  <1> QED BY <1>1, <1>3, <1>4, FirstPlace

-----------------------------------------------------------------------------
(* The invariant *)

\* The line holds the first k fields of the sentence n.
IsSentence(line, n, k) == Len(line) = k /\ \A i \in 1..k : line[i] = Field(n, i)

Whole(pos) ==
  \/ pos.broken
  \/ pos.latitude = Blank /\ pos.longitude = Blank
  \/ pos.latitude.what = "lat" /\ pos.longitude.what = "lon" /\ pos.latitude.of = pos.longitude.of

AgTypeInv ==
  /\ src \in [plugged : BOOLEAN, n : 1..Len(Cycle), k : 1..5]
  /\ ag \in [pc : {"type", "top", "parse", "write"}, open : BOOLEAN, line : Seq(Value), valid : BOOLEAN, limit : Nat]
  /\ file \in [full : BOOLEAN, pos : Position] /\ tab \in Tables /\ rep \in Position /\ broken \in BOOLEAN

\* Unless the line was interrupted, what it holds since the last '$' is the sentence being sent, up to
\* the field that comes next, and at its end the whole of one sentence.
LineInv ==
  ~broken /\ ag.valid =>
    /\ ag.pc = "top" => src.k \in 2..5 /\ IsSentence(ag.line, src.n, src.k - 1)
    /\ ag.pc \in {"parse", "write"} => \E n \in 1..Len(Cycle) : IsSentence(ag.line, n, 4)

\* Where that is said nothing of: before the first '$', while a line is looked at, without the modem.
SideInv ==
  /\ ag.pc = "type" => ~ag.valid
  /\ ag.pc \in {"parse", "write"} => ag.valid
  /\ ~src.plugged => broken

\* A file that is complete gives a whole position, and the table holds what was reported last.
FileInv == file.full => Whole(file.pos)
TabInv == nvram_get(tab, "latitude") = rep.latitude /\ nvram_get(tab, "longitude") = rep.longitude

PosInv == AgTypeInv /\ LineInv /\ SideInv /\ FileInv /\ TabInv /\ PositionWhole

LEMMA PosQuiet ==
  ASSUME PosInv, UNCHANGED agVars PROVE PosInv'
  BY DEF PosInv, agVars, AgTypeInv, LineInv, SideInv, FileInv, TabInv, PositionWhole

LEMMA BlankPosition == Blank \in Value /\ Null # Blank /\ NoPos \in Position /\ Whole(NoPos)
  BY DEF Blank, Null, Value, Words, NoPos, Position, Whole

\* An empty table reads as empty values.
LEMMA EmptyTable == Empty \in Tables /\ nvram_get(Empty, "latitude") = Blank /\ nvram_get(Empty, "longitude") = Blank
  <1>1. Empty \in Tables
    <2>1. \A b \in Buckets : <<>> \in Seq(Entry) OBVIOUS
    <2> QED BY <2>1 DEF Empty, Tables, Buckets
  <1>2. ASSUME NEW name \in {"latitude", "longitude"} PROVE nvram_get(Empty, name) = Blank
    <2>1. Empty[Bucket[name]] = <<>> BY AgpsAssumption DEF Empty
    <2>2. hash_nvram_get(Empty, name) = Null BY <2>1, GetNone
    <2> QED BY <2>2 DEF nvram_get
  <1> QED BY <1>1, <1>2

LEMMA FieldIsValue ==
  ASSUME NEW n \in 1..Len(Cycle), NEW k \in 1..4
  PROVE  Field(n, k) \in Value
  BY DEF Field, Value, Words

LEMMA PosInit == AgInit => PosInv
  <1> SUFFICES ASSUME AgInit PROVE PosInv OBVIOUS
  <1>1. 1 \in 1..Len(Cycle) BY AgpsAssumption
  <1>2. AgTypeInv
    <2>1. <<>> \in Seq(Value) OBVIOUS
    <2>2. src \in [plugged : BOOLEAN, n : 1..Len(Cycle), k : 1..5] BY <1>1 DEF AgInit
    <2>3. ag \in [pc : {"type", "top", "parse", "write"}, open : BOOLEAN, line : Seq(Value), valid : BOOLEAN, limit : Nat]
      BY <2>1 DEF AgInit, Start
    <2>4. file \in [full : BOOLEAN, pos : Position] BY BlankPosition DEF AgInit, NoInfo
    <2> QED BY <2>2, <2>3, <2>4, EmptyTable, BlankPosition DEF AgInit, AgTypeInv
  <1>3. LineInv /\ SideInv /\ FileInv BY DEF AgInit, Start, NoInfo, LineInv, SideInv, FileInv
  <1>4. TabInv BY EmptyTable DEF AgInit, TabInv, NoPos
  <1>5. PositionWhole BY BlankPosition DEF AgInit, PositionWhole, Whole
  <1> QED BY <1>2, <1>3, <1>4, <1>5 DEF PosInv

-----------------------------------------------------------------------------
(* The steps *)

\* What the thread does leaves the table and the report alone.
LEMMA ThreadStep ==
  ASSUME PosInv, AgTypeInv', LineInv', SideInv', FileInv', UNCHANGED <<tab, rep>>
  PROVE  PosInv'
  BY DEF PosInv, TabInv, PositionWhole

LEMMA LineTypes ==
  ASSUME PosInv
  PROVE  /\ src.plugged \in BOOLEAN /\ src.n \in 1..Len(Cycle) /\ src.k \in 1..5
         /\ ag.open \in BOOLEAN /\ ag.line \in Seq(Value) /\ ag.valid \in BOOLEAN /\ ag.limit \in Nat
         /\ Len(Cycle) \in Nat
  BY AgpsAssumption DEF PosInv, AgTypeInv

LEMMA WaitTypeStep == ASSUME PosInv, WaitType PROVE PosInv'
  <1>1. AgTypeInv' BY DEF PosInv, AgTypeInv, WaitType
  <1>2. ag'.pc = "top" /\ ag'.valid = ag.valid /\ ag.pc = "type" /\ UNCHANGED <<src, file, tab, rep, broken>>
    BY DEF PosInv, AgTypeInv, WaitType
  <1>3. ~ag.valid BY <1>2 DEF PosInv, SideInv
  <1>4. LineInv' /\ SideInv' /\ FileInv' BY <1>2, <1>3 DEF PosInv, LineInv, SideInv, FileInv
  <1> QED BY <1>1, <1>2, <1>4, ThreadStep

LEMMA OpenStep == ASSUME PosInv, open_gps_com \/ ReadError PROVE PosInv'
  <1>0. UNCHANGED <<src, file, tab, rep, broken>> /\ ag.pc = "top" BY DEF open_gps_com, ReadError
  <1>1. AgTypeInv'
    <2>1. CASE open_gps_com BY <1>0, <2>1 DEF PosInv, AgTypeInv, open_gps_com
    <2>2. CASE ReadError BY <1>0, <2>2 DEF PosInv, AgTypeInv, ReadError
    <2> QED BY <2>1, <2>2
  <1>2. ag'.pc = "top" /\ ag'.valid = ag.valid /\ ag'.line = ag.line
    <2>1. CASE open_gps_com BY <2>1 DEF PosInv, AgTypeInv, open_gps_com
    <2>2. CASE ReadError BY <2>2 DEF PosInv, AgTypeInv, ReadError
    <2> QED BY <2>1, <2>2
  <1>4. LineInv' /\ SideInv' /\ FileInv' BY <1>0, <1>2 DEF PosInv, LineInv, SideInv, FileInv, IsSentence, Field
  <1> QED BY <1>0, <1>1, <1>4, ThreadStep

\* The modem's place moves on.
LEMMA SentOn ==
  ASSUME PosInv, Sent
  PROVE  /\ src' \in [plugged : BOOLEAN, n : 1..Len(Cycle), k : 1..5] /\ src'.plugged = src.plugged
         /\ src.k < 5 => src'.n = src.n /\ src'.k = src.k + 1
  <1> DEFINE n2 == (src.n % Len(Cycle)) + 1
  <1>1. Len(Cycle) \in Nat \ {0} BY AgpsAssumption
  <1>2. n2 \in 1..Len(Cycle) BY <1>1, LineTypes
  <1>3. src \in [plugged : BOOLEAN, n : 1..Len(Cycle), k : 1..5] BY DEF PosInv, AgTypeInv
  <1> HIDE DEF n2
  <1>4. CASE src.k = 5
    <2>1. src' = [src EXCEPT !.k = 1, !.n = n2] BY <1>4 DEF Sent, n2
    <2>2. src'.plugged = src.plugged BY <1>3, <2>1
    <2>3. src' \in [plugged : BOOLEAN, n : 1..Len(Cycle), k : 1..5]
      <3> DEFINE one == 1
      <3>1. one \in 1..5 OBVIOUS
      <3>2. src' = [src EXCEPT !.k = one, !.n = n2] BY <2>1
      <3> HIDE DEF one
      <3> QED BY <1>2, <1>3, <3>1, <3>2
    <2>4. ~(src.k < 5) BY <1>4
    <2> QED BY <2>2, <2>3, <2>4
  <1>5. CASE src.k # 5
    <2> DEFINE k2 == src.k + 1
    <2>1. k2 \in 1..5 BY <1>3, <1>5
    <2>2. src' = [src EXCEPT !.k = k2] BY <1>5 DEF Sent
    <2> HIDE DEF k2
    <2>3. src' \in [plugged : BOOLEAN, n : 1..Len(Cycle), k : 1..5] /\ src'.plugged = src.plugged /\ src'.n = src.n /\ src'.k = k2
      BY <1>3, <2>1, <2>2
    <2> QED BY <2>3 DEF k2
  <1> QED BY <1>4, <1>5

\* A byte that goes on with the sentence, or starts the next one.
LEMMA CharStep == ASSUME PosInv, get_agps_char PROVE PosInv'
  <1>0. ag.pc = "top" /\ src.plugged /\ src.k < 5 /\ Sent /\ UNCHANGED <<file, tab, rep>> BY DEF get_agps_char
  <1> DEFINE f == Field(src.n, src.k)
  <1>1. f \in Value BY <1>0, LineTypes, FieldIsValue
  <1>2. src' \in [plugged : BOOLEAN, n : 1..Len(Cycle), k : 1..5] /\ src'.plugged = src.plugged
        /\ src'.n = src.n /\ src'.k = src.k + 1
    BY <1>0, SentOn
  <1>3. src.k \in 1..4 BY <1>0, LineTypes
  <1>4. CASE src.k = 1
    <2> DEFINE l == <<Field(src.n, 1)>>
    <2>1. l \in Seq(Value) /\ Len(l) = 1 /\ l[1] = Field(src.n, 1) BY <1>1, <1>4
    <2>2. ag' = [ag EXCEPT !.pc = "top", !.valid = TRUE, !.line = l] /\ broken' = FALSE BY <1>4 DEF get_agps_char, Dollar
    <2> HIDE DEF l
    <2>3. AgTypeInv' BY <1>0, <1>2, <2>1, <2>2 DEF PosInv, AgTypeInv
    <2>4. ag'.pc = "top" /\ ag'.line = l /\ ag'.valid BY <2>2 DEF PosInv, AgTypeInv
    <2>5. \A i \in 1..1 : i = 1 OBVIOUS
    <2>6. IsSentence(l, src.n, 1) BY <2>1, <2>5 DEF IsSentence
    <2>7. src'.k - 1 = 1 /\ src'.k \in 2..5 BY <1>2, <1>4
    <2>8. LineInv' BY <1>2, <2>4, <2>6, <2>7 DEF LineInv, IsSentence, Field
    <2>9. SideInv' BY <1>0, <1>2, <2>4 DEF SideInv
    <2>10. FileInv' BY <1>0 DEF PosInv, FileInv
    <2> QED BY <1>0, <2>3, <2>8, <2>9, <2>10, ThreadStep
  <1>5. CASE src.k # 1 /\ ag.valid /\ Len(ag.line) = MaxLine
    <2>1. ag' = [ag EXCEPT !.pc = "parse"] /\ UNCHANGED broken BY <1>5 DEF get_agps_char
    <2>2. broken
      <3>1. ~broken => Len(ag.line) = src.k - 1 BY <1>0, <1>5 DEF PosInv, LineInv, IsSentence
      <3> QED BY <1>3, <1>5, <3>1, AgpsAssumption
    <2>3. AgTypeInv' BY <1>0, <1>2, <2>1 DEF PosInv, AgTypeInv
    <2>4. ag'.pc = "parse" /\ ag'.valid BY <1>5, <2>1 DEF PosInv, AgTypeInv
    <2>5. LineInv' /\ SideInv' BY <1>2, <2>1, <2>2, <2>4 DEF LineInv, SideInv
    <2>6. FileInv' BY <1>0 DEF PosInv, FileInv
    <2> QED BY <1>0, <2>3, <2>5, <2>6, ThreadStep
  <1>6. CASE src.k # 1 /\ ~(ag.valid /\ Len(ag.line) = MaxLine)
    <2> DEFINE l == IF ag.valid THEN Append(ag.line, f) ELSE ag.line
    <2>1. ag' = [ag EXCEPT !.pc = "top", !.line = l] /\ UNCHANGED broken BY <1>6 DEF get_agps_char
    <2>2. ag.line \in Seq(Value) /\ l \in Seq(Value) BY <1>1, LineTypes
    <2>3. ag.valid => Len(l) = Len(ag.line) + 1 /\ l[Len(ag.line) + 1] = f /\ \A i \in 1..Len(ag.line) : l[i] = ag.line[i]
      BY <1>1, <2>2
    <2> HIDE DEF l, f
    <2>4. AgTypeInv' BY <1>0, <1>2, <2>1, <2>2 DEF PosInv, AgTypeInv
    <2>5. ag'.pc = "top" /\ ag'.line = l /\ ag'.valid = ag.valid BY <2>1 DEF PosInv, AgTypeInv
    <2>6. ASSUME ~broken, ag.valid PROVE src'.k \in 2..5 /\ IsSentence(l, src.n, src'.k - 1)
      <3>1. Len(ag.line) = src.k - 1 /\ \A i \in 1..(src.k - 1) : ag.line[i] = Field(src.n, i)
        BY <1>0, <2>6 DEF PosInv, LineInv, IsSentence
      <3>2. Len(ag.line) + 1 = src.k BY <1>3, <3>1
      <3>3. Len(l) = src.k /\ l[src.k] = Field(src.n, src.k) BY <2>3, <2>6, <3>2 DEF f
      <3>4. \A i \in 1..(src.k - 1) : l[i] = Field(src.n, i) BY <2>3, <2>6, <3>1
      <3>5. \A i \in 1..src.k : i = src.k \/ i \in 1..(src.k - 1) BY <1>3
      <3>6. IsSentence(l, src.n, src.k) BY <3>3, <3>4, <3>5 DEF IsSentence
      <3>7. src'.k - 1 = src.k /\ src'.k \in 2..5 BY <1>2, <1>3
      <3> QED BY <3>6, <3>7
    <2>7. LineInv' BY <1>2, <2>1, <2>5, <2>6 DEF LineInv, IsSentence, Field
    <2>8. SideInv' BY <1>0, <1>2, <2>1, <2>5 DEF SideInv
    <2>9. FileInv' BY <1>0 DEF PosInv, FileInv
    <2> QED BY <1>0, <2>4, <2>7, <2>8, <2>9, ThreadStep
  <1> QED BY <1>4, <1>5, <1>6

LEMMA LineEndStep == ASSUME PosInv, LineEnd PROVE PosInv'
  <1>0. ag.pc = "top" /\ src.plugged /\ src.k = 5 /\ Sent /\ UNCHANGED <<file, tab, rep, broken>> BY DEF LineEnd
  <1>1. src' \in [plugged : BOOLEAN, n : 1..Len(Cycle), k : 1..5] /\ src'.plugged = src.plugged BY <1>0, SentOn
  <1>2. ag' = [ag EXCEPT !.pc = IF ag.valid THEN "parse" ELSE "top"] BY DEF LineEnd
  <1>3. AgTypeInv' BY <1>0, <1>1, <1>2 DEF PosInv, AgTypeInv
  <1>4. ag'.pc = (IF ag.valid THEN "parse" ELSE "top") /\ ag'.line = ag.line /\ ag'.valid = ag.valid
    BY <1>2 DEF PosInv, AgTypeInv
  <1>5. ~broken /\ ag.valid => IsSentence(ag.line, src.n, 4) BY <1>0 DEF PosInv, LineInv
  <1>6. LineInv' BY <1>0, <1>4, <1>5, LineTypes DEF LineInv, IsSentence, Field
  <1>7. SideInv' BY <1>0, <1>1, <1>4 DEF SideInv
  <1>8. FileInv' BY <1>0 DEF PosInv, FileInv
  <1> QED BY <1>0, <1>3, <1>6, <1>7, <1>8, ThreadStep

LEMMA StallStep == ASSUME PosInv, Stall PROVE PosInv'
  <1> DEFINE z == [what |-> "zero", of |-> 0]
             l == IF ag.valid /\ Len(ag.line) < MaxLine THEN Append(ag.line, z) ELSE ag.line
  <1>1. z \in Value BY DEF Value, Words
  <1>2. l \in Seq(Value) BY <1>1, LineTypes
  <1>3. ag' = [ag EXCEPT !.pc = "top", !.line = l] /\ broken' = TRUE /\ UNCHANGED <<src, file, tab, rep>> BY DEF Stall
  <1> HIDE DEF l
  <1>4. AgTypeInv' BY <1>2, <1>3 DEF PosInv, AgTypeInv
  <1>5. ag'.pc = "top" BY <1>3 DEF PosInv, AgTypeInv
  <1>6. LineInv' /\ SideInv' BY <1>3, <1>5 DEF LineInv, SideInv
  <1>7. FileInv' BY <1>3 DEF PosInv, FileInv
  <1> QED BY <1>3, <1>4, <1>6, <1>7, ThreadStep

LEMMA ParseStep == ASSUME PosInv, parse_var PROVE PosInv'
  <1>0. ag.pc = "parse" /\ UNCHANGED <<src, tab, rep, broken>> BY DEF parse_var
  <1>1. ag.limit + 1 \in Nat BY LineTypes
  <1> DEFINE Reader == [pc : {"type", "top", "parse", "write"}, open : BOOLEAN, line : Seq(Value), valid : BOOLEAN, limit : Nat]
  <1>8. ag \in Reader BY DEF PosInv, AgTypeInv
  <1>7. Passed \in Reader /\ Passed.pc = "top" /\ ~Passed.valid /\ Passed.limit = ag.limit BY <1>8 DEF Passed
  <1>9. ASSUME ag' \in Reader, UNCHANGED file PROVE AgTypeInv' BY <1>0, <1>9 DEF PosInv, AgTypeInv
  <1>2. AgTypeInv' /\ ((ag'.pc = "top" /\ ~ag'.valid) \/ (ag'.pc = "write" /\ ag'.valid = ag.valid /\ ag'.line = ag.line))
        /\ (file' = file \/ file' = NoInfo)
    <2>1. CASE ag.limit < Limit
      <3> DEFINE k == ag.limit + 1
      <3>1. k \in Nat BY <1>1
      <3>2. ag' = [Passed EXCEPT !.limit = k] /\ UNCHANGED file
        <4>1. ag' = [Passed EXCEPT !.limit = @ + 1] /\ UNCHANGED file BY <2>1 DEF parse_var
        <4> HIDE DEF Reader
        <4> QED BY <1>7, <4>1 DEF k
      <3> HIDE DEF k
      <3>3. ag' \in Reader /\ ag'.pc = "top" /\ ~ag'.valid BY <1>7, <3>1, <3>2
      <3> HIDE DEF Reader
      <3>4. AgTypeInv' BY <1>9, <3>2, <3>3
      <3> QED BY <3>2, <3>3, <3>4
    <2>2. CASE ~(ag.limit < Limit) /\ parse_gps(ag.line, 1).what \notin {"RMC", "GGA"}
      <3>1. ag' = [Passed EXCEPT !.limit = 0] /\ UNCHANGED file BY <2>2 DEF parse_var
      <3>2. ag' \in Reader /\ ag'.pc = "top" /\ ~ag'.valid BY <1>7, <3>1
      <3> HIDE DEF Reader
      <3>3. AgTypeInv' BY <1>9, <3>1, <3>2
      <3> QED BY <3>1, <3>2, <3>3
    <2>3. CASE ~(ag.limit < Limit) /\ parse_gps(ag.line, 1).what \in {"RMC", "GGA"}
      <3>1. ag' = [ag EXCEPT !.pc = "write", !.limit = 0] /\ file' = NoInfo BY <2>3 DEF parse_var
      <3>2. file' \in [full : BOOLEAN, pos : Position] BY <3>1, BlankPosition DEF NoInfo
      <3> QED BY <1>0, <3>1, <3>2 DEF PosInv, AgTypeInv
    <2> QED BY <2>1, <2>2, <2>3
  <1>3. ag.valid BY <1>0 DEF PosInv, SideInv
  <1>4. LineInv'
    <2>1. CASE ag'.pc = "top" /\ ~ag'.valid BY <2>1 DEF LineInv
    <2>2. CASE ag'.pc = "write" /\ ag'.valid = ag.valid /\ ag'.line = ag.line
      <3>1. ~broken => \E n \in 1..Len(Cycle) : IsSentence(ag.line, n, 4) BY <1>0, <1>3 DEF PosInv, LineInv
      <3> QED BY <1>0, <2>2, <3>1 DEF LineInv, IsSentence, Field
    <2> QED BY <1>2, <2>1, <2>2
  <1>5. SideInv' BY <1>0, <1>2, <1>3 DEF PosInv, SideInv
  <1>6. FileInv' BY <1>2 DEF PosInv, FileInv, NoInfo
  <1> QED BY <1>0, <1>2, <1>4, <1>5, <1>6, ThreadStep

\* What is parsed from a line of one sentence is whole.
LEMMA ParsedWhole ==
  ASSUME PosInv, ag.pc = "write"
  PROVE  Parsed(ag.line) \in Position /\ Whole(Parsed(ag.line))
  <1>1. ag.line \in Seq(Value) /\ ag.valid /\ broken \in BOOLEAN BY DEF PosInv, AgTypeInv, SideInv
  <1>2. ASSUME NEW i \in 1..4 PROVE parse_gps(ag.line, i) \in Value BY <1>1, BlankPosition DEF parse_gps
  <1>3. CASE parse_gps(ag.line, 1).what = "RMC" /\ parse_gps(ag.line, 2).what = "A"
    <2> DEFINE pos == [latitude |-> parse_gps(ag.line, 3), longitude |-> parse_gps(ag.line, 4), broken |-> broken]
    <2>1. Parsed(ag.line) = pos BY <1>3 DEF Parsed
    <2>2. pos \in Position BY <1>1, <1>2 DEF Position
    <2>3. ASSUME ~broken PROVE pos.latitude.what = "lat" /\ pos.longitude.what = "lon" /\ pos.latitude.of = pos.longitude.of
      <3>1. PICK n \in 1..Len(Cycle) : IsSentence(ag.line, n, 4) BY <1>1, <2>3 DEF PosInv, LineInv
      <3>2. Len(ag.line) = 4 /\ ag.line[3] = [what |-> "lat", of |-> n] /\ ag.line[4] = [what |-> "lon", of |-> n]
        BY <3>1 DEF IsSentence, Field
      <3>3. \A j \in 1..2 : ag.line[j].what # "zero" BY <1>3 DEF parse_gps, Blank
      <3>4. \A j \in 1..4 : ag.line[j].what # "zero"
        <4>1. \A j \in 1..4 : j \in 1..2 \/ j = 3 \/ j = 4 OBVIOUS
        <4> QED BY <3>2, <3>3, <4>1
      <3>5. parse_gps(ag.line, 3) = ag.line[3] /\ parse_gps(ag.line, 4) = ag.line[4] BY <3>2, <3>4 DEF parse_gps
      <3> QED BY <3>2, <3>5
    <2> QED BY <2>1, <2>2, <2>3 DEF Whole
  <1>4. CASE ~(parse_gps(ag.line, 1).what = "RMC" /\ parse_gps(ag.line, 2).what = "A")
    BY <1>4, BlankPosition DEF Parsed
  <1> QED BY <1>3, <1>4

LEMMA CloseStep == ASSUME PosInv, fclose PROVE PosInv'
  <1>0. ag.pc = "write" /\ ag' = Passed /\ UNCHANGED <<src, tab, rep, broken>> /\ file' = [full |-> TRUE, pos |-> Parsed(ag.line)]
    BY DEF fclose
  <1>1. Parsed(ag.line) \in Position /\ Whole(Parsed(ag.line)) BY <1>0, ParsedWhole
  <1>2. file' \in [full : BOOLEAN, pos : Position] BY <1>0, <1>1
  <1>3. AgTypeInv' BY <1>0, <1>2 DEF PosInv, AgTypeInv, Passed
  <1>4. ag'.pc = "top" /\ ~ag'.valid BY <1>0 DEF PosInv, AgTypeInv, Passed
  <1>5. LineInv' /\ SideInv' BY <1>0, <1>4 DEF PosInv, LineInv, SideInv
  <1>6. FileInv'
    <2>1. file'.pos = Parsed(ag.line) BY <1>0
    <2> QED BY <1>1, <2>1 DEF FileInv, Whole
  <1> QED BY <1>0, <1>3, <1>5, <1>6, ThreadStep

\* The value of a name as nvram_get gives it depends on nothing else.
LEMMA SameReading ==
  ASSUME NEW t, NEW t2, NEW name, hash_nvram_get(t2, name) = hash_nvram_get(t, name)
  PROVE  nvram_get(t2, name) = nvram_get(t, name)
  BY DEF nvram_get

\* The report: the table takes over a complete file, and keeps what it has otherwise.
LEMMA ReportStep == ASSUME PosInv, create_json_board_info PROVE PosInv'
  <1> DEFINE lat == "latitude"
             lon == "longitude"
             t0 == nvram_set(tab, "signal", Blank)
             t == nvram_renew(t0, file)
             p == file.pos
  <1>0. UNCHANGED <<src, ag, file, broken>> /\ tab' = t
        /\ rep' = [latitude |-> nvram_get(t, lat), longitude |-> nvram_get(t, lon),
                   broken |-> IF file.full THEN p.broken ELSE rep.broken]
    BY DEF create_json_board_info
  <1>1. lat \in Names /\ lon \in Names /\ "signal" \in Names /\ lat # lon /\ lat # "signal" /\ lon # "signal" BY DEF Names
  <1>2. tab \in Tables /\ file.full \in BOOLEAN /\ p \in Position /\ rep \in Position BY DEF PosInv, AgTypeInv
  <1>3. p.latitude \in Value /\ p.longitude \in Value /\ p.broken \in BOOLEAN BY <1>2 DEF Position
  <1>4. t0 \in Tables /\ hash_nvram_get(t0, lat) = hash_nvram_get(tab, lat) /\ hash_nvram_get(t0, lon) = hash_nvram_get(tab, lon)
    BY <1>1, <1>2, BlankPosition, SetGet DEF nvram_set
  <1>5. nvram_get(t0, lat) = rep.latitude /\ nvram_get(t0, lon) = rep.longitude BY <1>4, SameReading DEF PosInv, TabInv
  <1> HIDE DEF t0
  <1>6. CASE ~file.full
    <2>1. t = t0 BY <1>6 DEF nvram_renew
    <2>2. rep' = [latitude |-> rep.latitude, longitude |-> rep.longitude, broken |-> rep.broken] BY <1>0, <1>5, <1>6, <2>1
    <2>3. rep' = rep BY <1>2, <2>2 DEF Position
    <2>4. AgTypeInv' BY <1>0, <1>4, <2>1, <2>3 DEF PosInv, AgTypeInv
    <2>5. TabInv' BY <1>0, <1>5, <2>1, <2>3 DEF TabInv
    <2> QED BY <1>0, <2>3, <2>4, <2>5 DEF PosInv, LineInv, SideInv, FileInv, PositionWhole, IsSentence, Field
  <1>7. CASE file.full
    <2> DEFINE t1 == hash_nvram_set(t0, lat, p.latitude)
    <2>1. t1 \in Tables /\ hash_nvram_get(t1, lat) = p.latitude BY <1>1, <1>3, <1>4, SetGet
    <2>2. t = hash_nvram_set(t1, lon, p.longitude) BY <1>7 DEF nvram_renew, nvram_set
    <2> HIDE DEF t1
    <2>3. t \in Tables /\ hash_nvram_get(t, lon) = p.longitude /\ hash_nvram_get(t, lat) = hash_nvram_get(t1, lat)
      BY <1>1, <1>3, <2>1, <2>2, SetGet
    <2> HIDE DEF t
    <2>4. nvram_get(t, lat) = (IF p.latitude = Null THEN Blank ELSE p.latitude)
          /\ nvram_get(t, lon) = (IF p.longitude = Null THEN Blank ELSE p.longitude)
      BY <2>1, <2>3 DEF nvram_get
    <2>5. nvram_get(t, lat) \in Value /\ nvram_get(t, lon) \in Value BY <1>3, <2>4, BlankPosition
    <2>6. rep' = [latitude |-> nvram_get(t, lat), longitude |-> nvram_get(t, lon), broken |-> p.broken] BY <1>0, <1>7
    <2>7. rep' \in Position BY <1>3, <2>5, <2>6 DEF Position
    <2>8. AgTypeInv' BY <1>0, <2>3, <2>7 DEF PosInv, AgTypeInv
    <2>9. TabInv' BY <1>0, <2>6 DEF TabInv
    <2>10. PositionWhole'
      <3>1. Whole(p) BY <1>7 DEF PosInv, FileInv
      <3>2. CASE p.broken BY <2>6, <3>2 DEF PositionWhole
      <3>3. CASE ~p.broken
        <4>1. p.latitude # Null /\ p.longitude # Null BY <3>1, <3>3 DEF Whole, Null, Blank
        <4>2. rep'.latitude = p.latitude /\ rep'.longitude = p.longitude BY <2>4, <2>6, <4>1
        <4> QED BY <3>1, <3>3, <4>2 DEF Whole, PositionWhole
      <3> QED BY <3>2, <3>3
    <2> QED BY <1>0, <2>8, <2>9, <2>10 DEF PosInv, LineInv, SideInv, FileInv, IsSentence, Field
  <1> QED BY <1>2, <1>6, <1>7

\* The world: the modem goes and comes back, the daemon starts anew; the line counts as interrupted.
LEMMA WorldStep == ASSUME PosInv, Unplug \/ Plug \/ AgRestart PROVE PosInv'
  <1>1. CASE Unplug
    <2>1. src' = [src EXCEPT !.plugged = FALSE] /\ broken' = TRUE /\ UNCHANGED <<ag, file, tab, rep>> BY <1>1 DEF Unplug
    <2>2. AgTypeInv' BY <2>1 DEF PosInv, AgTypeInv
    <2>3. LineInv' /\ SideInv' BY <2>1 DEF PosInv, LineInv, SideInv
    <2>4. FileInv' BY <2>1 DEF PosInv, FileInv
    <2> QED BY <2>1, <2>2, <2>3, <2>4, ThreadStep
  <1>2. CASE Plug
    <2>1. ~src.plugged /\ UNCHANGED <<ag, file, tab, rep, broken>> /\ src' \in [plugged : {TRUE}, n : 1..Len(Cycle), k : 1..5]
      BY <1>2 DEF Plug
    <2>2. broken BY <2>1 DEF PosInv, SideInv
    <2>3. src' \in [plugged : BOOLEAN, n : 1..Len(Cycle), k : 1..5] BY <2>1
    <2>4. AgTypeInv' BY <2>1, <2>3 DEF PosInv, AgTypeInv
    <2>5. LineInv' /\ SideInv' BY <2>1, <2>2 DEF PosInv, LineInv, SideInv
    <2>6. FileInv' BY <2>1 DEF PosInv, FileInv
    <2> QED BY <2>1, <2>4, <2>5, <2>6, ThreadStep
  <1>3. CASE AgRestart
    <2>1. ag' = Start /\ tab' = Empty /\ rep' = NoPos /\ broken' = TRUE /\ UNCHANGED <<src, file>> BY <1>3 DEF AgRestart
    <2>2. ag' \in [pc : {"type", "top", "parse", "write"}, open : BOOLEAN, line : Seq(Value), valid : BOOLEAN, limit : Nat]
          /\ ag'.pc = "type" /\ ~ag'.valid
      <3>1. <<>> \in Seq(Value) OBVIOUS
      <3> QED BY <2>1, <3>1 DEF Start
    <2>3. AgTypeInv' BY <2>1, <2>2, EmptyTable, BlankPosition DEF PosInv, AgTypeInv
    <2>4. LineInv' /\ SideInv' BY <2>1, <2>2 DEF LineInv, SideInv
    <2>5. FileInv' BY <2>1 DEF PosInv, FileInv
    <2>6. TabInv' BY <2>1, EmptyTable DEF TabInv, NoPos
    <2>7. PositionWhole' BY <2>1 DEF PositionWhole, NoPos
    <2> QED BY <2>3, <2>4, <2>5, <2>6, <2>7 DEF PosInv
  <1> QED BY <1>1, <1>2, <1>3

\* A reported position is that of one sentence, whatever the sentences are and however the thread and
\* main take turns (handle_agps and send_board_info in main2.c, nvram_renew in hash_nvram.c).
THEOREM PositionsAreWhole == AgSpec => []PositionWhole
  <1>1. PosInv /\ [AgNext]_agVars => PosInv'
    <2> SUFFICES ASSUME PosInv, [AgNext]_agVars PROVE PosInv' OBVIOUS
    <2>1. CASE WaitType BY <2>1, WaitTypeStep
    <2>2. CASE open_gps_com \/ ReadError BY <2>2, OpenStep
    <2>3. CASE get_agps_char BY <2>3, CharStep
    <2>4. CASE LineEnd BY <2>4, LineEndStep
    <2>5. CASE Stall BY <2>5, StallStep
    <2>6. CASE parse_var BY <2>6, ParseStep
    <2>7. CASE fclose BY <2>7, CloseStep
    <2>8. CASE create_json_board_info BY <2>8, ReportStep
    <2>9. CASE Unplug \/ Plug \/ AgRestart BY <2>9, WorldStep
    <2>10. CASE UNCHANGED agVars BY <2>10, PosQuiet
    <2> QED BY <2>1, <2>2, <2>3, <2>4, <2>5, <2>6, <2>7, <2>8, <2>9, <2>10 DEF AgNext
  <1>2. PosInv => PositionWhole BY DEF PosInv
  <1> QED BY <1>1, <1>2, PosInit, PTL DEF AgSpec
=============================================================================
