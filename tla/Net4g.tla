-------------------------------- MODULE Net4g --------------------------------
(* The 4G reporting daemon (net4g/src/main2.c).  The main thread keeps a TCP     *)
(* connection to the server, logs in, reports and obeys commands; handle_tty     *)
(* carries the serial port; handle_timing_gpio drives an output by the clock.    *)
(* They share uart_attr, glb_auto_flag, glb_remote_socket and files, without     *)
(* a lock.  The server, the modem, the serial line and the clock are external.   *)
EXTENDS Integers, Sequences, FiniteSetsExt

CONSTANTS Cmds,       \* the commands the server gives, out of Commands
          MaxCmd,     \* bound: commands given
          MaxConn,    \* bound: connections set up
          FailLimit,  \* 360: failures in a row after which the daemon gives up
          IdleLimit,  \* 4: select timeouts of 60 s that make 230 s of silence
          MaxUpset,   \* bound: closes by the server, modem losses, unset windows and restarts
          MaxChunk    \* bound: chunks read from the serial port

VARIABLES m,      \* main: [pc, disc, faild, fail, idle, todo, wtd]
          net,    \* the connection: [up, down, owed, acc]
          modem,  \* /dev/ttyUSB2 and /tmp/dialok exist
          onoff,  \* /tmp/onoffline
          glb,    \* glb_remote_socket > 0
          given,  \* the commands the server has given, by seqnum
          sent,   \* sent[n]: responses with seqnum n
          ota,    \* [img, md5, flashed]: /tmp/firmware.img, /tmp/firmmd5
          uart,   \* uart_attr: [valid, fd, mode]
          cfg,    \* /etc/uart_cfg
          tty,    \* handle_tty: [pc, fd, n]
          gpio,   \* handle_timing_gpio and the output: [pc, on, ok, saw, out]
          timing, \* /etc/timing_config
          automan, \* /etc/automanual
          uci,    \* the stored configuration: [remote, ppp]; [board] is what renew.sh made of remote
          inwin,  \* the time of day is in a range of the timing configuration
          conns, upsets

mainVars == <<m, net, onoff, glb, conns>>
ttyVars == <<uart, cfg, tty>>
gpioVars == <<gpio, timing, automan>>
envVars == <<modem, inwin, upsets, given, uci>>
vars == <<mainVars, ttyVars, gpioVars, envVars, sent, ota>>

\* The branches of handle_msg, in their order: the first name found anywhere in recv_buf is taken.
Commands == <<"gpiotiming", "gpiotype", "readtiming", "ota", "checktime", "reboot", "reset", "readlog", "runcmd",
              "setplatform", "getplatform", "setdialparameters", "getdialparameters", "tc232", "set232parameters",
              "respcode", "invalid">>
Shapes == {"good", "nobody", "garbled"}

\* An answer is no command, and 99 is the number main2.c answers with when it could not read one.
ASSUME CmdsAssumption == Cmds \subseteq {Commands[i] : i \in 1..Len(Commands)} \ {"respcode"}
ASSUME BoundAssumption == MaxCmd \in 0..98 /\ FailLimit \in Nat \ {0} /\ IdleLimit \in Nat \ {0}
Images == {"none", "junk", "cut", "whole"}
NoFile == [val |-> 0, auto |-> FALSE, good |-> FALSE]
NoTodo == [c |-> "none", of |-> "none", shape |-> "garbled", seq |-> 0, val |-> 0, auto |-> FALSE]
Closed == [up |-> FALSE, down |-> <<>>, owed |-> 0, acc |-> FALSE]

\* main up to its loop: main2.c:1405-1474.
MainStart == [pc |-> "top", disc |-> TRUE, faild |-> TRUE, fail |-> 0, idle |-> 0, todo |-> NoTodo, wtd |-> 0]

\* handle_tty reads /etc/uart_cfg first.
TtyStart(n) == [pc |-> IF cfg.valid THEN "open" ELSE "top", fd |-> 0, n |-> n]

Init ==
  /\ m = MainStart /\ net = Closed /\ glb = FALSE
  /\ cfg = [valid |-> FALSE, fd |-> 0, mode |-> 0] /\ uart = cfg /\ tty = TtyStart(0)
  /\ modem = TRUE /\ onoff = "Offline" /\ given = <<>> /\ sent = [n \in 1..MaxCmd |-> 0]
  /\ ota = [img |-> "none", md5 |-> "none", flashed |-> FALSE]
  /\ gpio = [pc |-> "start", on |-> FALSE, ok |-> FALSE, saw |-> NoFile, out |-> 0]
  /\ uci = [remote |-> 0, ppp |-> 0, board |-> 0]
  /\ timing = NoFile /\ automan = NoFile /\ inwin \in BOOLEAN /\ conns = 0 /\ upsets = 0

-----------------------------------------------------------------------------
(* The connection *)

\* record2file(WTD_BRIG, "1"), and what the loop does first.
LoopTop ==
  /\ m.pc = "top"
  /\ IF m.fail >= FailLimit
       THEN m' = [m EXCEPT !.pc = "exit"] /\ net' = Closed /\ UNCHANGED onoff
       ELSE /\ m' = [m EXCEPT !.wtd = 1, !.faild = @ \/ m.disc,
                              !.pc = CASE ~modem -> "disconn" [] modem /\ m.disc -> "connect"
                                       [] modem /\ ~m.disc /\ m.faild -> "login" [] OTHER -> "wait"]
            /\ onoff' = IF modem /\ (m.disc \/ m.faild) THEN "Offline" ELSE onoff
            /\ UNCHANGED net
  /\ UNCHANGED <<glb, conns, ttyVars, gpioVars, envVars, sent, ota>>

\* What main does with the socket init_connect returned.
Connected(ok) ==
  IF ok THEN m' = [m EXCEPT !.pc = "login", !.disc = FALSE, !.fail = 0, !.idle = 0] /\ glb' = TRUE
        ELSE m' = [m EXCEPT !.pc = "top", !.fail = @ + 1, !.wtd = 0] /\ glb' = FALSE

\* select() reports a refused connection as writable too, and nobody looks at SO_ERROR: a connection
\* nobody answers on counts as connected.  Nobody answers at an address that is none of the server's.
init_connect ==
  /\ m.pc = "connect"
  /\ \/ /\ conns < MaxConn /\ conns' = conns + 1
        /\ \E r \in BOOLEAN : (uci.board # 0 => ~r) /\ net' = [Closed EXCEPT !.up = r]
        /\ Connected(TRUE)
     \/ Connected(FALSE) /\ UNCHANGED <<net, conns>>
  /\ UNCHANGED <<onoff, ttyVars, gpioVars, envVars, sent, ota>>

\* The results a send may have: a connection the server closed may still take the bytes.
sock_send == IF net.up THEN {TRUE} ELSE BOOLEAN

\* system("date -s"): the time of day may enter or leave a range.
renew_clock == inwin' \in BOOLEAN

\* What main does with the result of send_login: 1, -1 (log in again in 30 s) or -2.
LoggedIn(ret) ==
  \/ ret = 1 /\ m' = [m EXCEPT !.pc = "wait", !.faild = FALSE, !.idle = 0] /\ onoff' = "Online"
  \/ ret = -1 /\ m' = [m EXCEPT !.pc = "top", !.fail = @ + 1, !.wtd = 0] /\ UNCHANGED onoff
  \/ ret = -2 /\ m' = [m EXCEPT !.pc = "disconn"] /\ onoff' = "Offline"

\* send_login up to the wait for the answer; at most two answers are counted as owed.
send_login ==
  /\ m.pc = "login"
  /\ \E ok \in sock_send :
       IF ok
         THEN /\ m' = [m EXCEPT !.pc = "answer"] /\ onoff' = "Offline"
              /\ net' = [net EXCEPT !.owed = IF net.up THEN Min({@ + 1, 2}) ELSE @]
         ELSE LoggedIn(-2) /\ UNCHANGED net
  /\ UNCHANGED <<glb, conns, ttyVars, gpioVars, envVars, sent, ota>>

\* What recv() returns: one message, or two that arrived together; parsers read the first.
Took(k) == SubSeq(net.down, 1, k)

\* Mutant: the first answer is taken for success whatever it says.
AnswerUnread(msg) == msg.c = "respcode"

parse_json_ret(msg) == msg.c = "respcode" /\ msg.shape = "good"

\* select() for 3 s, begun again after a signal.
waiting_timeout == net.down # <<>>

\* The rest of send_login: the answer sets the clock; nothing came, the end of the stream or something else.
LoginAnswer ==
  /\ m.pc = "answer"
  /\ \/ waiting_timeout /\ \E k \in 1..Len(net.down) :
          /\ net' = [net EXCEPT !.down = SubSeq(@, k + 1, Len(@))]
          /\ IF parse_json_ret(Took(k)[1]) THEN renew_clock /\ LoggedIn(1) ELSE LoggedIn(-1) /\ UNCHANGED inwin
     \/ ~waiting_timeout /\ LoggedIn(-1) /\ UNCHANGED <<net, inwin>>
  /\ UNCHANGED <<glb, conns, ttyVars, gpioVars, modem, upsets, given, uci, sent, ota>>

\* select() on the socket: silence for too long, a signal, the report that is due, or something to read.
Wait ==
  /\ m.pc = "wait"
  /\ \/ m.idle >= IdleLimit /\ m' = [m EXCEPT !.pc = "disconn", !.idle = 0]
     \/ m.idle < IdleLimit /\ \E dt \in {0, 1} : m' = [m EXCEPT !.pc = "top", !.wtd = 0, !.idle = @ + dt]
     \/ m.idle < IdleLimit /\ net.down = <<>> /\ m' = [m EXCEPT !.pc = "report", !.idle = @ + 1]
     \/ m.idle < IdleLimit /\ ~net.up /\ m' = [m EXCEPT !.pc = "disconn"]
     \/ m.idle < IdleLimit /\ net.down # <<>> /\ m' = [m EXCEPT !.pc = "recv"]
  /\ UNCHANGED <<net, onoff, glb, conns, ttyVars, gpioVars, envVars, sent, ota>>

\* Mutant: sending a report counts as hearing from the server.
ReportRefreshes ==
  /\ m.pc = "report" /\ m' = [m EXCEPT !.pc = "top", !.wtd = 0, !.idle = 0]
  /\ UNCHANGED <<net, onoff, glb, conns, ttyVars, gpioVars, envVars, sent, ota>>

\* The server may answer a report.
send_board_info ==
  /\ m.pc = "report"
  /\ \E ok \in sock_send :
       IF ok
         THEN /\ m' = [m EXCEPT !.pc = "top", !.wtd = 0]
              /\ net' \in {net, [net EXCEPT !.down = IF net.up THEN Append(@, [NoTodo EXCEPT !.c = "respcode", !.shape = "good"]) ELSE @]}
         ELSE m' = [m EXCEPT !.pc = "disconn"] /\ UNCHANGED net
  /\ UNCHANGED <<onoff, glb, conns, ttyVars, gpioVars, envVars, sent, ota>>

\* The branch handle_msg takes on what was received.
Branch(msgs) ==
  LET named == {i \in 1..Len(Commands) : \E k \in 1..Len(msgs) : msgs[k].c = Commands[i]}
  IN Commands[CHOOSE i \in named : \A j \in named : i <= j]

Recv ==
  /\ m.pc = "recv"
  /\ \E k \in 1..Len(net.down) :
       /\ net' = [net EXCEPT !.down = SubSeq(@, k + 1, Len(@))]
       /\ m' = [m EXCEPT !.pc = "handle",
                         !.todo = [net.down[1] EXCEPT !.c = Branch(Took(k)), !.of = net.down[1].c,
                                     !.shape = IF k > 1 /\ Branch(Took(k)) \in {"gpiotiming", "gpiotype"} THEN "garbled" ELSE @]]
  /\ UNCHANGED <<onoff, glb, conns, ttyVars, gpioVars, envVars, sent, ota>>

DISCONN ==
  /\ m.pc = "disconn"
  /\ m' = [m EXCEPT !.pc = "top", !.fail = @ + 1, !.disc = TRUE, !.faild = TRUE, !.wtd = 0]
  /\ glb' = FALSE /\ net' = Closed
  /\ UNCHANGED <<onoff, conns, ttyVars, gpioVars, envVars, sent, ota>>

-----------------------------------------------------------------------------
(* The commands *)

\* parse_json_seqnum wants a type, a body and a seqnum; the other parsers a seqnum, then their fields.
parse_json_seqnum(c) == IF c.shape = "good" THEN c.seq ELSE -1

ParsedSeq(c) == IF c.shape = "garbled" THEN 0 ELSE c.seq

ParsedFields(c) == c.shape = "good" /\ c.of = c.c

parse_json_readlog(c) == ParsedFields(c)

parse_json_ota_msg(c) == ParsedFields(c)

\* decode.lua, which refuses anything behind the first message.
is_gpiotiming_valid(c) == ParsedFields(c)

is_ctrlmsg_valid(c) == ParsedFields(c)

\* decode.lua writes the output and reads it back.
gpio_ctrl(g, v) == [g EXCEPT !.out = v]

\* main after handle_msg returned 0.
Handled == m' = [m EXCEPT !.pc = "top", !.fail = 0, !.idle = 0, !.wtd = 0, !.todo = NoTodo]

\* send_resp: the bytes are taken, or the connection is given up.
send_resp(n) == sent' = IF n \in DOMAIN sent THEN [sent EXCEPT ![n] = @ + 1] ELSE sent

SEND_RESP(n) ==
  \E ok \in sock_send :
    IF ok THEN send_resp(n) /\ Handled
          ELSE m' = [m EXCEPT !.pc = "disconn", !.todo = NoTodo] /\ UNCHANGED sent

Is(c) == m.pc = "handle" /\ m.todo.c = c

\* parse_json_svrtime wants a seqnum, then a body with the time.
parse_json_svrtime(c) == ParsedFields(c)

\* Commands that only read or run something, and answer with the seqnum they could read.
handle_msg ==
  /\ \/ \E c \in {"getplatform", "getdialparameters"} :
          Is(c) /\ SEND_RESP(IF parse_json_seqnum(m.todo) = -1 THEN 99 ELSE m.todo.seq)
     \/ Is("runcmd") /\ SEND_RESP(ParsedSeq(m.todo))
     \/ Is("readlog") /\ SEND_RESP(IF parse_json_readlog(m.todo) THEN m.todo.seq ELSE 99)
  /\ UNCHANGED <<net, onoff, glb, conns, ttyVars, gpioVars, envVars, ota>>

handle_read_gpio_cfg ==
  /\ Is("readtiming") /\ SEND_RESP(IF parse_json_seqnum(m.todo) = -1 THEN 99 ELSE m.todo.seq)
  /\ UNCHANGED <<net, onoff, glb, conns, ttyVars, gpioVars, envVars, ota>>

\* An answer that nobody waits for is read and forgotten; what has no known name is refused.
OtherMsg ==
  /\ \/ Is("respcode") /\ Handled /\ UNCHANGED sent
     \/ Is("invalid") /\ SEND_RESP(99)
  /\ UNCHANGED <<net, onoff, glb, conns, ttyVars, gpioVars, envVars, ota>>

handle_checktime ==
  /\ Is("checktime") /\ SEND_RESP(ParsedSeq(m.todo))
  /\ IF parse_json_svrtime(m.todo) THEN renew_clock ELSE UNCHANGED inwin
  /\ UNCHANGED <<net, onoff, glb, conns, ttyVars, gpioVars, modem, upsets, given, uci, ota>>

\* Stored; the daemon goes on with the address it has until renew.sh has run.
update_uci_remote_config ==
  /\ Is("setplatform") /\ SEND_RESP(ParsedSeq(m.todo))
  /\ uci' = IF ParsedFields(m.todo) THEN [uci EXCEPT !.remote = m.todo.val] ELSE uci
  /\ UNCHANGED <<net, onoff, glb, conns, ttyVars, gpioVars, modem, inwin, upsets, given, ota>>

update_uci_ppp_config ==
  /\ Is("setdialparameters") /\ SEND_RESP(ParsedSeq(m.todo))
  /\ uci' = IF ParsedFields(m.todo) THEN [uci EXCEPT !.ppp = m.todo.val] ELSE uci
  /\ UNCHANGED <<net, onoff, glb, conns, ttyVars, gpioVars, modem, inwin, upsets, given, ota>>

\* reboot and reset: the answer is sent, or not, and the daemon ends.
Reboot ==
  /\ Is("reboot") \/ Is("reset")
  /\ IF parse_json_seqnum(m.todo) = -1 THEN SEND_RESP(99) ELSE send_resp(m.todo.seq) /\ m' = [m EXCEPT !.pc = "exit", !.todo = NoTodo]
  /\ UNCHANGED <<net, onoff, glb, conns, ttyVars, gpioVars, envVars, ota>>

\* handle_ota up to the download; check_version compares with /etc/Version.
handle_ota ==
  /\ Is("ota")
  /\ \/ /\ ~parse_json_ota_msg(m.todo) /\ SEND_RESP(IF parse_json_seqnum(m.todo) = -1 THEN 99 ELSE m.todo.seq) /\ UNCHANGED ota
     \/ /\ parse_json_ota_msg(m.todo) /\ send_resp(m.todo.seq)
        /\ ota' = [ota EXCEPT !.img = "none"] /\ m' = [m EXCEPT !.pc = "download"]
  /\ UNCHANGED <<net, onoff, glb, conns, ttyVars, gpioVars, envVars>>

\* The header's and the kernel's CRC: what lies behind the kernel may be missing.
check_image(i) == i \in {"cut", "whole"}

\* Mutant: do_ota's failure is answered, and handle_ota goes on.
OtaGoesOn ==
  /\ m.pc = "download"
  /\ \E i \in Images :
       /\ ota' = [ota EXCEPT !.img = i, !.md5 = i]
       /\ m' = [m EXCEPT !.pc = "flash"]
       /\ IF check_image(i) THEN UNCHANGED sent ELSE send_resp(m.todo.seq)
  /\ UNCHANGED <<net, onoff, glb, conns, ttyVars, gpioVars, envVars>>

\* do_ota: an older version, or whatever wget left, then md5sum of what check_image lets pass.
do_ota ==
  /\ m.pc = "download"
  /\ \E i \in Images, newer \in BOOLEAN :
       LET got == IF newer THEN i ELSE "none" IN
       /\ ota' = [ota EXCEPT !.img = got, !.md5 = IF check_image(got) THEN got ELSE @]
       /\ IF check_image(got) THEN m' = [m EXCEPT !.pc = "flash"] /\ UNCHANGED sent ELSE SEND_RESP(m.todo.seq)
  /\ UNCHANGED <<net, onoff, glb, conns, ttyVars, gpioVars, envVars>>

\* The md5 of the command is that of the whole image.
Flash ==
  /\ m.pc = "flash"
  /\ IF ota.md5 = "whole"
       THEN send_resp(m.todo.seq) /\ ota' = [ota EXCEPT !.flashed = TRUE] /\ m' = [m EXCEPT !.pc = "exit", !.todo = NoTodo]
       ELSE SEND_RESP(m.todo.seq) /\ UNCHANGED ota
  /\ UNCHANGED <<net, onoff, glb, conns, ttyVars, gpioVars, envVars>>

\* record2file truncates /etc/timing_config; is_gpiotiming_valid has said yes.
handle_gpiotiming ==
  /\ Is("gpiotiming")
  /\ IF is_gpiotiming_valid(m.todo)
       THEN timing' = NoFile /\ m' = [m EXCEPT !.pc = "timing"] /\ UNCHANGED sent
       ELSE SEND_RESP(99) /\ UNCHANGED timing
  /\ UNCHANGED <<net, onoff, glb, conns, ttyVars, gpio, automan, envVars, ota>>

renew_timing_cfg_file ==
  /\ m.pc = "timing" /\ timing' = [NoFile EXCEPT !.val = m.todo.val, !.good = TRUE]
  /\ SEND_RESP(m.todo.seq)
  /\ UNCHANGED <<net, onoff, glb, conns, ttyVars, gpio, automan, envVars, ota>>

\* is_ctrlmsg_valid sets the output at once; then the mode, and /etc/automanual is truncated.
handle_gpiotype ==
  /\ Is("gpiotype")
  /\ IF is_ctrlmsg_valid(m.todo)
       THEN /\ gpio' = [gpio_ctrl(gpio, m.todo.val) EXCEPT !.on = m.todo.auto]
            /\ automan' = NoFile /\ m' = [m EXCEPT !.pc = "automan"] /\ UNCHANGED sent
       ELSE SEND_RESP(parse_json_seqnum(m.todo)) /\ UNCHANGED <<gpio, automan>>
  /\ UNCHANGED <<net, onoff, glb, conns, ttyVars, timing, envVars, ota>>

renew_auto_manual_file ==
  /\ m.pc = "automan" /\ automan' = [val |-> m.todo.val, auto |-> m.todo.auto, good |-> TRUE]
  /\ SEND_RESP(m.todo.seq)
  /\ UNCHANGED <<net, onoff, glb, conns, ttyVars, gpio, timing, envVars, ota>>

\* write(uart_attr.fd, ...).
parse_json_tty_trans ==
  /\ Is("tc232") /\ SEND_RESP(IF ParsedFields(m.todo) THEN m.todo.seq ELSE 99)
  /\ UNCHANGED <<net, onoff, glb, conns, ttyVars, gpioVars, envVars, ota>>

\* set232parameters: memset, then the fields one by one, then valid, then the file.
ClearUart ==
  /\ Is("set232parameters") /\ m' = [m EXCEPT !.pc = "uart"]
  /\ uart' = [valid |-> FALSE, fd |-> 0, mode |-> 0]
  /\ UNCHANGED <<net, onoff, glb, conns, cfg, tty, gpioVars, envVars, sent, ota>>

parse_json_tty_cfg ==
  /\ m.pc = "uart"
  /\ IF ParsedFields(m.todo)
       THEN uart' = [uart EXCEPT !.valid = TRUE, !.mode = m.todo.val] /\ m' = [m EXCEPT !.pc = "uartfile"] /\ UNCHANGED sent
       ELSE uart' = [uart EXCEPT !.valid = FALSE] /\ SEND_RESP(99)
  /\ UNCHANGED <<net, onoff, glb, conns, cfg, tty, gpioVars, envVars, ota>>

SaveUart ==
  /\ m.pc = "uartfile" /\ cfg' = uart /\ SEND_RESP(m.todo.seq)
  /\ UNCHANGED <<net, onoff, glb, conns, uart, tty, gpioVars, envVars, ota>>

Main == LoopTop \/ init_connect \/ send_login \/ LoginAnswer \/ Wait \/ send_board_info \/ Recv \/ DISCONN
        \/ handle_msg \/ handle_read_gpio_cfg \/ OtherMsg \/ handle_checktime \/ update_uci_remote_config
        \/ update_uci_ppp_config \/ Reboot \/ handle_ota \/ do_ota \/ Flash \/ handle_gpiotiming \/ renew_timing_cfg_file
        \/ handle_gpiotype \/ renew_auto_manual_file \/ parse_json_tty_trans \/ ClearUart \/ parse_json_tty_cfg \/ SaveUart

-----------------------------------------------------------------------------
(* handle_tty; descriptor 1 stands for any positive number *)

\* The loop looks at uart_attr.valid, and closes the port when it is not set.
TtyTop ==
  /\ tty.pc = "top"
  /\ IF uart.valid
       THEN tty' = [tty EXCEPT !.pc = IF tty.fd > 0 THEN "read" ELSE "open"] /\ UNCHANGED uart
       ELSE /\ tty' = [tty EXCEPT !.fd = IF @ > 0 THEN -1 ELSE @]
            /\ uart' = IF tty.fd > 0 THEN [uart EXCEPT !.fd = -1] ELSE uart
  /\ UNCHANGED <<mainVars, cfg, gpioVars, envVars, sent, ota>>

\* init_com_dev, which stores the descriptor in uart_attr when it succeeds.
init_com_dev ==
  /\ tty.pc = "open"
  /\ \E ok \in BOOLEAN :
       /\ tty' = [tty EXCEPT !.fd = IF ok THEN 1 ELSE -1, !.pc = IF ok THEN "read" ELSE "top"]
       /\ uart' = [uart EXCEPT !.fd = IF ok THEN 1 ELSE -1]
  /\ UNCHANGED <<mainVars, cfg, gpioVars, envVars, sent, ota>>

\* read(): an error closes the port and leaves uart_attr.fd as it is; data is kept or due to be sent,
\* by the work mode and, in mode 0, by the time since the last sending.  A buffer file that cannot be
\* created ends the thread.
TtyRead ==
  /\ tty.pc = "read"
  /\ \/ tty' = [tty EXCEPT !.fd = -1, !.pc = "reopen"]
     \/ tty.n < MaxChunk /\ tty' = [tty EXCEPT !.n = @ + 1, !.pc = IF glb THEN "send" ELSE "top"]
     \/ tty.n < MaxChunk /\ uart.mode = 0 /\ tty' = [tty EXCEPT !.n = @ + 1, !.pc = "top"]
     \/ tty.n < MaxChunk /\ uart.mode = 0 /\ tty' = [tty EXCEPT !.n = @ + 1, !.pc = "gone"]
  /\ UNCHANGED <<mainVars, uart, cfg, gpioVars, envVars, sent, ota>>

\* The loop top after a failed read.
TtyAgain ==
  /\ tty.pc = "reopen" /\ tty' = [tty EXCEPT !.pc = IF uart.valid THEN "open" ELSE "top"]
  /\ UNCHANGED <<mainVars, uart, cfg, gpioVars, envVars, sent, ota>>

\* send(glb_remote_socket): glb_remote_socket was looked at before.
TtySend ==
  /\ tty.pc = "send" /\ tty' = [tty EXCEPT !.pc = "top"]
  /\ UNCHANGED <<mainVars, uart, cfg, gpioVars, envVars, sent, ota>>

Tty == TtyTop \/ init_com_dev \/ TtyRead \/ TtyAgain \/ TtySend

-----------------------------------------------------------------------------
(* handle_timing_gpio *)

\* The mode is read back from /etc/automanual, and the output set again.
GpioStart ==
  /\ gpio.pc = "start"
  /\ gpio' = [IF automan.good THEN gpio_ctrl(gpio, automan.val) ELSE gpio EXCEPT !.pc = "top", !.on = automan.auto \/ @]
  /\ UNCHANGED <<mainVars, ttyVars, timing, automan, envVars, sent, ota>>

\* read_timing_cfg, when the mode is auto; otherwise the thread sleeps.
read_timing_cfg ==
  /\ gpio.pc = "top" /\ gpio.on
  /\ gpio' = [gpio EXCEPT !.saw = timing, !.pc = "detect"]
  /\ UNCHANGED <<mainVars, ttyVars, timing, automan, envVars, sent, ota>>

\* Mutant: only the value 1 is written.
DetectOnes ==
  /\ gpio.pc = "detect"
  /\ IF gpio.saw.good /\ inwin
       THEN gpio' = [gpio EXCEPT !.out = IF gpio.saw.val = 1 THEN 1 ELSE @, !.ok = TRUE, !.pc = "top", !.saw = NoFile]
       ELSE gpio' = [gpio EXCEPT !.pc = IF gpio.ok THEN "reverse" ELSE "top", !.saw = NoFile]
  /\ UNCHANGED <<mainVars, ttyVars, timing, automan, envVars, sent, ota>>

\* What the thread does with detect_timing_flag's answer: OK, or anything else, which undoes what was set before.
AutoOk(g, ok) == [g EXCEPT !.ok = @ \/ ok, !.pc = IF ~ok /\ g.ok THEN "reverse" ELSE "top", !.saw = NoFile]

\* A range the time is in: the output is set.
detect_timing_flag ==
  /\ gpio.pc = "detect"
  /\ gpio' = IF gpio.saw.good /\ inwin THEN AutoOk(gpio_ctrl(gpio, gpio.saw.val), TRUE) ELSE AutoOk(gpio, FALSE)
  /\ UNCHANGED <<mainVars, ttyVars, timing, automan, envVars, sent, ota>>

\* gpio_reverse reads the file again.
gpio_reverse ==
  /\ gpio.pc = "reverse"
  /\ gpio' = [IF timing.good THEN gpio_ctrl(gpio, 1 - timing.val) ELSE gpio EXCEPT !.ok = FALSE, !.pc = "top"]
  /\ UNCHANGED <<mainVars, ttyVars, timing, automan, envVars, sent, ota>>

Gpio == GpioStart \/ read_timing_cfg \/ detect_timing_flag \/ gpio_reverse

-----------------------------------------------------------------------------
(* The surroundings *)

\* The server answers a login: it accepts or refuses.
Answer ==
  /\ net.up /\ net.owed > 0 /\ Len(net.down) < 2
  /\ \E ok \in BOOLEAN :
       net' = [net EXCEPT !.owed = @ - 1, !.acc = @ \/ ok,
                          !.down = Append(@, [NoTodo EXCEPT !.c = "respcode", !.shape = IF ok THEN "good" ELSE "nobody"])]
  /\ UNCHANGED <<m, onoff, glb, conns, ttyVars, gpioVars, envVars, sent, ota>>

\* The server gives a command.
Command ==
  /\ net.up /\ Len(given) < MaxCmd /\ Len(net.down) < 2
  /\ \E c \in Cmds, s \in Shapes, v \in {0, 1}, a \in BOOLEAN :
       /\ c \notin {"gpiotiming", "gpiotype", "set232parameters", "setplatform", "setdialparameters"} => v = 0
       /\ c # "gpiotype" => ~a
       /\ given' = Append(given, c)
       /\ net' = [net EXCEPT !.down = Append(@, [c |-> c, of |-> c, shape |-> s, seq |-> Len(given) + 1, val |-> v, auto |-> a])]
  /\ UNCHANGED <<m, onoff, glb, conns, ttyVars, gpioVars, modem, inwin, upsets, uci, sent, ota>>

\* The server closes the connection, the modem comes and goes, the time of day enters or leaves a range.
Upset ==
  /\ upsets < MaxUpset /\ upsets' = upsets + 1
  /\ \/ net.up /\ net' = [net EXCEPT !.up = FALSE, !.owed = 0] /\ UNCHANGED <<modem, inwin>>
     \/ modem' = ~modem /\ UNCHANGED <<net, inwin>>
     \/ Cmds \cap {"gpiotiming"} # {} /\ inwin' = ~inwin /\ UNCHANGED <<net, modem>>
  /\ UNCHANGED <<m, onoff, glb, conns, ttyVars, gpioVars, given, uci, sent, ota>>

\* The process is ended by a signal, or has ended, and net4g.init starts it again; only files stay.
\* renew.sh, which does so, has written the stored address to /tmp/board_info before.
Restart ==
  /\ upsets < MaxUpset /\ upsets' = upsets + 1
  /\ m' = MainStart /\ glb' = FALSE /\ net' = Closed
  /\ uart' = cfg /\ tty' = TtyStart(tty.n)
  /\ gpio' = [gpio EXCEPT !.pc = "start", !.on = FALSE, !.ok = FALSE, !.saw = NoFile]
  /\ UNCHANGED <<onoff, conns, cfg, timing, automan, modem, inwin, given, sent, ota>>
  /\ uci' \in {uci, [uci EXCEPT !.board = uci.remote]}

Next == Main \/ (m.pc # "exit" /\ (Tty \/ Gpio)) \/ Answer \/ Command \/ Upset \/ Restart

Spec == Init /\ [][Next]_vars

-----------------------------------------------------------------------------
(* Properties *)

TypeOK ==
  /\ m.pc \in {"top", "connect", "login", "answer", "wait", "report", "recv", "handle", "disconn", "exit", "download",
              "flash", "timing", "automan", "uart", "uartfile"}
  /\ m.disc \in BOOLEAN /\ m.faild \in BOOLEAN /\ m.fail \in 0..FailLimit /\ m.idle \in 0..IdleLimit /\ m.wtd \in {0, 1}
  /\ m.todo \in [c : {Commands[i] : i \in 1..Len(Commands)} \cup {"none"}, of : STRING, shape : Shapes,
                 seq : 0..MaxCmd, val : {0, 1}, auto : BOOLEAN]
  /\ net.up \in BOOLEAN /\ net.owed \in 0..2 /\ net.acc \in BOOLEAN /\ Len(net.down) <= 3
  /\ onoff \in {"Online", "Offline"} /\ glb \in BOOLEAN /\ modem \in BOOLEAN /\ inwin \in BOOLEAN
  /\ uart \in [valid : BOOLEAN, fd : -1..1, mode : {0, 1}] /\ cfg \in [valid : BOOLEAN, fd : -1..1, mode : {0, 1}]
  /\ tty \in [pc : {"top", "open", "read", "reopen", "send", "gone"}, fd : -1..1, n : 0..MaxChunk]
  /\ ota \in [img : Images, md5 : Images, flashed : BOOLEAN]

\* While main holds a connection, /tmp/onoffline says Online only if the server accepted a login on
\* that connection, whatever answers came late, together or on an earlier one.
OnlineTruthful == onoff = "Online" /\ ~m.disc => net.acc

\* No command is answered twice, and a firmware update at most twice (the download, the result), even
\* when commands arrive together.
AnsweredOnce == \A n \in 1..Len(given) : sent[n] <= IF given[n] = "ota" THEN 2 ELSE 1

\* A connection on which nothing arrives any more is given up, or the daemon itself.
DeafLinkGivenUp == <>[](net.down = <<>>) => []<>(m.disc \/ m.pc = "exit")

\* In auto mode, inside a range, the output ends up at the configured value, although the thread may
\* read a configuration that main is writing and commands set the output themselves.
GpioFollows == <>[](gpio.on /\ inwin /\ timing.good /\ m.pc # "exit") => <>[](gpio.out = timing.val)

=============================================================================
