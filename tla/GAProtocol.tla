----------------------------- MODULE GAProtocol -----------------------------
(***************************************************************************)
(* The gateway application: the device table, the join window, the UDP     *)
(* handshakes with sub-devices (XGProtocolUdp.c, run by the core thread),  *)
(* the gateway commands of an app (GAProtocol.c, run by the UDP and the    *)
(* TCP thread of XDevice.c) and the key requests they make to a sub-device *)
(* over a socket of their own (XGageway.c).                                *)
(*                                                                         *)
(* Every access to the table is a step of its own: the three threads hold  *)
(* no lock between a test and the access it guards.                        *)
(***************************************************************************)
EXTENDS Integers, Sequences, FiniteSets

CONSTANTS Device, Addr, Key,
          MaxTimeout,      \* 300 in processAllowDeviceJoin
          DefaultTimeout,  \* 30
          ConsoleTimeout,  \* 10 in ConsoleDiscoverDevice
          Members,         \* devices in the table when the gateway starts
          Chatty,          \* devices that send data in this instance
          Commands,        \* the commands apps give in this instance
          MaxReq,          \* bound: gateway commands given by the apps
          MaxMoves,        \* bound: changes of address
          MaxQueue,        \* bound: notifications waiting in g_header
          MaxUp,           \* bound: handshake messages under way to the gateway
          MaxAnswers       \* bound: kinds of answers under way to one device

NoRow   == [status |-> -1]
NoKey   == "no key"
Apps    == {"udp", "tcp"}
Worker  == Apps \cup {"console"}
KeyCmds == {"getack", "setack", "subkey"}
Own     == {"statue", "lamp", "tmpssid", "onlyssid", "easylink", "netmode"}  \* answered by the gateway alone
Mute    == {"system", "updateurl"}                                          \* never answered
AllCmds == KeyCmds \cup {"list", "info", "control", "delete"} \cup Own \cup Mute
Row     == [addr : Addr, status : {0, 1}]

ASSUME TimeoutAssumption == /\ MaxTimeout \in Nat /\ {DefaultTimeout, ConsoleTimeout} \subseteq 0..MaxTimeout
                            /\ NoKey \notin Key
                            /\ Device # {} /\ Addr # {} /\ Members \cup Chatty \subseteq Device /\ Commands \subseteq AllCmds

VARIABLES
    running,   \* XGStartCore succeeded: g_ctx->isRuning
    db,        \* the table "device"
    window,    \* seconds left of g_AllowAddTimeout, -1 once they have passed
    allow,     \* seconds left until g_allowtime
    core,      \* the core thread inside a UDP handler
    work,      \* the app command each thread of XDevice.c is executing, or the console's
    outq,      \* g_header: notifications for the apps
    dev,       \* the sub-devices: whether they take themselves for joined, address, key
    heard,     \* broadcasts under way to each device
    up,        \* handshake messages under way to the gateway
    down,      \* handshake answers under way to each device: number of copies
    ask,       \* key requests under way, with the socket that waits for the answer
    ans,       \* answers under way to such a socket
    reqs,      \* commands given so far; names the socket of a request
    moves

vars == <<running, db, window, allow, core, work, outq, dev, heard, up, down, ask, ans, reqs, moves>>

AnswerType == {"join0", "join1", "restart0", "restart1", "remove"}
Idle       == [pc |-> "idle"]

Init ==
    /\ running \in BOOLEAN
    /\ dev \in [Device -> [joined : BOOLEAN, addr : Addr, key : {NoKey}]]
    /\ \A d \in Device : dev[d].joined <=> d \in Members
    /\ \A d, e \in Device : d # e => dev[d].addr # dev[e].addr
    /\ db = [d \in Device |-> IF d \in Members THEN [addr |-> dev[d].addr, status |-> 0] ELSE NoRow]
    /\ window = -1 /\ allow = 0
    /\ core = Idle
    /\ work = [w \in Worker |-> Idle]
    /\ outq = <<>>
    /\ heard = [d \in Device |-> {}]
    /\ up = {} /\ ask = {} /\ ans = {}
    /\ down = [d \in Device |-> [t \in AnswerType |-> 0]]
    /\ reqs = 0 /\ moves = 0

-----------------------------------------------------------------------------
(* Broadcasts and answers.  XGProtocolUdp.c and XGRemoveDevice send every  *)
(* message to a device twice; copies may be lost and may arrive late.  A   *)
(* message that does not fit the bounds is lost.                           *)

Broadcast(t) == heard' = IF running THEN [d \in Device |-> heard[d] \cup {t}] ELSE heard
Fits(d, t) == Cardinality({u \in AnswerType : u = t \/ down[d][u] > 0}) <= MaxAnswers
Twice(a, t) == down' = [d \in Device |-> IF dev[d].addr = a /\ Fits(d, t) THEN [down[d] EXCEPT ![t] = 2] ELSE down[d]]

\* XDAddSendData: a notification for the apps, behind the ones that wait.
XDAddSendData(n) == Len(outq) < MaxQueue /\ outq' = Append(outq, n)
XDNewDeviceJoinNotify(d) == XDAddSendData([cmd |-> "join", d |-> d])

XGDiscover      == Broadcast("discover")
XGRestartNotify == Broadcast("restart")

\* AlowDeviceJoin followed by ConsoleDiscoverDevice(&timeout)
OpenWindow(t) == /\ window' = t
                 /\ allow' = t
                 /\ XGDiscover

processAllowDeviceJoin(w) ==
    /\ work[w].pc = "idle" /\ reqs < MaxReq
    /\ \E t \in 0..MaxTimeout + 1 : OpenWindow(IF t > MaxTimeout THEN DefaultTimeout ELSE t)
    /\ reqs' = reqs + 1
    /\ UNCHANGED <<running, db, core, work, outq, dev, up, down, ask, ans, moves>>

\* The console command "join": the window only, g_allowtime is left alone.
ConsoleDiscoverDevice ==
    /\ reqs < MaxReq
    /\ window' = ConsoleTimeout
    /\ XGDiscover
    /\ reqs' = reqs + 1
    /\ UNCHANGED <<running, db, allow, core, work, outq, dev, up, down, ask, ans, moves>>

\* DiscoverntfThread: more neighbours in the ARP table than at the last look.
DiscoverntfThread ==
    /\ window = -1 /\ reqs < MaxReq
    /\ OpenWindow(DefaultTimeout)
    /\ reqs' = reqs + 1
    /\ UNCHANGED <<running, db, core, work, outq, dev, up, down, ask, ans, moves>>

Tick ==
    /\ window >= 0 \/ allow > 0
    /\ window' = IF window >= 0 THEN window - 1 ELSE window
    /\ allow' = IF allow > 0 THEN allow - 1 ELSE 0
    /\ UNCHANGED <<running, db, core, work, outq, dev, heard, up, down, ask, ans, reqs, moves>>

-----------------------------------------------------------------------------
(* The core thread: join and restart requests of sub-devices.              *)

XGStartProtocolUdp ==
    /\ running /\ core = Idle
    /\ \E m \in up : /\ core' = [pc |-> m.type, d |-> m.d, addr |-> m.addr]
                     /\ up' = up \ {m}
    /\ UNCHANGED <<running, db, window, allow, work, outq, dev, heard, down, ask, ans, reqs, moves>>

\* OnDiscoverDevice_t up to dbAddDevice
OnDiscoverDevice_t ==
    /\ core.pc = "join"
    /\ core' = [core EXCEPT !.pc = IF db[core.d] # NoRow THEN "join0"
                                   ELSE IF window < 0 THEN "join1" ELSE "add"]
    /\ UNCHANGED <<running, db, window, allow, work, outq, dev, heard, up, down, ask, ans, reqs, moves>>

\* dbAddDevice, and the notification that is queued whatever it returned
dbAddDevice ==
    /\ core.pc = "add"
    /\ \E done \in BOOLEAN :     \* sqlite may refuse the INSERT
         /\ db' = IF done THEN [db EXCEPT ![core.d] = [addr |-> core.addr, status |-> 1]] ELSE db
         /\ core' = [core EXCEPT !.pc = IF done THEN "join0" ELSE "join1"]
    /\ XDNewDeviceJoinNotify(core.d)
    /\ UNCHANGED <<running, window, allow, work, dev, heard, up, down, ask, ans, reqs, moves>>

\* Mutant: a device that is not in the table gets no answer.
RestartUnanswered ==
    /\ core.pc = "restart"
    /\ core' = IF db[core.d] # NoRow THEN [core EXCEPT !.pc = "update"] ELSE Idle
    /\ UNCHANGED <<running, db, window, allow, work, outq, dev, heard, up, down, ask, ans, reqs, moves>>

\* OnDeviceRestartNotify_t: dbDeviceExisted, then dbUpdateDeviceAddress
OnDeviceRestartNotify_t ==
    /\ core.pc = "restart"
    /\ core' = [core EXCEPT !.pc = IF db[core.d] # NoRow THEN "update" ELSE "restart1"]
    /\ UNCHANGED <<running, db, window, allow, work, outq, dev, heard, up, down, ask, ans, reqs, moves>>

\* Mutant: the address stays the one of the join.
UpdateNothing ==
    /\ core.pc = "update"
    /\ core' = [core EXCEPT !.pc = "restart0"]
    /\ UNCHANGED <<running, db, window, allow, work, outq, dev, heard, up, down, ask, ans, reqs, moves>>

dbUpdateDeviceAddress ==
    /\ core.pc = "update"
    /\ db' = IF db[core.d] # NoRow THEN [db EXCEPT ![core.d].addr = core.addr] ELSE db
    /\ core' = [core EXCEPT !.pc = "restart0"]
    /\ UNCHANGED <<running, window, allow, work, outq, dev, heard, up, down, ask, ans, reqs, moves>>

XGUdpDevcieRequestJoin ==
    /\ core.pc \in {"join0", "join1"}
    /\ Twice(core.addr, core.pc)
    /\ core' = Idle
    /\ UNCHANGED <<running, db, window, allow, work, outq, dev, heard, up, ask, ans, reqs, moves>>

XGDeviceRestartNotify ==
    /\ core.pc \in {"restart0", "restart1"}
    /\ Twice(core.addr, core.pc)
    /\ core' = Idle
    /\ UNCHANGED <<running, db, window, allow, work, outq, dev, heard, up, ask, ans, reqs, moves>>

\* OnDeviceLogin_t, OnLoginout_t: the status column (their place in the core: module XGCore)
SetStatus ==
    /\ running /\ core = Idle
    /\ \E d \in Device, s \in {0, 1} :
         /\ db[d] # NoRow
         /\ db[d].status # s
         /\ db' = [db EXCEPT ![d].status = s]
    /\ UNCHANGED <<running, window, allow, core, work, outq, dev, heard, up, down, ask, ans, reqs, moves>>

\* OnRecvDataFormDevice_t: what a device sends goes to the apps too (its way to the cloud: module XGCore).
XDControlData(d) ==
    /\ running /\ core = Idle
    /\ XDAddSendData([cmd |-> "control", d |-> d])
    /\ UNCHANGED <<running, db, window, allow, core, work, dev, heard, up, down, ask, ans, reqs, moves>>

-----------------------------------------------------------------------------
(* App commands.  A handler is the sequence of its queries to the table,  *)
(* each with the result it answers when the row is gone and, where it     *)
(* tests the status, when the device is off-line; 0: no test.  `addr' is  *)
(* the address read by the last dbGetDeviceInfo.                          *)

Exists(res)   == [gone |-> res, off |-> 0]
processGetDeviceList   == <<>>
processGetDeviceInfo   == <<Exists(1), Exists(2)>>
processGetDeviceAck    == <<Exists(2), [gone |-> 3, off |-> 3], Exists(4)>>
processSetDeviceAck    == <<Exists(2), [gone |-> 3, off |-> 3], Exists(4)>>
processGetDeviceSubkey == <<Exists(2), [gone |-> 3, off |-> 3], Exists(4)>>
processControlDevice   == <<Exists(1), [gone |-> 2, off |-> 3]>>
processDeleteDevice    == <<Exists(1), Exists(3)>>
processGetGatewayStatue == <<>>
processControlLamp      == <<>>
processOpenTmpSSID      == <<>>
processSetOnlySSID      == <<>>
processOpenEasylink     == <<>>
processSetNetMode       == <<>>
processSetSystem        == <<>>
processSetUpdateUrl     == <<>>

FunProtocol == [list |-> processGetDeviceList, info |-> processGetDeviceInfo,
                getack |-> processGetDeviceAck, setack |-> processSetDeviceAck,
                subkey |-> processGetDeviceSubkey, control |-> processControlDevice,
                delete |-> processDeleteDevice, statue |-> processGetGatewayStatue,
                lamp |-> processControlLamp, tmpssid |-> processOpenTmpSSID,
                onlyssid |-> processSetOnlySSID, easylink |-> processOpenEasylink,
                netmode |-> processSetNetMode, system |-> processSetSystem,
                updateurl |-> processSetUpdateUrl]

Goto(w, pc) == work' = [work EXCEPT ![w].pc = pc]
SendCall(w, res) == work' = [work EXCEPT ![w] = [pc |-> "idle", res |-> res]]
SendKey(w, a) == work' = [work EXCEPT ![w] = [pc |-> "idle", res |-> a.res, by |-> a.by,
                                       key |-> IF @.cmd = "getack" THEN a.key ELSE @.key]]

\* late: the app asks for a timeout of more than 3000 ms
GAPStartProtocol(w) ==
    /\ work[w].pc = "idle" /\ reqs < MaxReq
    /\ \E c \in Commands, d \in Device, k \in Key, late \in BOOLEAN :
         /\ late => c \in KeyCmds
         /\ c \in Own \cup Mute => d = CHOOSE x \in Device : TRUE
         /\ c \in {"setack", "subkey"} \/ k = CHOOSE x \in Key : TRUE
         /\ IF late THEN SendCall(w, 1)
            ELSE work' = [work EXCEPT ![w] = [pc |-> "query", left |-> FunProtocol[c], cmd |-> c,
                                              d |-> d, key |-> k, id |-> reqs, addr |-> "none"]]
    /\ reqs' = reqs + 1
    /\ UNCHANGED <<running, db, window, allow, core, outq, dev, heard, up, down, ask, ans, moves>>

LocalUnchanged == UNCHANGED <<running, window, allow, core, outq, dev, heard, up, ans, reqs, moves>>

Query(w) ==
    LET row == db[work[w].d]
        q   == Head(work[w].left)
    IN /\ work[w].pc = "query" /\ work[w].left # <<>>
       /\ CASE row = NoRow -> SendCall(w, q.gone)
            [] q.off # 0 /\ row.status = 0 -> SendCall(w, q.off)
            [] OTHER -> work' = [work EXCEPT ![w].left = Tail(@), ![w].addr = row.addr]
       /\ LocalUnchanged /\ UNCHANGED <<db, down, ask>>

\* The list, the information, and the data given to XGSendDataToDevice
ReplyOk(w) ==
    /\ work[w].pc = "query" /\ work[w].left = <<>> /\ work[w].cmd \in {"list", "info", "control"} \cup Own
    /\ SendCall(w, 0)
    /\ LocalUnchanged /\ UNCHANGED <<db, down, ask>>

\* processSetSystem and processSetUpdateUrl do nothing in this build and answer nothing.
NoReply(w) ==
    /\ work[w].pc = "query" /\ work[w].cmd \in Mute
    /\ work' = [work EXCEPT ![w] = Idle]
    /\ LocalUnchanged /\ UNCHANGED <<db, down, ask>>

\* dbDeleteDevice, then XGRemoveDevice to the address read before, then the broadcasts
XGRemoveDevice(w) ==
    /\ work[w].pc = "query" /\ work[w].left = <<>> /\ work[w].cmd = "delete"
    /\ db' = [db EXCEPT ![work[w].d] = NoRow]
    /\ IF running THEN Twice(work[w].addr, "remove") ELSE UNCHANGED down
    /\ SendCall(w, 0)
    /\ LocalUnchanged /\ UNCHANGED ask

\* The console's "remove": the first device of the list, deleted as processDeleteDevice does.
ConsoleRemove ==
    /\ work["console"].pc = "idle" /\ reqs < MaxReq /\ "delete" \in Commands
    /\ \E d \in Device : /\ db[d] # NoRow
                         /\ work' = [work EXCEPT !["console"] = [pc |-> "query", left |-> <<Exists(0)>>, cmd |-> "delete",
                                                                 d |-> d, addr |-> "none"]]
    /\ reqs' = reqs + 1
    /\ UNCHANGED <<running, db, window, allow, core, outq, dev, heard, up, down, ask, ans, moves>>

\* The console's "add" announces a device whatever the table says; its "scan" is XGRestartNotify.
ft_xlink_console ==
    /\ reqs < MaxReq
    /\ reqs' = reqs + 1
    /\ \/ (\E d \in Device : XDNewDeviceJoinNotify(d)) /\ UNCHANGED heard
       \/ XGRestartNotify /\ UNCHANGED outq
    /\ UNCHANGED <<running, db, window, allow, core, work, dev, up, down, ask, ans, moves>>

\* XGGetAccessKey, XGSetAccessKey, XGGetSubKey: the request on a fresh socket, select() with a
\* timeout, and the first datagram that comes; the socket is closed on every path.
SendRequest(w) ==
    /\ work[w].pc = "query" /\ work[w].left = <<>> /\ work[w].cmd \in KeyCmds
    /\ IF running
         THEN /\ ask' = ask \cup {[id |-> work[w].id, cmd |-> work[w].cmd, addr |-> work[w].addr, key |-> work[w].key]}
              /\ Goto(w, "select")
         ELSE SendCall(w, -2) /\ UNCHANGED ask
    /\ LocalUnchanged /\ UNCHANGED <<db, down>>

\* Mutant: one socket for all requests.
RecvAnyAnswer(w) ==
    /\ work[w].pc = "select"
    /\ \E a \in ans : /\ SendKey(w, a)
                      /\ ans' = ans \ {a}
    /\ UNCHANGED <<running, db, window, allow, core, outq, dev, heard, up, down, ask, reqs, moves>>

RecvAnswer(w) ==
    /\ work[w].pc = "select"
    /\ \E a \in ans : /\ a.id = work[w].id
                      /\ SendKey(w, a)
                      /\ ans' = {b \in ans : b.id # a.id}
    /\ UNCHANGED <<running, db, window, allow, core, outq, dev, heard, up, down, ask, reqs, moves>>

SelectTimeout(w) ==
    /\ work[w].pc = "select"
    /\ SendCall(w, -7)
    /\ ans' = {b \in ans : b.id # work[w].id}
    /\ UNCHANGED <<running, db, window, allow, core, outq, dev, heard, up, down, ask, reqs, moves>>

-----------------------------------------------------------------------------
(* UDPWorkThread between two calls of XlinkLoop.                           *)

TakeNotification ==
    /\ work["udp"].pc = "idle" /\ outq # <<>>
    /\ outq' = Tail(outq)
    /\ UNCHANGED <<running, db, window, allow, core, work, dev, heard, up, down, ask, ans, reqs, moves>>

PeriodicRestart ==
    /\ work["udp"].pc = "idle"
    /\ XGRestartNotify
    /\ UNCHANGED <<running, db, window, allow, core, work, outq, dev, up, down, ask, ans, reqs, moves>>

PeriodicDiscover ==
    /\ work["udp"].pc = "idle" /\ allow > 0
    /\ XGDiscover
    /\ UNCHANGED <<running, db, window, allow, core, work, outq, dev, up, down, ask, ans, reqs, moves>>

-----------------------------------------------------------------------------
(* Sub-devices and the network (external).                                 *)

Say(d, t) == up' = IF Cardinality(up) < MaxUp THEN up \cup {[type |-> t, d |-> d, addr |-> dev[d].addr]} ELSE up

DeviceHears(d) ==
    /\ \E t \in heard[d] :
         /\ heard' = [heard EXCEPT ![d] = @ \ {t}]
         /\ IF t = "discover" /\ ~dev[d].joined THEN Say(d, "join")
            ELSE IF t = "restart" /\ dev[d].joined THEN Say(d, "restart") ELSE UNCHANGED up
    /\ UNCHANGED <<running, db, window, allow, core, work, outq, dev, down, ask, ans, reqs, moves>>

DeviceTakes(d, t) ==
    /\ down[d][t] > 0
    /\ down' = [down EXCEPT ![d][t] = @ - 1]
    /\ dev' = [dev EXCEPT ![d].joined = CASE t = "join0" -> TRUE
                                          [] t \in {"restart1", "remove"} -> FALSE [] OTHER -> @]
    /\ UNCHANGED <<running, db, window, allow, core, work, outq, heard, up, ask, ans, reqs, moves>>

\* A key is set once; a second attempt is answered "already set".
DeviceAnswers(d) ==
    /\ \E q \in ask :
         /\ q.addr = dev[d].addr
         /\ ask' = ask \ {q}
         /\ LET set  == q.cmd = "setack" /\ dev[d].key = NoKey
                good == \/ q.cmd = "setack" /\ set
                        \/ q.cmd = "getack" /\ dev[d].key # NoKey
                        \/ q.cmd = "subkey" /\ dev[d].key = q.key
            IN /\ dev' = IF set THEN [dev EXCEPT ![d].key = q.key] ELSE dev
               /\ ans' = IF \E w \in Worker : work[w].pc = "select" /\ work[w].id = q.id
                           THEN ans \cup {[id |-> q.id, res |-> IF good THEN 0 ELSE -14, by |-> d,
                                           key |-> dev[d].key]}
                           ELSE ans     \* the socket is closed
    /\ UNCHANGED <<running, db, window, allow, core, work, outq, heard, up, down, reqs, moves>>

DeviceMoves(d) ==
    /\ moves < MaxMoves
    /\ \E a \in Addr : /\ \A e \in Device : dev[e].addr # a
                       /\ dev' = [dev EXCEPT ![d].addr = a]
    /\ moves' = moves + 1
    /\ UNCHANGED <<running, db, window, allow, core, work, outq, heard, up, down, ask, ans, reqs>>

Lose ==
    /\ \/ \E d \in Device, t \in {"discover", "restart"} :
            t \in heard[d] /\ heard' = [heard EXCEPT ![d] = @ \ {t}] /\ UNCHANGED <<up, down, ask, ans>>
       \/ \E m \in up : up' = up \ {m} /\ UNCHANGED <<heard, down, ask, ans>>
       \/ \E d \in Device, t \in AnswerType :
            down[d][t] > 0 /\ down' = [down EXCEPT ![d][t] = @ - 1] /\ UNCHANGED <<heard, up, ask, ans>>
       \/ \E q \in ask : ask' = ask \ {q} /\ UNCHANGED <<heard, up, down, ans>>
       \/ \E a \in ans : ans' = ans \ {a} /\ UNCHANGED <<heard, up, down, ask>>
    /\ UNCHANGED <<running, db, window, allow, core, work, outq, dev, reqs, moves>>

-----------------------------------------------------------------------------
CommandStep(w) == \/ Query(w) \/ ReplyOk(w) \/ NoReply(w) \/ XGRemoveDevice(w)
                  \/ SendRequest(w) \/ RecvAnswer(w) \/ SelectTimeout(w)
CoreStep == \/ OnDiscoverDevice_t \/ dbAddDevice \/ OnDeviceRestartNotify_t
            \/ dbUpdateDeviceAddress
            \/ XGUdpDevcieRequestJoin \/ XGDeviceRestartNotify

Next ==
    \/ ConsoleDiscoverDevice \/ DiscoverntfThread \/ Tick
    \/ XGStartProtocolUdp \/ CoreStep \/ SetStatus
    \/ TakeNotification \/ PeriodicRestart \/ PeriodicDiscover \/ Lose
    \/ ConsoleRemove \/ ft_xlink_console
    \/ \E w \in Apps : processAllowDeviceJoin(w) \/ GAPStartProtocol(w)
    \/ \E w \in Worker : CommandStep(w)
    \/ \E d \in Chatty : XDControlData(d)
    \/ \E d \in Device : DeviceHears(d) \/ DeviceAnswers(d) \/ DeviceMoves(d)
                         \/ \E t \in AnswerType : DeviceTakes(d, t)

Spec == Init /\ [][Next]_vars

-----------------------------------------------------------------------------
\* Types; in particular at most two copies of an answer are under way, and the queue
\* g_header holds notifications of devices.
TypeOK ==
    /\ running \in BOOLEAN
    /\ db \in [Device -> Row \cup {NoRow}]
    /\ window \in -1..MaxTimeout /\ allow \in 0..MaxTimeout
    /\ core.pc \in {"idle", "join", "restart", "add", "update", "join0", "join1", "restart0", "restart1"}
    /\ \A w \in Worker : work[w].pc \in {"idle", "query", "select"}
    /\ outq \in Seq([cmd : {"join", "control"}, d : Device]) /\ Len(outq) <= MaxQueue
    /\ dev \in [Device -> [joined : BOOLEAN, addr : Addr, key : Key \cup {NoKey}]]
    /\ heard \in [Device -> SUBSET {"discover", "restart"}]
    /\ down \in [Device -> [AnswerType -> 0..2]]
    /\ \A m \in up : m.type \in {"join", "restart"} /\ m.d \in Device /\ m.addr \in Addr

\* What an app is told about a key is true: when processSetDeviceAck or processGetDeviceAck
\* answers success with a key, or processGetDeviceSubkey finds a key accepted, the device
\* that answered holds this key, although both threads may be making requests to it, and
\* answers to requests that were given up arrive late (XGageway.c:592, a socket per request).
AckTruthful ==
    \A w \in Worker : "by" \in DOMAIN work[w] /\ work[w].res = 0 => dev[work[w].by].key = work[w].key
=============================================================================
