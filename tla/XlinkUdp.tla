------------------------------ MODULE XlinkUdp ------------------------------
(* The xlink SDK's sessions with the phone apps on the local network.  All of   *)
(* it runs in UDPWorkThread: one turn of its loop expires silent clients, takes *)
(* at most one packet, works through the send buffer (XlinkResend) and queues    *)
(* at most one message for all clients.  A turn is one step; its parts are       *)
(* operators from the SDK's state to its next state.  The apps and the network   *)
(* are external: the network holds one packet to the gateway and MaxNet from it, *)
(* keeps their order and may lose any of them.                                   *)
EXTENDS Naturals, Sequences, SequencesExt, FiniteSetsExt

CONSTANTS App,        \* the apps, each with an address of its own
          XLINK_CLIENT_SIZE,  \* slots of g_xlink_client: 32 in the code
          Check,      \* session values: time % 253 + 1 in the code, never 0
          Keys,       \* access keys an app may set: subset of {1, Edge}
          Cmds,       \* what the apps send: subset of {"pipe", "set", "scan", "subkey", "ping", "probe", "debug", "alien"}
          MaxResend,  \* 4: resends of a message before it is given up
          MaxPipe,    \* bound: messages of an app
          MaxPipes,   \* bound: messages of all apps
          MaxPush,    \* bound: messages the gateway queues for all apps
          MaxHello,   \* bound: handshakes and settings of a key
          MaxNet      \* bound: packets on their way to the apps

ASSUME UdpAssumption ==
  /\ App # {} /\ XLINK_CLIENT_SIZE \in Nat \ {0} /\ 0 \notin Check
  /\ Cmds \subseteq {"pipe", "set", "scan", "subkey", "ping", "probe", "debug", "alien"}
  /\ {MaxResend, MaxPipe, MaxPipes, MaxPush, MaxHello, MaxNet} \subseteq Nat

\* The indices of g_xlink_client.
Slot == 0..(XLINK_CLIENT_SIZE - 1)

VARIABLES d,    \* the SDK: [sock, client, count, list, msgid, key, out] and what the properties look at
          app,  \* app[a]: its session, the message it waits for, the last one it got
          up,   \* the packet on its way to the gateway, as a sequence of length 0 or 1
          turn, \* flips with every turn 300 ms after the last resends
          hellos, \* handshakes sent and keys set so far
          down  \* the packets on their way to the apps

udpVars == <<d, app, turn, hellos, up, down>>

None == [slot |-> 0, check |-> 0]
\* Access keys: none set; a set one; 999999999, which may be set but does not count as set.
Unset == 0
Edge == 9
\* XLINK_CLIENT.  login and own are not in the code: the key the session was opened with, and whether
\* msgid was stored during this session.
NoClient == [app |-> CHOOSE a \in App : TRUE, active |-> FALSE, check |-> 0, msgid |-> 0,
             sendid |-> 0, cnt |-> 0, login |-> Unset, own |-> FALSE]

\* XlinnkClientInit, XlinkV4UdpInit; the key is read from flash.  done counts how often a message of an app was handled, swallowed
\* holds those acknowledged without being handled, stray whether a slot expired with messages waiting.
UdpInit ==
  /\ \E k \in Keys \cup {Unset} :
     d = [sock |-> FALSE, client |-> [s \in Slot |-> NoClient], count |-> FALSE, list |-> <<>>, msgid |-> 1, key |-> k,
          out |-> <<>>, done |-> [a \in App |-> [n \in 1..MaxPipe |-> 0]],
          swallowed |-> {}, stray |-> FALSE]
  /\ app = [a \in App |-> [sess |-> None, wait |-> 0, cmd |-> "pipe", sent |-> 0, got |-> 1, acked |-> {}, lost |-> FALSE]]
  /\ turn = 0 /\ hellos = 0 /\ up = <<>> /\ down = <<>>

-----------------------------------------------------------------------------
(* The SDK *)

\* sendto an app, which fails without a socket.
XlinkClientSendDataToAddr(x, a, p) == IF x.sock THEN [x EXCEPT !.out = Append(@, [to |-> a, p |-> p])] ELSE x

\* The slots in gone have been silent for their keepAliveTime.
XlinkClientCheckHeartbeat(x, gone) ==
  LET c == [s \in Slot |-> IF s \in gone /\ x.client[s].active
                           THEN [x.client[s] EXCEPT !.active = FALSE, !.check = 0, !.msgid = 0, !.own = FALSE, !.login = Unset]
                           ELSE x.client[s]]
  IN  [x EXCEPT !.client = c, !.count = (\E s \in Slot : c[s].active),
                !.stray = @ \/ \E s \in gone : \E i \in DOMAIN x.list : s \in x.list[i].users]

Free(x) == {s \in Slot : ~x.client[s].active}
Mine(x, a) == {s \in Slot : x.client[s].active /\ x.client[s].app = a}

\* Mutant: an address that is already active is not looked for.
AddAlwaysNew(x, a, v) ==
  IF Free(x) = {} THEN x
  ELSE [x EXCEPT !.client[Min(Free(x))] = [@ EXCEPT !.app = a, !.active = TRUE, !.check = v, !.login = x.key, !.own = FALSE],
                 !.count = TRUE]

\* An active address keeps its slot and check value; otherwise the first free slot, if there is one.
XlinkClientAddclient(x, a, v) ==
  IF Mine(x, a) # {} THEN [x EXCEPT !.count = TRUE]
  ELSE IF Free(x) = {} THEN x
  ELSE [x EXCEPT !.client[Min(Free(x))] = [@ EXCEPT !.app = a, !.active = TRUE, !.check = v, !.login = x.key, !.own = FALSE],
                 !.count = TRUE]

\* messageid, sendmessageid and clientCount are left as they are.
XlinkClientQuit(x, s) == [x EXCEPT !.client[s] = [@ EXCEPT !.active = FALSE, !.check = 0, !.own = FALSE, !.login = Unset]]

XlinkClientcheckclientLogin(x, a, sess) ==
  /\ sess.slot \in Slot
  /\ LET c == x.client[sess.slot] IN c.active /\ c.check = sess.check /\ c.app = a

\* The ids of the messages start again with 0.
getUdpMsgID(id) == IF id + 1 > 10000 THEN 0 ELSE id + 1

\* A message for the given slots at the tail of the list.  "to" is not in the code: whom it is meant for.
Enqueue(x, users) ==
  [x EXCEPT !.msgid = getUdpMsgID(@), !.list = Append(@, [id |-> getUdpMsgID(x.msgid), users |-> users, to |-> {x.client[s].app : s \in users}])]

\* To one slot, or to every active one; refused when clientCount is 0 or the slot is not active.
XlinkSendUdpPipe(x, slots) ==
  LET users == {s \in slots : x.client[s].active}
  IN  IF x.count /\ (slots = Slot \/ users # {}) THEN Enqueue(x, users) ELSE x

\* The same without the test of clientCount.
XlinkClientSendUdpDataPointSync_V2(x) == Enqueue(x, {s \in Slot : x.client[s].active})

\* The md5 of the key must match; silent clients are expired before a slot is looked for.
XlinkProcessUdpHandshake_V4(x, a, p, gone, v) ==
  LET y == XlinkClientAddclient(XlinkClientCheckHeartbeat(x, gone), a, v)
  IN  IF p.key # x.key THEN XlinkClientSendDataToAddr(x, a, [cmd |-> "refused"])
      ELSE IF Mine(y, a) = {} THEN XlinkClientSendDataToAddr(y, a, [cmd |-> "refused"])
      ELSE LET s == Min(Mine(y, a))
           IN  XlinkClientSendDataToAddr(y, a, [cmd |-> "session", sess |-> [slot |-> s, check |-> y.client[s].check]])

\* A key is set once: 0 < key < 999999999 counts as set, keys up to 999999999 are accepted.
XlinkProcessUdpSETACK_V4(x, a, p) ==
  IF x.key \notin {Unset, Edge}
  THEN XlinkClientSendDataToAddr(x, a, [cmd |-> "refused"])
  ELSE XlinkClientSendDataToAddr([x EXCEPT !.key = p.key], a, [cmd |-> "done"])

\* Mutant: every message is handled, whether or not it was before.
PipeAlways(x, a, p) ==
  IF ~XlinkClientcheckclientLogin(x, a, p.sess)
  THEN XlinkClientSendDataToAddr(x, a, [cmd |-> "ack", id |-> p.id, ok |-> FALSE])
  ELSE LET y == [x EXCEPT !.client[p.sess.slot].msgid = p.id, !.client[p.sess.slot].own = TRUE, !.count = TRUE,
                          !.done[a][p.id] = @ + 1]
       IN  XlinkSendUdpPipe(XlinkClientSendDataToAddr(y, a, [cmd |-> "ack", id |-> p.id, ok |-> TRUE]), {p.sess.slot})

\* A resent message whose id is the last one's is acknowledged only.  Otherwise it is acknowledged and
\* handled: the gateway application answers it with a message to the same slot.
XlinkProcessUdpPipe_V4(x, a, p) ==
  LET c == x.client[p.sess.slot]
      ack(y, ok) == XlinkClientSendDataToAddr(y, a, [cmd |-> "ack", id |-> p.id, ok |-> ok])
  IN  IF ~XlinkClientcheckclientLogin(x, a, p.sess) THEN ack(x, FALSE)
      ELSE IF p.resend /\ c.msgid = p.id
      THEN ack([x EXCEPT !.count = TRUE, !.swallowed = IF c.own THEN @ ELSE @ \cup {<<a, p.id>>}], TRUE)
      ELSE XlinkSendUdpPipe(ack([x EXCEPT !.client[p.sess.slot].msgid = p.id, !.client[p.sess.slot].own = TRUE,
                                          !.count = TRUE, !.done[a][p.id] = @ + 1], TRUE), {p.sess.slot})

\* The same for a SET, which sets the name or a datapoint and shares messageid with PIPE.
XlinkProcessUdpSet_V4(x, a, p) ==
  LET c == x.client[p.sess.slot]
      ack(y, ok) == XlinkClientSendDataToAddr(y, a, [cmd |-> "ack", id |-> p.id, ok |-> ok])
  IN  IF ~XlinkClientcheckclientLogin(x, a, p.sess) THEN ack(x, FALSE)
      ELSE IF p.resend /\ c.msgid = p.id
      THEN ack([x EXCEPT !.count = TRUE, !.swallowed = IF c.own THEN @ ELSE @ \cup {<<a, p.id>>}], TRUE)
      ELSE ack([x EXCEPT !.client[p.sess.slot].msgid = p.id, !.client[p.sess.slot].own = TRUE,
                         !.count = TRUE, !.done[a][p.id] = @ + 1], TRUE)

\* The queries.  A ping is answered within a session only; a probe outside of one is refused with a
\* packet to the slot's last address, whoever that is; a subkey is given for the md5 of the key.
XlinkProcessUdpScan_V4(x, a) == XlinkClientSendDataToAddr(x, a, [cmd |-> "done"])
XlinkProcessUdpGetSubKey_V4(x, a, p) ==
  XlinkClientSendDataToAddr(x, a, [cmd |-> IF p.key = x.key THEN "done" ELSE "refused"])
XlinkProcessUdpPing_V4(x, a, p) ==
  IF XlinkClientcheckclientLogin(x, a, p.sess)
  THEN XlinkClientSendDataToAddr([x EXCEPT !.count = TRUE], a, [cmd |-> "done"]) ELSE x
XlinkProcessUdpProbe_Datapoint_V4(x, a, p) ==
  IF XlinkClientcheckclientLogin(x, a, p.sess)
  THEN XlinkClientSendDataToAddr([x EXCEPT !.count = TRUE], a, [cmd |-> "done"])
  ELSE XlinkClientSendDataToAddr(x, x.client[p.sess.slot].app, [cmd |-> "refused"])

XlinkProcessUdpByby_V4(x, a, p) ==
  IF XlinkClientcheckclientLogin(x, a, p.sess) THEN XlinkClientQuit([x EXCEPT !.count = TRUE], p.sess.slot) ELSE x

\* Items no slot waits for any more leave the list.
NSProcessClearNotUserData(list) ==
  LET kept[n \in 0..Len(list)] ==
        IF n = 0 THEN <<>> ELSE IF list[n].users = {} THEN kept[n - 1] ELSE Append(kept[n - 1], list[n])
  IN  kept[Len(list)]

\* The client has acknowledged a message: the first one with that id.
NSProcessRemoveMessageid(x, s, id) ==
  LET at == {i \in DOMAIN x.list : x.list[i].id = id}
  IN  IF at = {} THEN x
      ELSE [x EXCEPT !.list = NSProcessClearNotUserData([x.list EXCEPT ![Min(at)].users = @ \ {s}])]

XlinkProcessUdpPipeResponse_V4(x, a, p) ==
  IF XlinkClientcheckclientLogin(x, a, p.sess)
  THEN NSProcessRemoveMessageid([x EXCEPT !.count = TRUE], p.sess.slot, p.id) ELSE x

\* The handlers by command, and those of the answers.
gs_UdpCmdFunction(x, a, p, gone, v) ==
  CASE p.cmd = "hello" -> XlinkProcessUdpHandshake_V4(x, a, p, gone, v)
    [] p.cmd = "setack" -> XlinkProcessUdpSETACK_V4(x, a, p)
    [] p.cmd = "pipe" -> XlinkProcessUdpPipe_V4(x, a, p)
    [] p.cmd = "set" -> XlinkProcessUdpSet_V4(x, a, p)
    [] p.cmd = "scan" -> XlinkProcessUdpScan_V4(x, a)
    [] p.cmd = "subkey" -> XlinkProcessUdpGetSubKey_V4(x, a, p)
    [] p.cmd = "ping" -> XlinkProcessUdpPing_V4(x, a, p)
    [] p.cmd = "probe" -> XlinkProcessUdpProbe_Datapoint_V4(x, a, p)
    [] p.cmd = "bye" -> XlinkProcessUdpByby_V4(x, a, p)

gs_UdpCmdFunctionResponse(x, a, p) == XlinkProcessUdpPipeResponse_V4(x, a, p)

\* Three bytes, XDG, are answered to anyone, without a session.
XlinkProcess_DebugInfo(x, a) == XlinkClientSendDataToAddr(x, a, [cmd |-> "done"])

\* A packet that was encoded with another share key has the wrong checksum.
Ddcode(p) == p.cmd # "alien"

XlinkProcessUdpDataV4(x, a, p, gone, v) ==
  IF p.cmd = "debug" THEN XlinkProcess_DebugInfo(x, a)
  ELSE IF ~Ddcode(p) THEN x
  ELSE IF p.cmd = "got" THEN gs_UdpCmdFunctionResponse(x, a, p)
  ELSE gs_UdpCmdFunction(x, a, p, gone, v)

\* Mutant: the messages of a client that left stay.
RemoveNothing(x, s) == x

NSProcessRemoveClient(x, s) ==
  [x EXCEPT !.list = NSProcessClearNotUserData([i \in DOMAIN x.list |-> [x.list[i] EXCEPT !.users = @ \ {s}]])]

\* Mutant: resends are not counted.
SendForever(x, s, due) ==
  LET waiting == {i \in DOMAIN x.list : s \in x.list[i].users}
      i == Min(waiting)
      m == x.list[i]
      pkt(r) == [cmd |-> "item", id |-> m.id, resend |-> r, mine |-> x.client[s].app \in m.to]
  IN  IF waiting = {} THEN x
      ELSE IF x.client[s].sendid # m.id
      THEN XlinkClientSendDataToAddr([x EXCEPT !.client[s].sendid = m.id, !.client[s].cnt = 0], x.client[s].app, pkt(FALSE))
      ELSE IF ~due THEN x
      ELSE XlinkClientSendDataToAddr(x, x.client[s].app, pkt(TRUE))

\* The first message waiting for the slot: sent, or sent again once 300 ms have passed (due), or given up.
NSProcessSendClient(x, s, due) ==
  LET waiting == {i \in DOMAIN x.list : s \in x.list[i].users}
      i == Min(waiting)
      m == x.list[i]
      pkt(r) == [cmd |-> "item", id |-> m.id, resend |-> r, mine |-> x.client[s].app \in m.to]
  IN  IF waiting = {} THEN x
      ELSE IF x.client[s].sendid # m.id
      THEN XlinkClientSendDataToAddr([x EXCEPT !.client[s].sendid = m.id, !.client[s].cnt = 0], x.client[s].app, pkt(FALSE))
      ELSE IF ~due THEN x
      ELSE IF x.client[s].cnt >= MaxResend
      THEN [x EXCEPT !.list[i].users = @ \ {s}, !.client[s].cnt = 0]
      ELSE XlinkClientSendDataToAddr([x EXCEPT !.client[s].cnt = @ + 1], x.client[s].app, pkt(TRUE))

\* One slot: a message for its client, or none for a client that left.
Serve(x, s, due) == IF x.client[s].active THEN NSProcessSendClient(x, s, due) ELSE NSProcessRemoveClient(x, s)

\* Every slot in turn, then the messages nobody waits for are freed.
NSProcessSendBufferTask(x, due) ==
  LET served[n \in 0..XLINK_CLIENT_SIZE] == IF n = 0 THEN x ELSE Serve(served[n - 1], n - 1, n - 1 \in due)
      y == served[XLINK_CLIENT_SIZE]
  IN  IF x.list = <<>> THEN x ELSE [y EXCEPT !.list = NSProcessClearNotUserData(@)]

\* The network takes what was sent in a turn; what finds its channel full is lost.
Flush(x) ==
  /\ d' = [x EXCEPT !.out = <<>>]
  /\ LET all == down \o x.out IN down' = SubSeq(all, 1, Min({MaxNet, Len(all)}))

\* One packet, if the descriptor is readable.
event_udp_recv_data(x, gone, v) ==
  IF up = <<>> \/ ~x.sock THEN x ELSE XlinkProcessUdpDataV4(x, up[1].from, up[1].p, gone, v)

\* Making a socket and binding it to the port succeeds or not.
xlink_udp_create == BOOLEAN

\* A turn that finds no socket makes one, or leaves it to the next turn.
set_event_udp(x, made) == [x EXCEPT !.sock = @ \/ made]

\* Expiry every 3 s, then the descriptors.
xlink_net_loop(gone, v, made) == event_udp_recv_data(set_event_udp(XlinkClientCheckHeartbeat(d, gone), made), gone, v)

\* One turn: the sessions and the network, the send buffer, at most one message to all.
XlinkLoop(gone, v, due, push, made) ==
  LET z == NSProcessSendBufferTask(xlink_net_loop(gone, v, made), due)
      w == CASE push = "pipe" -> XlinkSendUdpPipe(z, Slot)
             [] push = "sync" -> XlinkClientSendUdpDataPointSync_V2(z)
             [] push = "none" -> z
  IN  /\ push # "none" => d.msgid <= MaxPush
      /\ Flush(w)
      /\ up' = <<>>
      /\ turn' = IF due = Slot THEN 1 - turn ELSE turn
      /\ UNCHANGED <<app, hellos>>

-----------------------------------------------------------------------------
(* The apps and the network *)

Post(a, p) == up = <<>> /\ up' = <<[from |-> a, p |-> p]>>

\* The app knows the key, which a scan shows to anyone; another may be set before the handshake arrives.
AppHello(a) ==
  /\ app[a].sess = None
  /\ Post(a, [cmd |-> "hello", key |-> d.key])
  /\ hellos < MaxHello /\ hellos' = hellos + 1
  /\ UNCHANGED <<d, down, app, turn>>

AppKey(a) ==
  /\ \E k \in Keys : Post(a, [cmd |-> "setack", key |-> k])
  /\ hellos < MaxHello /\ hellos' = hellos + 1
  /\ UNCHANGED <<d, down, app, turn>>

\* A new message, or the one not yet acknowledged once more.
AppPipe(a) ==
  /\ app[a].sess # None
  /\ \/ /\ app[a].wait = 0 /\ app[a].sent < MaxPipe
        /\ MapThenSumSet(LAMBDA b : app[b].sent, App) < MaxPipes
        /\ \E c \in Cmds \cap {"pipe", "set"} :
             /\ Post(a, [cmd |-> c, sess |-> app[a].sess, id |-> app[a].sent + 1, resend |-> FALSE])
             /\ app' = [app EXCEPT ![a].sent = @ + 1, ![a].wait = app[a].sent + 1, ![a].cmd = c]
     \/ /\ app[a].wait # 0
        /\ Post(a, [cmd |-> app[a].cmd, sess |-> app[a].sess, id |-> app[a].wait, resend |-> TRUE])
        /\ UNCHANGED app
  /\ UNCHANGED <<d, down, hellos, turn>>

AppAsk(a) ==
  /\ \E c \in Cmds \ {"pipe", "set"} : Post(a, [cmd |-> c, sess |-> app[a].sess, key |-> d.key])
  /\ UNCHANGED <<d, down, hellos, turn, app>>

AppBye(a) ==
  /\ app[a].sess # None
  /\ Post(a, [cmd |-> "bye", sess |-> app[a].sess])
  /\ app' = [app EXCEPT ![a].sess = None, ![a].wait = 0]
  /\ UNCHANGED <<d, down, hellos, turn>>

\* The app takes the next packet: a session, a key, the answer to a message, or a message to acknowledge.
AppTakes(a) ==
  /\ down # <<>> /\ Head(down).to = a
  /\ LET p == Head(down).p
     IN  CASE p.cmd = "session" -> app' = [app EXCEPT ![a].sess = p.sess] /\ UNCHANGED up
           [] p.cmd \in {"refused", "done"} -> UNCHANGED <<app, up>>
           [] p.cmd = "ack" ->
                /\ app' = IF p.ok THEN [app EXCEPT ![a].wait = IF @ = p.id THEN 0 ELSE @, ![a].acked = @ \cup {p.id}]
                          ELSE [app EXCEPT ![a].sess = None, ![a].wait = 0]
                /\ UNCHANGED up
           [] p.cmd = "item" ->
                /\ Post(a, [cmd |-> "got", sess |-> app[a].sess, id |-> p.id])
                /\ app' = IF p.resend /\ p.id = app[a].got THEN app
                          ELSE [app EXCEPT ![a].got = p.id, ![a].lost = @ \/ ~p.mine]
  /\ down' = Tail(down)
  /\ UNCHANGED <<d, hellos, turn>>

Lose ==
  \/ up # <<>> /\ up' = <<>> /\ UNCHANGED <<d, app, hellos, down, turn>>
  \/ down # <<>> /\ down' = Tail(down) /\ UNCHANGED <<d, app, hellos, up, turn>>

-----------------------------------------------------------------------------
Loop(due) ==
  \E gone \in SUBSET {s \in Slot : d.client[s].active}, v \in Check, push \in {"pipe", "sync", "none"}, made \in xlink_udp_create :
    XlinkLoop(gone, v, due, push, made)
Apps == \E a \in App : AppHello(a) \/ AppKey(a) \/ AppPipe(a) \/ AppAsk(a) \/ AppBye(a) \/ AppTakes(a)

UdpNext == (\E due \in SUBSET Slot : Loop(due)) \/ Apps \/ Lose

UdpSpec == UdpInit /\ [][UdpNext]_udpVars

-----------------------------------------------------------------------------
\* What the SDK holds, and the packets to and from it.
Key == Keys \cup {Unset}
Session == [slot : Slot, check : Check \cup {0}]
Client == [app : App, active : BOOLEAN, check : Check \cup {0}, msgid : 0..MaxPipe,
           sendid : Nat, cnt : Nat, login : Key, own : BOOLEAN]
Item == [id : Nat, users : SUBSET Slot, to : SUBSET App]
Packet == [cmd : {"refused", "done"}] \cup [cmd : {"session"}, sess : Session]
           \cup [cmd : {"ack"}, id : 1..MaxPipe, ok : BOOLEAN]
           \cup [cmd : {"item"}, id : Nat, resend : BOOLEAN, mine : BOOLEAN]
Letter == [to : App, p : Packet]
Sdk == [sock : BOOLEAN, client : [Slot -> Client], count : BOOLEAN, list : Seq(Item), msgid : Nat, key : Key,
        out : Seq(Letter), done : [App -> [1..MaxPipe -> Nat]], swallowed : SUBSET (App \X (1..MaxPipe)), stray : BOOLEAN]
Request == [cmd : {"hello"}, key : Key] \cup [cmd : {"setack"}, key : Keys]
             \cup [cmd : {"pipe", "set"}, sess : Session, id : 1..MaxPipe, resend : BOOLEAN]
             \cup [cmd : {"scan", "subkey", "ping", "probe", "debug", "alien"}, sess : Session, key : Key]
             \cup [cmd : {"bye"}, sess : Session] \cup [cmd : {"got"}, sess : Session, id : Nat]
Phone == [sess : Session, wait : 0..MaxPipe, cmd : {"pipe", "set"}, sent : 0..MaxPipe, got : Nat,
          acked : SUBSET (1..MaxPipe), lost : BOOLEAN]

UdpTypeOK ==
  /\ d \in Sdk /\ app \in [App -> Phone]
  /\ up \in Seq([from : App, p : Request]) /\ Len(up) <= 1
  /\ down \in Seq(Letter) /\ Len(down) <= MaxNet
  /\ turn \in {0, 1} /\ hellos \in 0..MaxHello

\* An address has at most one active slot, an active slot a check value, and clientCount is set while
\* one is active (XlinkSendUdpPipe refuses otherwise), through handshakes, byes and expiries.
SessionsSound ==
  /\ \A s, t \in DOMAIN d.client : d.client[s].active /\ d.client[t].active /\ d.client[s].app = d.client[t].app => s = t
  /\ \A s \in DOMAIN d.client : d.client[s].active => d.client[s].check # 0 /\ d.count
  /\ \A s \in DOMAIN d.client : d.client[s].active => d.client[s].login \in {d.key, Unset, Edge}

\* With one packet in flight, a message of an app is handled at most once whatever is resent, and one
\* that was acknowledged was handled, unless an id left in the slot by an earlier session swallowed it.
PipeExactlyOnce ==
  \A a \in DOMAIN app : \A n \in DOMAIN d.done[a] :
    d.done[a][n] <= 1 /\ (n \in app[a].acked => d.done[a][n] = 1 \/ <<a, n>> \in d.swallowed)

\* A message reaches only an app it was queued for, although the slot it was queued for can have a new
\* owner by then, as long as no slot expires with messages waiting.
ReplyReachesAsker == d.stray \/ \A a \in DOMAIN app : ~app[a].lost
=============================================================================
