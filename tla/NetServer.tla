----------------------------- MODULE NetServer -----------------------------
(* The TCP server for devices (ft_ikcc_net_server) on top of the message        *)
(* centre: listenThread, one clientThread per connection, and the one-second    *)
(* timer that sends heartbeats.  Devices are nodes of a list (tool/ft_map); a    *)
(* lookup returns a pointer that is used after the list's lock is released,      *)
(* so lookups and uses are separate steps, and a login frees the node it         *)
(* replaces.  stale records that a freed node was used.                          *)
EXTENDS MsgTransfer

CONSTANTS Fd,         \* descriptors accept() can return
          Minute,     \* SECONDS_PER_MINUTE, in ticks of the timer
          MaxLogins,  \* bound: nodes allocated
          MaxUp,      \* bound: data messages of each device
          MaxAnswers  \* bound: messages waiting for a device that answers or logs out

VARIABLES heap,    \* the nodes malloc() has returned, in order
          map,     \* s_dev_map_queue: indices of heap
          th,      \* the thread that serves each descriptor
          up,      \* data messages of each device so far
          downOut, \* number of the last cloud message sent to each device
          stale    \* a node was used after it was freed, or before its queue was made

serverVars == <<heap, map, th, up, downOut, stale>>
vars == <<centreVars, serverVars>>

Freed == [mac |-> "freed", fd |-> "freed", hb |-> 0, online |-> FALSE, made |-> FALSE, queue |-> <<>>]
NoThread == [pc |-> "free", mac |-> "none", node |-> 0, boot |-> FALSE]

Init ==
  /\ CentreInit
  /\ heap = <<>> /\ map = <<>>
  /\ th = [f \in Fd |-> NoThread]
  /\ up = [d \in Dev |-> 0] /\ downOut = [d \in Dev |-> 0]
  /\ stale = FALSE

-----------------------------------------------------------------------------
(* tool/ft_map *)

\* Both lookups return the last match, or NULL (0).
find_device_by_mac(mac) ==
  LET found == {i \in DOMAIN map : heap[map[i]].mac = mac}
  IN  IF found = {} THEN 0 ELSE map[Max(found)]

find_device_by_fd(fd) ==
  LET found == {i \in DOMAIN map : heap[map[i]].fd = fd}
  IN  IF found = {} THEN 0 ELSE map[Max(found)]

\* A node with the same mac is replaced in its place and freed.
add_device_to_list(mac, fd) ==
  LET new == Len(heap) + 1
      fresh == [mac |-> mac, fd |-> fd, hb |-> 0, online |-> TRUE, made |-> FALSE, queue |-> <<>>]
      same == {i \in DOMAIN map : heap[map[i]].mac = mac}
  IN  IF same = {}
      THEN /\ map' = Append(map, new)
           /\ heap' = Append(heap, fresh)
      ELSE /\ map' = [map EXCEPT ![Min(same)] = new]
           /\ heap' = Append([heap EXCEPT ![map[Min(same)]] = Freed], fresh)

Usable(n) == n \in Range(map) /\ heap[n].made

\* Put m in the queue of node n; through a pointer that is no longer good it is lost.
PushTo(n, m) ==
  IF Usable(n)
  THEN heap' = [heap EXCEPT ![n].queue = PUSH_ENQUEUE(@, m)] /\ UNCHANGED stale
  ELSE UNCHANGED heap /\ stale' = TRUE

\* Mutant: the comparison with three periods is an equality that is never reached.
CheckNever(n) ==
  IF ~n.online THEN n
  ELSE [n EXCEPT !.hb = (n.hb + 1) % (3 * Minute),
                 !.queue = IF (1 + n.hb) % Minute = 0 /\ n.made /\ Len(@) < 4
                           THEN PUSH_ENQUEUE(@, Msg("DEV_HEARTBEAT", n.mac, 0)) ELSE @]

\* One node of __check_heartbeat.
Check(n) ==
  IF ~n.online THEN n
  ELSE [n EXCEPT !.hb = @ + 1,
                 !.online = n.hb + 1 <= 3 * Minute,
                 !.queue = IF (1 + n.hb) % Minute = 0 /\ n.made
                           THEN PUSH_ENQUEUE(@, Msg("DEV_HEARTBEAT", n.mac, 0)) ELSE @]

\* The timer's function, once a second, with the list locked.
__check_heartbeat ==
  /\ \E i \in DOMAIN map : heap[map[i]].online
  /\ heap' = [i \in DOMAIN heap |-> IF i \in Range(map) THEN Check(heap[i]) ELSE heap[i]]
  /\ stale' = (stale \/ \E i \in Range(map) : /\ heap[i].online /\ ~heap[i].made
                                              /\ (1 + heap[i].hb) % Minute = 0)
  /\ UNCHANGED <<centreVars, map, th, up, downOut>>

__clear_heartbeat_count(mac) ==
  heap' = [i \in DOMAIN heap |->
             IF i \in Range(map) /\ heap[i].mac = mac
             THEN [heap[i] EXCEPT !.hb = 0, !.online = TRUE] ELSE heap[i]]

-----------------------------------------------------------------------------
(* Threads.  boot: the code runs in listenThread, on the first message of the   *)
(* connection; a failure then leaves the descriptor without a thread.           *)

At(f, pc) == th[f].pc = pc
Goto(f, pc) == th' = [th EXCEPT ![f].pc = pc]
Receiving(f) == At(f, "first") \/ At(f, "run")
Return(f, success) ==
  th' = [th EXCEPT ![f].pc = IF @ = "first" \/ th[f].boot THEN (IF success THEN "run" ELSE "dead")
                             ELSE "run",
                   ![f].boot = FALSE, ![f].node = 0]

Accept(f) ==
  /\ At(f, "free")
  /\ \A g \in Fd : ~th[g].boot
  /\ th' = [th EXCEPT ![f] = [NoThread EXCEPT !.pc = "first", !.boot = TRUE]]
  /\ UNCHANGED <<centreVars, heap, map, up, downOut, stale>>

\* Nothing within five seconds: the descriptor is closed.
FirstTimeout(f) ==
  /\ At(f, "first")
  /\ th' = [th EXCEPT ![f] = NoThread]
  /\ UNCHANGED <<centreVars, heap, map, up, downOut, stale>>

\* A wrong key or user, an unknown type, or end of file as the first message.
FirstRefused(f) ==
  /\ At(f, "first")
  /\ Return(f, FALSE)
  /\ UNCHANGED <<centreVars, heap, map, up, downOut, stale>>

\* __device_login in four steps: between them other threads may find the node.  The
\* login's own lookups are not separated from their use.
LoginAdd(f, d) ==
  /\ Receiving(f) /\ Len(heap) < MaxLogins
  /\ add_device_to_list(d, f)
  /\ th' = [th EXCEPT ![f].pc = "Create", ![f].mac = d]
  /\ UNCHANGED <<centreVars, up, downOut, stale>>

CREATE_QUEUE(f) ==
  /\ At(f, "Create")
  /\ LET n == find_device_by_mac(th[f].mac) IN
       heap' = [heap EXCEPT ![n].queue = <<>>, ![n].made = TRUE]
  /\ Goto(f, "Ack")
  /\ UNCHANGED <<centreVars, map, up, downOut, stale>>

LoginAck(f) ==
  /\ At(f, "Ack")
  /\ PushTo(find_device_by_mac(th[f].mac), Msg("DEV_ONLINE", th[f].mac, 0))
  /\ Goto(f, "Register")
  /\ UNCHANGED <<centreVars, map, up, downOut>>

hw_register_service(f) ==
  /\ At(f, "Register") /\ ~hwLock
  /\ hwList' = register_service(hwList, th[f].mac)
  /\ Return(f, TRUE)
  /\ UNCHANGED <<hwLock, dsList, data, devQ, cloudQ, nativeQ, sockets, mt, down, upOut>>
  /\ UNCHANGED <<heap, map, up, downOut, stale>>

\* __device_logout up to hw_unregister_service.  A device only logs out under a name
\* that has logged in, and not again before it has read its answers (MaxAnswers).
LogoutAck(f, d) ==
  /\ Receiving(f)
  /\ LET n == find_device_by_mac(d) IN
       /\ n # 0 /\ Len(heap[n].queue) < MaxAnswers
       /\ PushTo(n, Msg("DEV_OFFLINE", d, 0))
  /\ th' = [th EXCEPT ![f].pc = "Unregister", ![f].mac = d]
  /\ UNCHANGED <<centreVars, map, up, downOut>>

\* The result is tested the wrong way round: del_device_data fails only on an
\* empty list, and only then does the logout report success.
hw_unregister_service(f) ==
  /\ At(f, "Unregister") /\ ~hwLock
  /\ hwList' = unregister_service(hwList, th[f].mac)
  /\ data' = del_device_data(data, th[f].mac)
  /\ Return(f, data = <<>>)
  /\ UNCHANGED <<hwLock, dsList, devQ, cloudQ, nativeQ, sockets, mt, down, upOut>>
  /\ UNCHANGED <<heap, map, up, downOut, stale>>

__device_msg(f, d) ==
  /\ Receiving(f) /\ th[f].mac \in {"none", d} /\ up[d] < MaxUp
  /\ __clear_heartbeat_count(d)
  /\ up' = [up EXCEPT ![d] = @ + 1]
  /\ hw_send_msg_tobuf(Msg("DEV_DATA_UP", d, up[d] + 1))
  /\ Return(f, TRUE)
  /\ UNCHANGED <<hwList, hwLock, dsList, data, cloudQ, nativeQ, sockets, mt, down, upOut>>
  /\ UNCHANGED <<map, downOut, stale>>

\* __device_heartbeat has no return statement: listenThread may read either result.
\* A device that has logged in answers once it has read the messages before.
__device_heartbeat(f, d) ==
  /\ Receiving(f) /\ th[f].mac \in {"none", d}
  /\ \A i \in Range(map) : heap[i].mac = d => heap[i].hb > 0 /\ Len(heap[i].queue) < MaxAnswers
  /\ __clear_heartbeat_count(d)
  /\ \E success \in BOOLEAN : Return(f, success)
  /\ UNCHANGED <<centreVars, map, up, downOut, stale>>

\* recv() <= 0 in clientThread: the thread ends, the descriptor is not closed.
ClientGone(f) ==
  /\ At(f, "run")
  /\ Goto(f, "dead")
  /\ UNCHANGED <<centreVars, heap, map, up, downOut, stale>>

\* select() timed out in clientThread.
FindOwn(f) ==
  /\ At(f, "run") /\ find_device_by_fd(f) # 0
  /\ th' = [th EXCEPT ![f].pc = "Pop", ![f].node = find_device_by_fd(f)]
  /\ UNCHANGED <<centreVars, heap, map, up, downOut, stale>>

\* Mutant: the newest message is taken.
SendNewest(f) ==
  /\ At(f, "Pop")
  /\ LET n == th[f].node IN
       IF ~Usable(n) THEN stale' = TRUE /\ UNCHANGED <<heap, downOut>>
       ELSE /\ UNCHANGED stale
            /\ IF heap[n].queue = <<>> THEN UNCHANGED <<heap, downOut>>
               ELSE LET m == heap[n].queue[Len(heap[n].queue)] IN
                    /\ heap' = [heap EXCEPT ![n].queue = SubSeq(@, 1, Len(@) - 1)]
                    /\ downOut' = IF m.type = "DEV_DATA_UP" THEN [downOut EXCEPT ![m.dst_mac] = m.n]
                                  ELSE downOut
  /\ Goto(f, "run")
  /\ UNCHANGED <<centreVars, map, up>>

\* POP_FROMQUEUE and __send_to_dev.
__send_to_dev(f) ==
  /\ At(f, "Pop")
  /\ LET n == th[f].node IN
       IF ~Usable(n) THEN stale' = TRUE /\ UNCHANGED <<heap, downOut>>
       ELSE /\ UNCHANGED stale
            /\ IF heap[n].queue = <<>> THEN UNCHANGED <<heap, downOut>>
               ELSE LET m == Head(heap[n].queue) IN
                    /\ heap' = [heap EXCEPT ![n].queue = POP_FROMQUEUE(@)]
                    /\ downOut' = IF m.type = "DEV_DATA_UP" THEN [downOut EXCEPT ![m.dst_mac] = m.n]
                                  ELSE downOut
  /\ Goto(f, "run")
  /\ UNCHANGED <<centreVars, map, up>>

-----------------------------------------------------------------------------
(* __callback_recv_cloud_msg, called by the message centre with hwLock held.   *)

FindTarget ==
  /\ mt.pc = "Find"
  /\ mt' = [mt EXCEPT !.pc = "Push", !.node = find_device_by_mac(mt.msg.dst_mac)]
  /\ UNCHANGED <<hwList, hwLock, dsList, data, devQ, cloudQ, nativeQ, sockets, down, upOut, serverVars>>

__push_msg_to_dev ==
  /\ mt.pc = "Push"
  /\ PushTo(mt.node, mt.msg)
  /\ mt' = [pc |-> "Cloud", msg |-> NoMsg, node |-> 0]
  /\ hwLock' = FALSE
  /\ UNCHANGED <<hwList, dsList, data, devQ, cloudQ, nativeQ, sockets, down, upOut>>
  /\ UNCHANGED <<map, th, up, downOut>>

-----------------------------------------------------------------------------
CentreThread == (HandleThread /\ UNCHANGED serverVars) \/ FindTarget \/ __push_msg_to_dev

\* What the code of a thread does by itself, without a message from its peer.
ServerStep(f) ==
  \/ CREATE_QUEUE(f) \/ LoginAck(f) \/ hw_register_service(f) \/ hw_unregister_service(f)
  \/ FindOwn(f) \/ __send_to_dev(f)

Speak(f, d) ==
  LoginAdd(f, d) \/ LogoutAck(f, d) \/ __device_msg(f, d) \/ __device_heartbeat(f, d)

\* Nothing is said of the program once it has used a node it must not use.
Next ==
  /\ ~stale
  /\ \/ CentreThread
     \/ CloudSide /\ UNCHANGED serverVars
     \/ __check_heartbeat
     \/ \E f \in Fd : \/ ServerStep(f) \/ Accept(f) \/ FirstTimeout(f) \/ FirstRefused(f) \/ ClientGone(f)
                      \/ \E d \in Dev : Speak(f, d)

Spec == Init /\ [][Next]_vars

(* The threads and the timer keep running; peers do as they like.              *)
FairSpec ==
  /\ Spec
  /\ WF_vars(CentreThread) /\ WF_vars(__check_heartbeat)
  /\ \A f \in Fd : WF_vars(ServerStep(f))

-----------------------------------------------------------------------------
Message == {NoMsg} \cup
  [type : {"DEV_DATA_UP", "DEV_HEARTBEAT", "DEV_ONLINE", "DEV_OFFLINE"}, dst_mac : Dev \cup Cloud, n : Nat]

TypeOK ==
  /\ Range(hwList) \subseteq Dev /\ Range(dsList) \subseteq Cloud /\ Range(sockets) \subseteq Cloud
  /\ hwLock \in BOOLEAN /\ stale \in BOOLEAN /\ data \in {<<>>, <<EmptyMac>>}
  /\ Range(devQ) \cup Range(cloudQ) \cup Range(nativeQ) \cup {mt.msg} \subseteq Message
  /\ \A i \in Range(map) : heap[i].mac \in Dev /\ heap[i].fd \in Fd /\ Range(heap[i].queue) \subseteq Message
  /\ IsInjective(map) /\ \A i, j \in Range(map) : heap[i].mac = heap[j].mac => i = j

\* However its connections, the registrants and the other devices behave, the data of
\* a device passes dev_msg_queue, the handle thread and s_cloud_msg_queue in order and
\* at most once: it is lost only when no cloud program is registered.
Inside == Range(nativeQ) \cup (IF mt.pc = "ToCloud" THEN {mt.msg} ELSE {}) \cup Range(devQ)
UpPipe(d) == {m.n : m \in {x \in Inside : x.type = "DEV_DATA_UP" /\ x.dst_mac = d}}
Up == INSTANCE LossyFifo WITH
        Sender <- Dev, accepted <- up, pipe <- [d \in Dev |-> UpPipe(d)], out <- upOut
RelaysUp == Up!Spec

\* As long as no freed node has been used, the cloud's messages reach a device in
\* order, and only over the connection of its latest login.
DeliveredInOrder ==
  [][\A d \in Dev : downOut'[d] # downOut[d] /\ ~stale'
       => /\ downOut'[d] > downOut[d]
          /\ \E f \in Fd : At(f, "Pop") /\ heap[find_device_by_mac(d)].fd = f]_vars

\* A device that is never heard of again does not stay online.
SilentGoesOffline ==
  \A d \in Dev : \/ []<><<\E f \in Fd : Speak(f, d)>>_vars
                 \/ <>stale
                 \/ <>[](find_device_by_mac(d) = 0 \/ ~heap[find_device_by_mac(d)].online)
=============================================================================
