---------------------------- MODULE MsgTransfer ----------------------------
(* The message centre of ikcc_service: the registrants of hw_management and    *)
(* ds_management, the two queues of msg_transfer with the thread that empties   *)
(* them, and the unix-socket server through which cloud programs connect        *)
(* (ikcc_native_socket).  Device connections are in NetServer.                  *)
EXTENDS Naturals, Sequences, FiniteSets, SequencesExt

CONSTANTS Dev,      \* device identities (mac)
          Cloud,    \* cloud programs: their identify
          MaxDown,  \* bound: data messages sent by cloud programs
          MaxNative \* bound: answers to cloud programs waiting in s_cloud_msg_queue

VARIABLES hwList,   \* hw_service.callback_container: macs, newest first
          hwLock,   \* its mutex is held across a callback
          dsList,   \* ds_service.callback_container: identifies, newest first
          data,     \* ds_service.data_container: the src_mac of each node
          devQ,     \* dev_msg_queue
          cloudQ,   \* clound_msg_queue
          nativeQ,  \* s_cloud_msg_queue
          sockets,  \* s_fdset: the cloud programs connected, in order of fdarray
          mt,       \* message_handle_thread
          down,     \* data messages sent so far by cloud programs
          upOut     \* last data message of each device sent to the sockets

centreVars == <<hwList, hwLock, dsList, data, devQ, cloudQ, nativeQ, sockets, mt, down, upOut>>

\* st_msg_entity: the fields that are read.  src_mac stays empty in every message
\* set_net_msg_entity and set_native_msg_entity build; n numbers the data.
Msg(type, mac, n) == [type |-> type, dst_mac |-> mac, n |-> n]
NoMsg == [type |-> "NULL", dst_mac |-> "NULL", n |-> 0]
EmptyMac == "empty"

CentreInit ==
  /\ hwList = <<>> /\ hwLock = FALSE /\ dsList = <<>> /\ data = <<>>
  /\ devQ = <<>> /\ cloudQ = <<>> /\ nativeQ = <<>> /\ sockets = <<>>
  /\ mt = [pc |-> "Dev", msg |-> NoMsg, node |-> 0]
  /\ down = 0 /\ upOut = [d \in Dev |-> 0]

\* The lists of list.h: at the head, at the tail, and without an entry.
list_add(list, x) == <<x>> \o list

list_add_tail(list, x) == Append(list, x)

list_del(list, x) == SelectSeq(list, LAMBDA y : y # x)

\* Mutant: list_add in the place of list_add_tail.
PushFront(q, m) == list_add(q, m)

PUSH_ENQUEUE(q, m) == list_add_tail(q, m)

POP_FROMQUEUE(q) == Tail(q)

\* The ways into the centre: a device's message and a cloud program's.
push_dev_msg(m) == devQ' = PUSH_ENQUEUE(devQ, m)

hw_send_msg_tobuf(m) == push_dev_msg(m)

push_cloud_msg(m) == cloudQ' = PUSH_ENQUEUE(cloudQ, m)

ds_send_msg_tobuf(m) == push_cloud_msg(m)

-----------------------------------------------------------------------------
(* Registration: list_add at the head, a second registration changes nothing.  *)

register_service(list, id) == IF id \in Range(list) THEN list ELSE list_add(list, id)

unregister_service(list, id) == list_del(list, id)

\* The cloud programs' container.
ds_register_service(c) == register_service(dsList, c)

ds_unregister_service(c) == unregister_service(dsList, c)

\* The node with the message's src_mac moves to the front, or is added there.
update_device_data(list, src) == list_add(list_del(list, src), src)

del_device_data(list, mac) == list_del(list, mac)

-----------------------------------------------------------------------------
(* message_handle_thread: all messages of devices, then all messages of the    *)
(* cloud.  ds_send_msg_tocloud gives the message to the first registrant only.  *)

HandleDev ==
  /\ mt.pc = "Dev"
  /\ IF devQ = <<>> THEN mt' = [mt EXCEPT !.pc = "Cloud"] /\ UNCHANGED devQ
     ELSE mt' = [mt EXCEPT !.pc = "ToCloud", !.msg = Head(devQ)] /\ devQ' = POP_FROMQUEUE(devQ)
  /\ UNCHANGED <<hwList, hwLock, dsList, data, cloudQ, nativeQ, sockets, down, upOut>>

ds_send_msg_tocloud ==
  /\ mt.pc = "ToCloud"
  /\ data' = update_device_data(data, EmptyMac)
  /\ nativeQ' = IF dsList = <<>> THEN nativeQ ELSE PUSH_ENQUEUE(nativeQ, mt.msg)
  /\ mt' = [mt EXCEPT !.pc = "Dev", !.msg = NoMsg]
  /\ UNCHANGED <<hwList, hwLock, dsList, devQ, cloudQ, sockets, down, upOut>>

HandleCloud ==
  /\ mt.pc = "Cloud"
  /\ IF cloudQ = <<>> THEN mt' = [mt EXCEPT !.pc = "Dev"] /\ UNCHANGED cloudQ
     ELSE mt' = [mt EXCEPT !.pc = "ToClient", !.msg = Head(cloudQ)] /\ cloudQ' = POP_FROMQUEUE(cloudQ)
  /\ UNCHANGED <<hwList, hwLock, dsList, data, devQ, nativeQ, sockets, down, upOut>>

\* hw_send_msg_toclient up to its callback, which runs with the mutex held.
hw_send_msg_toclient ==
  /\ mt.pc = "ToClient"
  /\ ~hwLock
  /\ IF mt.msg.dst_mac \in Range(hwList)
     THEN mt' = [mt EXCEPT !.pc = "Find"] /\ hwLock' = TRUE
     ELSE mt' = [mt EXCEPT !.pc = "Cloud", !.msg = NoMsg] /\ UNCHANGED hwLock
  /\ UNCHANGED <<hwList, dsList, data, devQ, cloudQ, nativeQ, sockets, down, upOut>>

-----------------------------------------------------------------------------
(* The cloud programs.  A login is registered whether or not its key is right. *)

CloudConnect(c) ==
  /\ c \notin Range(sockets)
  /\ sockets' = Append(sockets, c)
  /\ UNCHANGED <<hwList, hwLock, dsList, data, devQ, cloudQ, nativeQ, mt, down, upOut>>

__cloud_login(c) ==
  /\ c \in Range(sockets)
  /\ c \notin Range(dsList)  \* a second login only repeats the answer
  /\ Len(nativeQ) < MaxNative
  /\ nativeQ' = PUSH_ENQUEUE(nativeQ, Msg("DEV_ONLINE", c, 0))
  /\ dsList' = ds_register_service(c)
  /\ UNCHANGED <<hwList, hwLock, data, devQ, cloudQ, sockets, mt, down, upOut>>

__cloud_logout(c) ==
  /\ c \in Range(sockets) /\ c \in Range(dsList)
  /\ Len(nativeQ) < MaxNative
  /\ nativeQ' = PUSH_ENQUEUE(nativeQ, Msg("DEV_OFFLINE", c, 0))
  /\ dsList' = ds_unregister_service(c)
  /\ UNCHANGED <<hwList, hwLock, data, devQ, cloudQ, sockets, mt, down, upOut>>

__cloud_msg(c, d) ==
  /\ c \in Range(sockets) /\ down < MaxDown
  /\ down' = down + 1
  /\ ds_send_msg_tobuf(Msg("DEV_DATA_UP", d, down + 1))
  /\ UNCHANGED <<hwList, hwLock, dsList, data, devQ, nativeQ, sockets, mt, upOut>>

\* recv() <= 0: the socket is erased and closed; its registration stays.
CloudClose(c) ==
  /\ c \in Range(sockets)
  /\ sockets' = SelectSeq(sockets, LAMBDA x : x # c)
  /\ UNCHANGED <<hwList, hwLock, dsList, data, devQ, cloudQ, nativeQ, mt, down, upOut>>

\* select() timed out: the oldest message goes to every socket.
SendNative ==
  /\ nativeQ # <<>>
  /\ LET m == Head(nativeQ) IN
       upOut' = IF m.type = "DEV_DATA_UP" THEN [upOut EXCEPT ![m.dst_mac] = m.n] ELSE upOut
  /\ nativeQ' = POP_FROMQUEUE(nativeQ)
  /\ UNCHANGED <<hwList, hwLock, dsList, data, devQ, cloudQ, sockets, mt, down>>

HandleThread == HandleDev \/ ds_send_msg_tocloud \/ HandleCloud \/ hw_send_msg_toclient

CloudSide ==
  \/ \E c \in Cloud : \/ CloudConnect(c) \/ __cloud_login(c) \/ __cloud_logout(c) \/ CloudClose(c)
                      \/ \E d \in Dev : __cloud_msg(c, d)
  \/ SendNative
=============================================================================
