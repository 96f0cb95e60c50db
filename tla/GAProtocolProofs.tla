-------------------------- MODULE GAProtocolProofs --------------------------
(***************************************************************************)
(* Proofs about the key requests of the gateway application: what an app   *)
(* is told about a key is true, for any number of devices, addresses, keys *)
(* and commands, whatever answers are lost or come late.                   *)
(***************************************************************************)
EXTENDS GAProtocol, TLAPS

\* A command is in a thread of XDevice.c, or in the console.
Busy(w) == work[w].pc # "idle"

\* A request is named after the commands given before; the console only deletes.
WorkInv ==
  /\ DOMAIN work = Worker
  /\ DOMAIN dev = Device /\ \A d \in Device : DOMAIN dev[d] = {"joined", "addr", "key"}
  /\ reqs \in Nat
  /\ \A w \in Worker : /\ work[w].pc \in {"idle", "query", "select"}
                       /\ Busy(w) => "by" \notin DOMAIN work[w] /\ {"pc", "cmd"} \subseteq DOMAIN work[w]
  /\ \A w \in Apps : Busy(w) => work[w].id \in 0..reqs - 1 /\ work[w].key # NoKey
  /\ Busy("console") => work["console"].pc = "query" /\ work["console"].cmd = "delete"
  /\ Busy("udp") /\ Busy("tcp") => work["udp"].id # work["tcp"].id

\* A request under way is what its thread has asked.
AskInv ==
  \A q \in ask : /\ q.id \in 0..reqs - 1 /\ q.key # NoKey
                 /\ \A w \in Apps : Busy(w) /\ work[w].id = q.id =>
                      q.cmd = work[w].cmd /\ q.key = work[w].key

\* An answer under way is true of the device that gave it.
AnsInv ==
  \A a \in ans : /\ a.id \in 0..reqs - 1 /\ a.by \in Device
                 /\ \A w \in Apps : Busy(w) /\ work[w].id = a.id /\ a.res = 0 =>
                      /\ dev[a.by].key # NoKey
                      /\ dev[a.by].key = IF work[w].cmd = "getack" THEN a.key ELSE work[w].key

\* AckTruthful, with the reason why it lasts: a key is set once.
ToldInv ==
  \A w \in Worker : "by" \in DOMAIN work[w] =>
    /\ work[w].by \in Device
    /\ work[w].res = 0 => dev[work[w].by].key = work[w].key /\ work[w].key # NoKey

KeyInv == WorkInv /\ AskInv /\ AnsInv /\ ToldInv
-----------------------------------------------------------------------------
(* What one step may do to the invariant.                                  *)

\* The keys the devices hold stay as they are.
SameKeys == /\ DOMAIN dev' = Device
            /\ \A d \in Device : DOMAIN dev'[d] = DOMAIN dev[d] /\ dev'[d].key = dev[d].key

\* The names given so far stay names given so far.
LEMMA CountGrows ==
  ASSUME NEW m \in Nat, NEW n, n \in {m, m + 1}
  PROVE  n \in Nat /\ \A i \in 0..m - 1 : i \in 0..n - 1
OBVIOUS

\* Requests and answers may get lost; commands may be counted.
LEMMA QuietKeys ==
  ASSUME KeyInv, work' = work, ask' \subseteq ask, ans' \subseteq ans, reqs' \in {reqs, reqs + 1},
         SameKeys
  PROVE  KeyInv'
<1>1. reqs' \in Nat /\ \A n \in 0..reqs - 1 : n \in 0..reqs' - 1
  BY CountGrows DEF KeyInv, WorkInv
<1>2. WorkInv'
  BY <1>1 DEF KeyInv, WorkInv, SameKeys, Busy
<1>3. AskInv'
  BY <1>1 DEF KeyInv, AskInv, Busy
<1>4. AnsInv'
  BY <1>1 DEF KeyInv, AnsInv, Busy, SameKeys
<1>5. ToldInv'
  BY DEF KeyInv, ToldInv, SameKeys
<1> QED BY <1>2, <1>3, <1>4, <1>5 DEF KeyInv

\* A thread answers its app: what it says about a key must be true.
LEMMA ReplyKeys ==
  ASSUME KeyInv, NEW w \in Worker, NEW x, work' = [work EXCEPT ![w] = x], x.pc = "idle",
         "by" \in DOMAIN x => /\ x.by \in Device
                              /\ x.res = 0 => dev[x.by].key = x.key /\ x.key # NoKey,
         ask' \subseteq ask, ans' \subseteq ans, reqs' \in {reqs, reqs + 1}, dev' = dev
  PROVE  KeyInv'
<1>0. reqs' \in Nat /\ \A n \in 0..reqs - 1 : n \in 0..reqs' - 1
  BY CountGrows DEF KeyInv, WorkInv
<1>1. work'[w] = x /\ \A v \in Worker \ {w} : work'[v] = work[v]
  BY DEF KeyInv, WorkInv
<1>2. ~Busy(w)' /\ \A v \in Worker : Busy(v)' => Busy(v) /\ work'[v] = work[v]
  BY <1>1 DEF Busy
<1>3. WorkInv'
  BY <1>0, <1>1, <1>2 DEF KeyInv, WorkInv, Worker, Apps
<1>4. AskInv'
  BY <1>0, <1>2 DEF KeyInv, AskInv, Worker
<1>5. AnsInv'
  BY <1>0, <1>2 DEF KeyInv, AnsInv, Worker
<1>6. ToldInv'
  BY <1>1 DEF KeyInv, ToldInv
<1> QED BY <1>3, <1>4, <1>5, <1>6 DEF KeyInv

\* A thread goes on with its command, and may send its request.
LEMMA GoOnKeys ==
  ASSUME KeyInv, NEW w \in Worker, Busy(w), DOMAIN work' = Worker,
         \A v \in Worker \ {w} : work'[v] = work[v],
         work'[w].pc \in {"query", "select"}, DOMAIN work'[w] = DOMAIN work[w],
         work'[w].cmd = work[w].cmd,
         w = "console" => work'[w].pc = "query",
         w \in Apps => work'[w].id = work[w].id /\ work'[w].key = work[w].key,
         \/ ask' = ask
         \/ /\ w \in Apps
            /\ \E q : /\ ask' = ask \cup {q}
                      /\ q.id = work[w].id /\ q.cmd = work[w].cmd /\ q.key = work[w].key,
         ans' = ans, reqs' = reqs, dev' = dev
  PROVE  KeyInv'
<1>1. \A v \in Worker : Busy(v)' <=> Busy(v)
  BY DEF Busy
<1>2. \A v \in Apps : Busy(v) => work'[v].id = work[v].id /\ work'[v].key = work[v].key
  BY DEF Worker
<1>3. \A v \in Worker : Busy(v) => work'[v].cmd = work[v].cmd
  OBVIOUS
<1>4. WorkInv'
  <2>1. \A v \in Worker : /\ work'[v].pc \in {"idle", "query", "select"}
                          /\ Busy(v)' => "by" \notin DOMAIN work'[v] /\ {"pc", "cmd"} \subseteq DOMAIN work'[v]
    BY <1>1 DEF KeyInv, WorkInv
  <2>2. \A v \in Apps : Busy(v)' => work'[v].id \in 0..reqs' - 1 /\ work'[v].key # NoKey
    BY <1>1, <1>2 DEF KeyInv, WorkInv, Worker
  <2>3. Busy("console")' => work'["console"].pc = "query" /\ work'["console"].cmd = "delete"
    BY <1>1, <1>3 DEF KeyInv, WorkInv, Worker
  <2>4. Busy("udp")' /\ Busy("tcp")' => work'["udp"].id # work'["tcp"].id
    BY <1>1, <1>2 DEF KeyInv, WorkInv, Worker, Apps
  <2> QED BY <2>1, <2>2, <2>3, <2>4 DEF KeyInv, WorkInv
<1>5. AskInv'
  <2> SUFFICES ASSUME NEW q \in ask'
               PROVE  /\ q.id \in 0..reqs - 1 /\ q.key # NoKey
                      /\ \A v \in Apps : Busy(v) /\ work[v].id = q.id =>
                           q.cmd = work[v].cmd /\ q.key = work[v].key
    BY <1>1, <1>2, <1>3 DEF AskInv, Worker
  <2>1. CASE q \in ask
    BY <2>1 DEF KeyInv, AskInv
  <2>2. CASE w \in Apps /\ q.id = work[w].id /\ q.cmd = work[w].cmd /\ q.key = work[w].key
    <3>1. q.id \in 0..reqs - 1 /\ q.key # NoKey
      BY <2>2 DEF KeyInv, WorkInv
    <3>2. \A v \in Apps : Busy(v) /\ work[v].id = q.id => v = w
      BY <2>2 DEF KeyInv, WorkInv, Apps
    <3> QED BY <2>2, <3>1, <3>2
  <2> QED BY <2>1, <2>2
<1>6. AnsInv'
  BY <1>1, <1>2, <1>3 DEF KeyInv, AnsInv, Worker
<1>7. ToldInv'
  <2>1. "by" \notin DOMAIN work'[w]
    BY DEF KeyInv, WorkInv
  <2> QED BY <2>1 DEF KeyInv, ToldInv
<1> QED BY <1>4, <1>5, <1>6, <1>7 DEF KeyInv

\* A new command gets a number no request and no answer carries.
LEMMA StartKeys ==
  ASSUME KeyInv, NEW w \in Worker, ~Busy(w), NEW x, work' = [work EXCEPT ![w] = x],
         x.pc = "query", "by" \notin DOMAIN x, {"pc", "cmd"} \subseteq DOMAIN x,
         w = "console" => x.cmd = "delete",
         w \in Apps => x.id = reqs /\ x.key # NoKey,
         reqs' = reqs + 1, ask' = ask, ans' = ans, dev' = dev
  PROVE  KeyInv'
<1>1. work'[w] = x /\ \A v \in Worker \ {w} : work'[v] = work[v]
  BY DEF KeyInv, WorkInv
<1>2. reqs \in Nat /\ reqs' \in Nat /\ reqs \in 0..reqs' - 1 /\ reqs \notin 0..reqs - 1
      /\ \A n \in 0..reqs - 1 : n \in 0..reqs' - 1
  BY DEF KeyInv, WorkInv
<1>3. \A v \in Worker : Busy(v)' => \/ v = w /\ (v \in Apps => work'[v].id = reqs /\ work'[v].key # NoKey)
                                    \/ v # w /\ Busy(v) /\ work'[v] = work[v]
  BY <1>1 DEF Busy
<1>4. WorkInv'
  <2>1. \A v \in Worker : /\ work'[v].pc \in {"idle", "query", "select"}
                          /\ Busy(v)' => "by" \notin DOMAIN work'[v] /\ {"pc", "cmd"} \subseteq DOMAIN work'[v]
    BY <1>1, <1>3 DEF KeyInv, WorkInv
  <2>2. \A v \in Apps : Busy(v)' => work'[v].id \in 0..reqs' - 1 /\ work'[v].key # NoKey
    BY <1>2, <1>3 DEF KeyInv, WorkInv, Worker
  <2>3. Busy("console")' => work'["console"].pc = "query" /\ work'["console"].cmd = "delete"
    BY <1>1, <1>3 DEF KeyInv, WorkInv, Worker
  <2>4. Busy("udp")' /\ Busy("tcp")' => work'["udp"].id # work'["tcp"].id
    BY <1>2, <1>3 DEF KeyInv, WorkInv, Worker, Apps
  <2>5. DOMAIN work' = Worker
    BY DEF KeyInv, WorkInv
  <2> QED BY <1>2, <2>1, <2>2, <2>3, <2>4, <2>5 DEF KeyInv, WorkInv
<1>5. AskInv'
  BY <1>2, <1>3 DEF KeyInv, AskInv, Worker
<1>6. AnsInv'
  BY <1>2, <1>3 DEF KeyInv, AnsInv, Worker
<1>7. ToldInv'
  BY <1>1 DEF KeyInv, ToldInv
<1> QED BY <1>4, <1>5, <1>6, <1>7 DEF KeyInv

\* A device answers a request, and may take the key it brings.
LEMMA DeviceAnswersKeys ==
  ASSUME KeyInv, NEW d \in Device, DeviceAnswers(d)
  PROVE  KeyInv'
<1> DEFINE Set(q) == q.cmd = "setack" /\ dev[d].key = NoKey
           Good(q) == \/ q.cmd = "setack" /\ Set(q)
                      \/ q.cmd = "getack" /\ dev[d].key # NoKey
                      \/ q.cmd = "subkey" /\ dev[d].key = q.key
           Answer(q) == [id |-> q.id, res |-> IF Good(q) THEN 0 ELSE -14, by |-> d, key |-> dev[d].key]
<1>1. PICK q \in ask : /\ ask' = ask \ {q}
                       /\ dev' = IF Set(q) THEN [dev EXCEPT ![d].key = q.key] ELSE dev
                       /\ ans' = ans \/ ans' = ans \cup {Answer(q)}
  BY DEF DeviceAnswers
<1>2. work' = work /\ reqs' = reqs
  BY DEF DeviceAnswers
<1>3. q.id \in 0..reqs - 1 /\ q.key # NoKey
  BY DEF KeyInv, AskInv
<1>4. \A e \in Device : DOMAIN dev'[e] = {"joined", "addr", "key"}
  BY <1>1 DEF KeyInv, WorkInv
<1>5. DOMAIN dev' = Device
  BY <1>1 DEF KeyInv, WorkInv
\* A key that is set stays, and the device answered by holds the one it was asked for.
<1>6. \A e \in Device : dev[e].key # NoKey => dev'[e].key = dev[e].key
  BY <1>1 DEF KeyInv, WorkInv
<1>7. Set(q) => dev'[d].key = q.key
  BY <1>1 DEF KeyInv, WorkInv
<1>8. \A w : Busy(w)' <=> Busy(w)
  BY <1>2 DEF Busy
<1>9. WorkInv'
  BY <1>2, <1>4, <1>5, <1>8 DEF KeyInv, WorkInv
<1>10. AskInv'
  BY <1>1, <1>2, <1>8 DEF KeyInv, AskInv
<1>11. AnsInv'
  <2> SUFFICES ASSUME NEW a \in ans'
               PROVE  /\ a.id \in 0..reqs - 1 /\ a.by \in Device
                      /\ \A w \in Apps : Busy(w) /\ work[w].id = a.id /\ a.res = 0 =>
                           /\ dev'[a.by].key # NoKey
                           /\ dev'[a.by].key = IF work[w].cmd = "getack" THEN a.key ELSE work[w].key
    BY <1>2, <1>8 DEF AnsInv
  <2>1. CASE a \in ans
    BY <1>6, <2>1 DEF KeyInv, AnsInv
  <2>2. CASE a = Answer(q)
    <3>1. a.id = q.id /\ a.by = d /\ a.key = dev[d].key /\ (a.res = 0 => Good(q))
      BY <2>2
    <3>2. ASSUME NEW w \in Apps, Busy(w), work[w].id = q.id, Good(q)
          PROVE  /\ dev'[d].key # NoKey
                 /\ dev'[d].key = IF work[w].cmd = "getack" THEN dev[d].key ELSE work[w].key
      <4>1. q.cmd = work[w].cmd /\ q.key = work[w].key
        BY <3>2 DEF KeyInv, AskInv
      <4> QED BY <1>3, <1>6, <1>7, <3>2, <4>1
    <3> HIDE DEF Good, Answer
    <3> QED BY <1>3, <3>1, <3>2
  <2> QED BY <1>1, <2>1, <2>2
<1>12. ToldInv'
  BY <1>2, <1>6 DEF KeyInv, ToldInv
<1> QED BY <1>9, <1>10, <1>11, <1>12 DEF KeyInv

-----------------------------------------------------------------------------
(* The steps.                                                              *)

\* The core thread, the timers, the network and the devices, keys apart.
LEMMA OthersStep ==
  ASSUME KeyInv,
         \/ ConsoleDiscoverDevice \/ DiscoverntfThread \/ Tick
         \/ XGStartProtocolUdp \/ CoreStep \/ SetStatus
         \/ TakeNotification \/ PeriodicRestart \/ PeriodicDiscover \/ Lose
         \/ ft_xlink_console
         \/ \E w \in Apps : processAllowDeviceJoin(w)
         \/ \E d \in Chatty : XDControlData(d)
         \/ \E d \in Device : DeviceHears(d) \/ DeviceMoves(d)
                              \/ \E t \in AnswerType : DeviceTakes(d, t)
         \/ UNCHANGED vars
  PROVE  KeyInv'
<1>0. DOMAIN dev = Device /\ \A d \in Device : DOMAIN dev[d] = {"joined", "addr", "key"}
  BY DEF KeyInv, WorkInv
<1>1. CASE \/ ConsoleDiscoverDevice \/ DiscoverntfThread \/ Tick
           \/ XGStartProtocolUdp \/ SetStatus
           \/ TakeNotification \/ PeriodicRestart \/ PeriodicDiscover
           \/ ft_xlink_console
           \/ \E w \in Apps : processAllowDeviceJoin(w)
           \/ \E d \in Chatty : XDControlData(d)
           \/ \E d \in Device : DeviceHears(d)
           \/ UNCHANGED vars
  <2>1. work' = work /\ ask' = ask /\ ans' = ans /\ dev' = dev /\ reqs' \in {reqs, reqs + 1}
    BY <1>1 DEF ConsoleDiscoverDevice, DiscoverntfThread, Tick, XGStartProtocolUdp, SetStatus,
         TakeNotification, PeriodicRestart, PeriodicDiscover, ft_xlink_console,
         processAllowDeviceJoin, XDControlData, DeviceHears, vars
  <2> QED BY <1>0, <2>1, QuietKeys DEF SameKeys
<1>2. CASE CoreStep
  <2>1. work' = work /\ ask' = ask /\ ans' = ans /\ dev' = dev /\ reqs' = reqs
    BY <1>2 DEF CoreStep, OnDiscoverDevice_t, dbAddDevice, OnDeviceRestartNotify_t,
         dbUpdateDeviceAddress, XGUdpDevcieRequestJoin, XGDeviceRestartNotify
  <2> QED BY <1>0, <2>1, QuietKeys DEF SameKeys
<1>3. CASE Lose
  <2>1. work' = work /\ ask' \subseteq ask /\ ans' \subseteq ans /\ dev' = dev /\ reqs' = reqs
    BY <1>3 DEF Lose
  <2> QED BY <1>0, <2>1, QuietKeys DEF SameKeys
<1>4. ASSUME NEW d \in Device, DeviceMoves(d) PROVE KeyInv'
  <2>1. PICK a : dev' = [dev EXCEPT ![d].addr = a]
    BY <1>4 DEF DeviceMoves
  <2>2. SameKeys
    BY <1>0, <2>1 DEF SameKeys
  <2> QED BY <1>4, <2>2, QuietKeys DEF DeviceMoves
<1>5. ASSUME NEW d \in Device, NEW t, DeviceTakes(d, t) PROVE KeyInv'
  <2>1. PICK b : dev' = [dev EXCEPT ![d].joined = b]
    BY <1>5 DEF DeviceTakes
  <2>2. SameKeys
    BY <1>0, <2>1 DEF SameKeys
  <2> QED BY <1>5, <2>2, QuietKeys DEF DeviceTakes
<1> QED BY <1>1, <1>2, <1>3, <1>4, <1>5

\* The threads of XDevice.c and the console.
LEMMA CommandsStep ==
  ASSUME KeyInv, NEW w \in Worker, CommandStep(w)
  PROVE  KeyInv'
<1>0. DOMAIN work = Worker /\ work[w].pc \in {"idle", "query", "select"}
  BY DEF KeyInv, WorkInv
<1>1. ASSUME NEW res, SendCall(w, res), ask' \subseteq ask, ans' \subseteq ans, reqs' = reqs, dev' = dev
      PROVE  KeyInv'
  <2> DEFINE x == [pc |-> "idle", res |-> res]
  <2>1. x.pc = "idle" /\ "by" \notin DOMAIN x /\ work' = [work EXCEPT ![w] = x]
    BY <1>1 DEF SendCall
  <2> HIDE DEF x
  <2> QED BY <1>1, <2>1, ReplyKeys
<1>2. ASSUME NEW a \in ans, Busy(w), w \in Apps, a.id = work[w].id, SendKey(w, a),
             ask' = ask, ans' \subseteq ans, reqs' = reqs, dev' = dev
      PROVE  KeyInv'
  <2> DEFINE k == IF work[w].cmd = "getack" THEN a.key ELSE work[w].key
             x == [pc |-> "idle", res |-> a.res, by |-> a.by, key |-> k]
  <2>1. work' = [work EXCEPT ![w] = x]
    BY <1>0, <1>2 DEF SendKey
  <2>2. a.by \in Device /\ (a.res = 0 => dev[a.by].key = k /\ k # NoKey)
    BY <1>2 DEF KeyInv, AnsInv
  <2>3. x.pc = "idle" /\ x.res = a.res /\ x.by = a.by /\ x.key = k
    OBVIOUS
  <2> HIDE DEF x, k
  <2> QED BY <1>2, <2>1, <2>2, <2>3, ReplyKeys
<1>3. CASE Query(w)
  <2> DEFINE row == db[work[w].d]
  <2>0. Busy(w) /\ work[w].pc = "query"
    BY <1>3 DEF Query, Busy
  <2>1. ask' = ask /\ ans' = ans /\ reqs' = reqs /\ dev' = dev
    BY <1>3 DEF Query, LocalUnchanged
  <2>2. CASE \E res : SendCall(w, res)
    BY <1>1, <2>1, <2>2
  <2>3. CASE work' = [work EXCEPT ![w].left = Tail(@), ![w].addr = row.addr]
    <3>1. /\ DOMAIN work' = Worker /\ \A v \in Worker \ {w} : work'[v] = work[v]
          /\ work'[w] = [work[w] EXCEPT !.left = Tail(@), !.addr = row.addr]
      BY <1>0, <2>3
    <3>2. /\ DOMAIN work'[w] = DOMAIN work[w] /\ work'[w].pc = work[w].pc
          /\ work'[w].cmd = work[w].cmd /\ work'[w].id = work[w].id /\ work'[w].key = work[w].key
      BY <3>1
    <3> QED BY <2>0, <2>1, <3>1, <3>2, GoOnKeys
  <2> QED BY <1>3, <2>2, <2>3 DEF Query
<1>4. CASE ReplyOk(w)
  BY <1>1, <1>4 DEF ReplyOk, LocalUnchanged
<1>5. CASE NoReply(w)
  <2>1. Idle.pc = "idle" /\ "by" \notin DOMAIN Idle
    BY DEF Idle
  <2> QED BY <1>5, <2>1, ReplyKeys DEF NoReply, LocalUnchanged
<1>6. CASE XGRemoveDevice(w)
  BY <1>1, <1>6 DEF XGRemoveDevice, LocalUnchanged
<1>7. CASE SendRequest(w)
  <2>0. Busy(w) /\ work[w].cmd # "delete" /\ w \in Apps
    BY <1>7 DEF SendRequest, Busy, KeyInv, WorkInv, KeyCmds, Worker
  <2>1. ans' = ans /\ reqs' = reqs /\ dev' = dev
    BY <1>7 DEF SendRequest, LocalUnchanged
  <2>2. CASE SendCall(w, -2) /\ ask' = ask
    BY <1>1, <2>1, <2>2
  <2>3. CASE /\ ask' = ask \cup {[id |-> work[w].id, cmd |-> work[w].cmd, addr |-> work[w].addr, key |-> work[w].key]}
             /\ Goto(w, "select")
    <3> DEFINE q == [id |-> work[w].id, cmd |-> work[w].cmd, addr |-> work[w].addr, key |-> work[w].key]
    <3>1. ask' = ask \cup {q} /\ q.id = work[w].id /\ q.cmd = work[w].cmd /\ q.key = work[w].key
      BY <2>3
    <3> HIDE DEF q
    <3>2. /\ DOMAIN work' = Worker /\ \A v \in Worker \ {w} : work'[v] = work[v]
          /\ work'[w] = [work[w] EXCEPT !.pc = "select"]
      BY <1>0, <2>3 DEF Goto
    <3>3. "pc" \in DOMAIN work[w]
      BY <2>0 DEF KeyInv, WorkInv
    <3>4. /\ DOMAIN work'[w] = DOMAIN work[w] /\ work'[w].pc = "select"
          /\ work'[w].cmd = work[w].cmd /\ work'[w].id = work[w].id /\ work'[w].key = work[w].key
      BY <3>2, <3>3
    <3>5. w # "console"
      BY <2>0 DEF Apps
    <3> QED BY <2>0, <2>1, <3>1, <3>2, <3>4, <3>5, GoOnKeys
  <2> QED BY <1>7, <2>2, <2>3 DEF SendRequest
<1>8. CASE RecvAnswer(w)
  <2>1. Busy(w) /\ w \in Apps
    BY <1>8 DEF RecvAnswer, Busy, KeyInv, WorkInv, Worker
  <2>2. PICK a \in ans : /\ a.id = work[w].id /\ SendKey(w, a)
                         /\ ans' = {b \in ans : b.id # a.id}
    BY <1>8 DEF RecvAnswer
  <2>3. ans' \subseteq ans /\ ask' = ask /\ reqs' = reqs /\ dev' = dev
    BY <1>8, <2>2 DEF RecvAnswer
  <2> QED BY <1>2, <2>1, <2>2, <2>3
<1>9. CASE SelectTimeout(w)
  <2>1. ans' \subseteq ans /\ ask' = ask /\ reqs' = reqs /\ dev' = dev /\ SendCall(w, -7)
    BY <1>9 DEF SelectTimeout
  <2> QED BY <1>1, <2>1
<1> QED BY <1>3, <1>4, <1>5, <1>6, <1>7, <1>8, <1>9 DEF CommandStep

\* A command is begun, or refused at once because its timeout is too long.
LEMMA BeginStep ==
  ASSUME KeyInv, ConsoleRemove \/ \E w \in Apps : GAPStartProtocol(w)
  PROVE  KeyInv'
<1>0. reqs \in Nat /\ DOMAIN work = Worker
  BY DEF KeyInv, WorkInv
<1>1. CASE ConsoleRemove
  <2>1. PICK d : work' = [work EXCEPT !["console"] = [pc |-> "query", left |-> <<Exists(0)>>, cmd |-> "delete",
                                                      d |-> d, addr |-> "none"]]
    BY <1>1 DEF ConsoleRemove
  <2> DEFINE x == [pc |-> "query", left |-> <<Exists(0)>>, cmd |-> "delete", d |-> d, addr |-> "none"]
  <2>2. x.pc = "query" /\ "by" \notin DOMAIN x /\ {"pc", "cmd"} \subseteq DOMAIN x /\ x.cmd = "delete"
    OBVIOUS
  <2>3. work' = [work EXCEPT !["console"] = x]
    BY <2>1
  <2> HIDE DEF x
  <2>4. "console" \in Worker /\ "console" \notin Apps /\ ~Busy("console")
    BY <1>1 DEF Worker, Apps, Busy, ConsoleRemove
  <2>5. reqs' = reqs + 1 /\ ask' = ask /\ ans' = ans /\ dev' = dev
    BY <1>1 DEF ConsoleRemove
  <2> QED BY <2>2, <2>3, <2>4, <2>5, StartKeys
<1>2. ASSUME NEW w \in Apps, GAPStartProtocol(w) PROVE KeyInv'
  <2>0. w \in Worker /\ w # "console" /\ ~Busy(w)
    BY <1>2 DEF Worker, Apps, Busy, GAPStartProtocol
  <2>1. reqs' = reqs + 1 /\ ask' = ask /\ ans' = ans /\ dev' = dev
    BY <1>2 DEF GAPStartProtocol
  <2>2. PICK c \in Commands, d \in Device, k \in Key :
          \/ SendCall(w, 1)
          \/ work' = [work EXCEPT ![w] = [pc |-> "query", left |-> FunProtocol[c], cmd |-> c,
                                          d |-> d, key |-> k, id |-> reqs, addr |-> "none"]]
    BY <1>2 DEF GAPStartProtocol
  <2>3. CASE SendCall(w, 1)
    <3> DEFINE x == [pc |-> "idle", res |-> 1]
    <3>1. work' = [work EXCEPT ![w] = x] /\ x.pc = "idle" /\ "by" \notin DOMAIN x
      BY <2>3 DEF SendCall
    <3> HIDE DEF x
    <3> QED BY <2>0, <2>1, <3>1, ReplyKeys
  <2>4. CASE work' = [work EXCEPT ![w] = [pc |-> "query", left |-> FunProtocol[c], cmd |-> c,
                                          d |-> d, key |-> k, id |-> reqs, addr |-> "none"]]
    <3> DEFINE x == [pc |-> "query", left |-> FunProtocol[c], cmd |-> c,
                     d |-> d, key |-> k, id |-> reqs, addr |-> "none"]
    <3>1. x.pc = "query" /\ "by" \notin DOMAIN x /\ {"pc", "cmd"} \subseteq DOMAIN x /\ x.id = reqs /\ x.key = k
      OBVIOUS
    <3>2. work' = [work EXCEPT ![w] = x]
      BY <2>4
    <3> HIDE DEF x
    <3>3. k # NoKey
      BY TimeoutAssumption
    <3> QED BY <2>0, <2>1, <3>1, <3>2, <3>3, StartKeys
  <2> QED BY <2>2, <2>3, <2>4
<1> QED BY <1>1, <1>2

\* At the start no request has been made.
LEMMA KeyInit == Init => KeyInv
<1> SUFFICES ASSUME Init PROVE KeyInv
  OBVIOUS
<1>1. \A w \in Worker : work[w] = Idle
  BY DEF Init
<1>2. Idle.pc = "idle" /\ "by" \notin DOMAIN Idle
  BY DEF Idle
<1>3. \A w \in Worker : ~Busy(w) /\ work[w].pc = "idle" /\ "by" \notin DOMAIN work[w]
  BY <1>1, <1>2 DEF Busy
<1>4. WorkInv
  BY <1>3 DEF Init, WorkInv, Worker, Apps
<1> QED BY <1>3, <1>4 DEF Init, KeyInv, AskInv, AnsInv, ToldInv

LEMMA KeyStep ==
  ASSUME KeyInv, [Next]_vars
  PROVE  KeyInv'
BY OthersStep, CommandsStep, BeginStep, DeviceAnswersKeys DEF Next

\* An app that is told that a key was set, read or accepted is told the truth, although
\* both threads may ask the same device and answers to abandoned requests come late.
THEOREM KeysAsTold == Spec => []AckTruthful
<1>1. KeyInv => AckTruthful
  BY DEF KeyInv, ToldInv, AckTruthful
<1>2. KeyInv /\ [Next]_vars => KeyInv'
  BY KeyStep
<1> QED BY KeyInit, <1>1, <1>2, PTL DEF Spec

=============================================================================
