--------------------------- MODULE FtTimerProofs ---------------------------
(***************************************************************************)
(* Proofs about the timer service, for any timers and any bound: its types *)
(* and that no wakeup of the handle thread is ever lost; and, as long as   *)
(* no user restarts an armed timer, that a timer is in one list at most    *)
(* and runs once at most for each time it is added.                        *)
(***************************************************************************)
EXTENDS FtTimer, SequenceTheorems, TLAPS

\* A list without one of its elements is one shorter; the others keep their order.
LEMMA RemoveNthType ==
  ASSUME NEW s \in Seq(Timer), NEW k \in 1..Len(s)
  PROVE  /\ RemoveNth(s, k) \in Seq(Timer) /\ Len(RemoveNth(s, k)) = Len(s) - 1
         /\ \A i \in 1..Len(s) - 1 : RemoveNth(s, k)[i] = IF i < k THEN s[i] ELSE s[i + 1]
<1> DEFINE a == SubSeq(s, 1, k - 1)
           b == SubSeq(s, k + 1, Len(s))
<1>0. Len(s) \in Nat /\ \A i \in 1..Len(s) : s[i] \in Timer
  OBVIOUS
<1>1. a \in Seq(Timer) /\ Len(a) = k - 1 /\ \A i \in 1..k - 1 : a[i] = s[i]
  <2>1. /\ a \in Seq(Timer) /\ Len(a) = IF 1 <= k - 1 THEN (k - 1) - 1 + 1 ELSE 0
        /\ \A i \in 1..(k - 1) - 1 + 1 : a[i] = s[1 + i - 1]
    BY SubSeqProperties
  <2> HIDE DEF a
  <2> QED BY <2>1
<1>2. b \in Seq(Timer) /\ Len(b) = Len(s) - k /\ \A i \in 1..Len(s) - k : b[i] = s[k + i]
  <2>1. /\ b \in Seq(Timer) /\ Len(b) = IF k + 1 <= Len(s) THEN Len(s) - (k + 1) + 1 ELSE 0
        /\ \A i \in 1..Len(s) - (k + 1) + 1 : b[i] = s[(k + 1) + i - 1]
    BY <1>0, SubSeqProperties
  <2> HIDE DEF b
  <2> QED BY <1>0, <2>1
<1>3. RemoveNth(s, k) = a \o b
  BY DEF RemoveNth
<1> HIDE DEF a, b
<1>4. /\ a \o b \in Seq(Timer) /\ Len(a \o b) = Len(a) + Len(b)
      /\ \A i \in 1..Len(a) + Len(b) : (a \o b)[i] = IF i <= Len(a) THEN a[i] ELSE b[i - Len(a)]
  BY <1>1, <1>2, ConcatProperties
<1> DEFINE t == a \o b
<1> HIDE DEF t
<1>5. t \in Seq(Timer) /\ Len(t) = Len(s) - 1
  BY <1>0, <1>1, <1>2, <1>4 DEF t
<1>6. ASSUME NEW i \in 1..Len(s) - 1 PROVE t[i] = IF i < k THEN s[i] ELSE s[i + 1]
  <2>1. t[i] = IF i <= k - 1 THEN a[i] ELSE b[i - (k - 1)]
    BY <1>0, <1>1, <1>2, <1>4 DEF t
  <2>2. CASE i < k
    BY <1>0, <1>1, <2>1, <2>2
  <2>3. CASE ~(i < k)
    <3>1. i - (k - 1) \in 1..Len(s) - k /\ k + (i - (k - 1)) = i + 1
      BY <1>0, <2>3
    <3> QED BY <1>0, <1>2, <2>1, <2>3, <3>1
  <2> QED BY <2>2, <2>3
<1> QED BY <1>3, <1>5, <1>6 DEF t

\* No timer occurs twice in a list.
Unique(s) == \A i, j \in 1..Len(s) : s[i] = s[j] => i = j

\* The timer taken out of such a list is gone from it.
LEMMA UniqueRemoved ==
  ASSUME NEW s \in Seq(Timer), NEW k \in 1..Len(s), Unique(s)
  PROVE  /\ Unique(RemoveNth(s, k))
         /\ \A t : In(RemoveNth(s, k), t) => In(s, t) /\ t # s[k]
<1> DEFINE r == RemoveNth(s, k)
<1>1. /\ Len(s) \in Nat /\ Len(r) = Len(s) - 1
      /\ \A i \in 1..Len(s) - 1 : r[i] = IF i < k THEN s[i] ELSE s[i + 1]
  BY RemoveNthType
<1> HIDE DEF r
<1>2. Unique(r)
  BY <1>1 DEF Unique
<1>3. \A t : In(r, t) => In(s, t) /\ t # s[k]
  BY <1>1 DEF In, Unique
<1> QED BY <1>2, <1>3 DEF r

LEMMA UniqueUnlinked ==
  ASSUME NEW s \in Seq(Timer), NEW t, Unique(s)
  PROVE  /\ Unique(Unlink(s, t))
         /\ \A u : In(Unlink(s, t), u) => In(s, u)
<1>1. CASE In(s, t)
  <2> DEFINE k == CHOOSE i \in 1..Len(s) : s[i] = t
  <2>1. k \in 1..Len(s)
    BY <1>1 DEF In
  <2>2. Unlink(s, t) = RemoveNth(s, k)
    BY <1>1 DEF Unlink
  <2> HIDE DEF k
  <2> QED BY <2>1, <2>2, UniqueRemoved
<1>2. CASE ~In(s, t)
  BY <1>2 DEF Unlink
<1> QED BY <1>1, <1>2

\* A timer that is not in the list may be linked at either end.
LEMMA UniqueLinked ==
  ASSUME NEW s \in Seq(Timer), NEW t \in Timer, Unique(s), ~In(s, t)
  PROVE  /\ Unique(Append(s, t)) /\ Unique(<<t>> \o s)
         /\ \A u : In(Append(s, t), u) => In(s, u) \/ u = t
         /\ \A u : In(<<t>> \o s, u) => In(s, u) \/ u = t
<1>0. Len(s) \in Nat
  OBVIOUS
<1>1. Unique(Append(s, t)) /\ \A u : In(Append(s, t), u) => In(s, u) \/ u = t
  <2> DEFINE r == Append(s, t)
  <2>1. Len(r) = Len(s) + 1 /\ r[Len(s) + 1] = t /\ \A i \in 1..Len(s) : r[i] = s[i]
    BY AppendProperties
  <2> HIDE DEF r
  <2>2. Unique(r) /\ \A u : In(r, u) => In(s, u) \/ u = t
    BY <1>0, <2>1 DEF Unique, In
  <2> QED BY <2>2 DEF r
<1>2. Unique(<<t>> \o s) /\ \A u : In(<<t>> \o s, u) => In(s, u) \/ u = t
  <2> DEFINE r == <<t>> \o s
  <2>1. <<t>> \in Seq(Timer) /\ Len(<<t>>) = 1 /\ <<t>>[1] = t
    OBVIOUS
  <2>2. /\ Len(r) = 1 + Len(s)
        /\ \A i \in 1..1 + Len(s) : r[i] = IF i <= 1 THEN <<t>>[i] ELSE s[i - 1]
    BY <2>1, ConcatProperties
  <2> HIDE DEF r
  <2>3. \A i \in 1..Len(r) : \/ i = 1 /\ r[i] = t
                             \/ i # 1 /\ i - 1 \in 1..Len(s) /\ r[i] = s[i - 1]
    BY <1>0, <2>1, <2>2
  <2>4. \A u : In(r, u) => In(s, u) \/ u = t
    BY <2>3 DEF In
  <2>5. Unique(r)
    <3> SUFFICES ASSUME NEW i \in 1..Len(r), NEW j \in 1..Len(r), r[i] = r[j] PROVE i = j
      BY DEF Unique
    <3>1. CASE i = 1 \/ j = 1
      BY <2>3, <3>1 DEF In
    <3>2. CASE i # 1 /\ j # 1
      <4>1. i - 1 = j - 1
        BY <2>3, <3>2, SMTT(30) DEF Unique
      <4> QED BY <4>1
    <3> QED BY <3>1, <3>2
  <2> QED BY <2>4, <2>5 DEF r
<1> QED BY <1>1, <1>2

\* The first timer of a queue is not in the rest of it.
LEMMA UniqueTail ==
  ASSUME NEW s \in Seq(Timer), s # <<>>, Unique(s)
  PROVE  /\ Unique(Tail(s)) /\ In(s, Head(s))
         /\ \A u : In(Tail(s), u) => In(s, u) /\ u # Head(s)
<1> DEFINE r == Tail(s)
<1>1. /\ Len(s) \in Nat \ {0} /\ Head(s) = s[1] /\ Len(r) = Len(s) - 1
      /\ \A i \in 1..Len(r) : r[i] = s[i + 1]
  OBVIOUS
<1> HIDE DEF r
<1>2. Unique(r) /\ \A u : In(r, u) => In(s, u) /\ u # Head(s)
  BY <1>1 DEF Unique, In
<1>3. In(s, Head(s))
  BY <1>1 DEF In
<1> QED BY <1>2, <1>3 DEF r

\* Unlinking a timer never lengthens a list.
LEMMA UnlinkType ==
  ASSUME NEW s \in Seq(Timer), NEW t
  PROVE  Unlink(s, t) \in Seq(Timer) /\ Len(Unlink(s, t)) <= Len(s)
<1>1. CASE In(s, t)
  <2> DEFINE k == CHOOSE i \in 1..Len(s) : s[i] = t
  <2>1. k \in 1..Len(s)
    BY <1>1 DEF In
  <2>2. Unlink(s, t) = RemoveNth(s, k)
    BY <1>1 DEF Unlink
  <2> HIDE DEF k
  <2> QED BY <2>1, <2>2, RemoveNthType
<1>2. CASE ~In(s, t)
  BY <1>2 DEF Unlink
<1> QED BY <1>1, <1>2

\* Entering add_timer or del_timer changes nothing but the caller's place.
LEMMA EnterType ==
  ASSUME TypeOK, NEW th \in Thread, NEW op \in {"add", "del"}, NEW t \in Timer, Enter(th, op, t)
  PROVE  call' \in [Thread -> Call]
<1>1. [op |-> op, t |-> t, at |-> "unlink"] \in Call /\ [op |-> op, t |-> t, at |-> "insert"] \in Call
  BY DEF Call
<1>2. NoCall \in Call
  BY DEF Call
<1>3. call' \in [Thread -> Call]
  BY <1>1, <1>2 DEF TypeOK, Enter
<1> QED BY <1>3

\* A call that has not returned names a timer.
LEMMA CallNamesTimer ==
  ASSUME TypeOK, NEW th \in Thread, call[th].at \in {"unlink", "insert"}
  PROVE  call[th] \in [op : {"add", "del"}, t : Timer, at : {"unlink", "insert"}]
BY DEF TypeOK, Call, NoCall

\* The inductive invariant.
IInv == TypeOK /\ SemCovers

\* The service starts with run_sem = 1 and empty lists.
LEMMA TimerInit == Init => IInv
<1> SUFFICES ASSUME Init PROVE IInv
  OBVIOUS
<1>1. TypeOK
  <2>1. call \in [Thread -> Call]
    BY DEF Init, Call
  <2> QED BY <2>1 DEF Init, TypeOK
<1>2. SemCovers
  BY DEF Init, SemCovers
<1> QED BY <1>1, <1>2 DEF IInv

\* Every step of the three threads keeps it.
LEMMA TimerStep ==
  ASSUME IInv, [Next]_vars
  PROVE  IInv'
<1> USE DEF IInv
<1>1. CASE add_timer
  <2>1. PICK t \in Timer : Enter("user", "add", t)
    BY <1>1 DEF add_timer
  <2>2. call' \in [Thread -> Call]
    BY <2>1, EnterType DEF Thread
  <2>3. TypeOK'
    BY <1>1, <2>2 DEF TypeOK, add_timer
  <2>4. SemCovers'
    BY <1>1 DEF SemCovers, add_timer
  <2> QED BY <2>3, <2>4
<1>2. CASE del_timer
  <2>1. PICK t \in Timer : Enter("user", "del", t)
    BY <1>2 DEF del_timer
  <2>2. call' \in [Thread -> Call]
    BY <2>1, EnterType DEF Thread
  <2>3. TypeOK'
    BY <1>2, <2>2 DEF TypeOK, del_timer
  <2>4. SemCovers'
    BY <1>2 DEF SemCovers, del_timer
  <2> QED BY <2>3, <2>4
<1>3. ASSUME NEW th \in Thread, __del_timer(th)
      PROVE  IInv'
  <2>1. call[th] \in [op : {"add", "del"}, t : Timer, at : {"unlink", "insert"}]
    BY <1>3, CallNamesTimer DEF __del_timer
  <2>2. /\ timer_vec0' \in Seq(Timer) /\ run_queue' \in Seq(Timer)
        /\ Len(run_queue') <= Len(run_queue)
    BY <1>3, UnlinkType DEF TypeOK, __del_timer
  <2>3. call' \in [Thread -> Call]
    <3>1. [call[th] EXCEPT !.at = "insert"] \in Call /\ NoCall \in Call
      BY <2>1 DEF Call
    <3> QED BY <1>3, <3>1 DEF TypeOK, __del_timer
  <2>5. TypeOK'
    BY <1>3, <2>2, <2>3 DEF TypeOK, __del_timer
  <2>6. SemCovers'
    BY <1>3, <2>2 DEF TypeOK, SemCovers, __del_timer
  <2> QED BY <2>5, <2>6
<1>4. ASSUME NEW th \in Thread, Insert(th)
      PROVE  IInv'
  <2>1. call[th].t \in Timer
    BY <1>4, CallNamesTimer DEF Insert
  <2>2. timer_vec0' \in Seq(Timer)
    BY <1>4, <2>1 DEF TypeOK, Insert
  <2>3. expires' \in [Timer -> Nat] /\ adds' \in [Timer -> Nat]
    BY <1>4, <2>1, TimerAssumption DEF TypeOK, Insert
  <2>4. call' \in [Thread -> Call]
    BY <1>4 DEF TypeOK, Insert, Call
  <2>5. TypeOK'
    BY <1>4, <2>2, <2>3, <2>4 DEF TypeOK, Insert
  <2>6. SemCovers'
    BY <1>4 DEF SemCovers, Insert
  <2> QED BY <2>5, <2>6
<1>5. CASE Tick
  BY <1>5 DEF Tick, Unlocked, TypeOK, SemCovers
<1>6. CASE Scan
  <2>0. tick' \in {"wait", "scan"} /\ scan' \in Nat \ {0} /\ moving = None
    BY <1>6 DEF Scan, TypeOK
  <2>1. TypeOK'
    BY <1>6, <2>0 DEF Scan, TypeOK
  <2>2. SemCovers'
    BY <1>6 DEF Scan, SemCovers
  <2> QED BY <2>1, <2>2
<1>7. CASE TakeExpired
  <2>1. scan \in 1..Len(timer_vec0) /\ timer_vec0[scan] \in Timer
    BY <1>7 DEF TypeOK, TakeExpired
  <2>2. timer_vec0' \in Seq(Timer)
    BY <1>7, <2>1, RemoveNthType DEF TypeOK, TakeExpired
  <2>3. TypeOK'
    BY <1>7, <2>1, <2>2 DEF TypeOK, TakeExpired
  <2>4. SemCovers'
    BY <1>7 DEF SemCovers, TakeExpired
  <2> QED BY <2>3, <2>4
<1>8. CASE MoveToRunQueue
  <2>1. moving \in Timer
    BY <1>8 DEF TypeOK, MoveToRunQueue
  <2>2. run_queue' \in Seq(Timer) /\ Len(run_queue') = Len(run_queue) + 1
    BY <1>8, <2>1 DEF TypeOK, MoveToRunQueue
  <2>3. TypeOK'
    BY <1>8, <2>2 DEF TypeOK, MoveToRunQueue
  <2>4. SemCovers'
    BY <1>8, <2>2 DEF TypeOK, SemCovers, MoveToRunQueue
  <2> QED BY <2>3, <2>4
<1>9. CASE SemWait
  BY <1>9 DEF SemWait, TypeOK, SemCovers
<1>10. CASE Pop
  <2>1. CASE run_queue = <<>>
    BY <1>10, <2>1 DEF Pop, TypeOK, SemCovers
  <2>2. CASE run_queue # <<>>
    <3>1. /\ Head(run_queue) \in Timer /\ Tail(run_queue) \in Seq(Timer)
          /\ Len(Tail(run_queue)) = Len(run_queue) - 1
      BY <2>2 DEF TypeOK
    <3>2. /\ pos' = Head(run_queue) /\ run_queue' = Tail(run_queue) /\ handle' \in {"wait", "run"}
          /\ UNCHANGED <<timer_vec0, run_sem, timer_tick, expires, tick, scan, moving, call, adds, runs>>
      BY <1>10, <2>2 DEF Pop
    <3>3. TypeOK'
      BY <3>1, <3>2 DEF TypeOK
    <3>4. SemCovers'
      BY <3>1, <3>2 DEF TypeOK, SemCovers
    <3> QED BY <3>3, <3>4
  <2> QED BY <2>1, <2>2
<1>11. CASE Run
  <2>1. pos \in Timer
    BY <1>11 DEF Run, TypeOK
  <2>2. call' \in [Thread -> Call]
    <3>1. CASE Enter("handle", "add", pos)
      BY <2>1, <3>1, EnterType DEF Thread
    <3>2. CASE UNCHANGED <<call>>
      BY <3>2 DEF TypeOK
    <3> QED BY <1>11, <3>1, <3>2 DEF Run
  <2>3. TypeOK'
    BY <1>11, <2>1, <2>2 DEF Run, TypeOK
  <2>4. SemCovers'
    BY <1>11 DEF Run, SemCovers
  <2> QED BY <2>3, <2>4
<1>12. CASE UNCHANGED vars
  BY <1>12 DEF vars, TypeOK, SemCovers
<1> QED
  BY <1>1, <1>2, <1>3, <1>4, <1>5, <1>6, <1>7, <1>8, <1>9, <1>10, <1>11, <1>12
  DEF Next, HandleThread, TickThread, Calls

\* run_sem covers every timer in run_queue, in every interleaving of ticks, user calls
\* and callbacks.
THEOREM SemaphoreCoversQueue == Spec => [](TypeOK /\ SemCovers)
<1>1. IInv /\ [Next]_vars => IInv'
  BY TimerStep
<1>2. IInv <=> TypeOK /\ SemCovers
  BY DEF IInv
<1> QED BY TimerInit, <1>1, <1>2, PTL DEF Spec

\* The handle thread never sleeps on run_sem while a timer waits to be run.
THEOREM WakeupsNotLost == Spec => []NoLostWakeup
<1>1. TypeOK /\ SemCovers => NoLostWakeup
  BY DEF TypeOK, SemCovers, NoLostWakeup
<1> QED BY <1>1, SemaphoreCoversQueue, PTL

-----------------------------------------------------------------------------
(* Each timer is in one place.                                             *)

Running(t) == handle = "run" /\ pos = t

\* The two lists, the tick thread and the handle thread never hold the same timer.
Exclusive ==
  /\ Unique(timer_vec0) /\ Unique(run_queue)
  /\ \A t \in Timer : ~(In(timer_vec0, t) /\ In(run_queue, t))
  /\ \A t \in Timer : moving = t \/ Running(t) => ~__timer_pending(t)
  /\ \A t \in Timer : ~(moving = t /\ Running(t))

Adding(th, t) == call[th].op = "add" /\ call[th].t = t

\* A timer somebody is adding is nowhere yet, and nobody else is adding it.
AddingInv ==
  /\ \A th \in Thread : call[th].at = "insert" => call[th].op = "add"
  /\ \A th \in Thread, t \in Timer : Adding(th, t) => ~Armed(t) /\ call[th].at = "insert"
  /\ \A t \in Timer : ~(Adding("user", t) /\ Adding("handle", t))
  /\ \A t \in Timer : Adding("handle", t) => t \in Rearming /\ adds[t] # 0

PlaceInv == TypeOK /\ Exclusive /\ AddingInv /\ RunsOncePerAdd

\* A timer nowhere to be found has not run more often than it was added.
LEMMA CountOf ==
  ASSUME RunsOncePerAdd, NEW t \in Timer
  PROVE  (~Armed(t) => runs[t] + 0 <= adds[t]) /\ (Armed(t) => runs[t] + 1 <= adds[t])
BY DEF RunsOncePerAdd

\* A step that starts no call, counts nothing and arms no timer.
LEMMA NothingArmed ==
  ASSUME PlaceInv, TypeOK', Exclusive', \A t \in Timer : Armed(t)' => Armed(t),
         adds' = adds, runs' = runs,
         \A th \in Thread : call'[th] = call[th] \/ call'[th] = NoCall
  PROVE  PlaceInv'
<1>1. NoCall.op = "none" /\ NoCall.at = "none"
  BY DEF NoCall
<1>2. \A th \in Thread, t \in Timer : Adding(th, t)' => Adding(th, t) /\ call'[th] = call[th]
  BY <1>1 DEF Adding
<1>3. AddingInv'
  <2>1. \A th \in Thread : call'[th].at = "insert" => call'[th].op = "add"
    BY <1>1 DEF PlaceInv, AddingInv
  <2>2. \A th \in Thread, t \in Timer : Adding(th, t)' => ~Armed(t)' /\ call'[th].at = "insert"
    BY <1>2 DEF PlaceInv, AddingInv
  <2>3. /\ \A t \in Timer : ~(Adding("user", t)' /\ Adding("handle", t)')
        /\ \A t \in Timer : Adding("handle", t)' => t \in Rearming /\ adds'[t] # 0
    BY <1>2 DEF PlaceInv, AddingInv, Thread
  <2> QED BY <2>1, <2>2, <2>3 DEF AddingInv
<1>4. RunsOncePerAdd'
  <2> SUFFICES ASSUME NEW t \in Timer
               PROVE  runs[t] + (IF Armed(t)' THEN 1 ELSE 0) <= adds[t]
    BY DEF RunsOncePerAdd
  <2>1. runs[t] \in Nat /\ adds[t] \in Nat
    BY DEF PlaceInv, TypeOK
  <2>2. CASE Armed(t)
    <3>1. runs[t] + 1 <= adds[t]
      BY <2>2, CountOf DEF PlaceInv
    <3> QED BY <2>1, <3>1
  <2>3. CASE ~Armed(t)
    <3>1. runs[t] + 0 <= adds[t] /\ ~Armed(t)'
      BY <2>3, CountOf DEF PlaceInv
    <3> QED BY <2>1, <3>1
  <2> QED BY <2>2, <2>3
<1> QED BY <1>3, <1>4 DEF PlaceInv

\* The user thread enters a call: it adds only timers that are nowhere.
LEMMA UserEnters ==
  ASSUME Restarted = {}, PlaceInv, TypeOK', add_timer \/ del_timer
  PROVE  PlaceInv'
<1>0. /\ UNCHANGED <<timer_vec0, run_queue, moving, handle, pos, adds, runs>>
      /\ call["user"] = NoCall
  BY DEF add_timer, del_timer
<1>1. Exclusive' /\ \A t \in Timer : Armed(t)' <=> Armed(t)
  BY <1>0 DEF PlaceInv, Exclusive, Armed, Running, __timer_pending
<1>2. RunsOncePerAdd'
  BY <1>0, <1>1 DEF PlaceInv, RunsOncePerAdd
<1>3. DOMAIN call = Thread /\ Thread = {"user", "handle"}
  BY DEF PlaceInv, TypeOK, Thread
<1>4. AddingInv'
  <2>1. ASSUME NEW t \in Timer, MayAdd(t), Enter("user", "add", t) PROVE AddingInv'
    <3>1. ~Armed(t)
      <4>1. CASE adds[t] = 0
        <5>1. runs[t] \in Nat
          BY DEF PlaceInv, TypeOK
        <5> QED BY <4>1, <5>1, CountOf DEF PlaceInv
      <4>2. CASE ~Armed(t)
        BY <4>2
      <4> QED BY <2>1, <4>1, <4>2 DEF MayAdd
    <3>2. ~Adding("handle", t)
      BY <2>1 DEF MayAdd, PlaceInv, AddingInv
    <3>3. /\ call'["user"] = [op |-> "add", t |-> t, at |-> "insert"]
          /\ call'["handle"] = call["handle"]
      BY <1>3, <2>1, <3>1 DEF Enter, Armed
    <3>4. call'["user"].op = "add" /\ call'["user"].t = t /\ call'["user"].at = "insert"
      BY <3>3
    <3>5. \A u \in Timer : /\ Adding("user", u)' <=> u = t
                           /\ Adding("handle", u)' <=> Adding("handle", u)
      BY <3>3, <3>4 DEF Adding
    <3> QED BY <1>0, <1>1, <1>3, <3>1, <3>2, <3>3, <3>4, <3>5 DEF PlaceInv, AddingInv
  <2>2. ASSUME NEW t \in Timer, Enter("user", "del", t) PROVE AddingInv'
    <3>1. /\ call'["user"] \in {[op |-> "del", t |-> t, at |-> "unlink"], NoCall}
          /\ call'["handle"] = call["handle"]
      BY <1>3, <2>2 DEF Enter
    <3>2. call'["user"].op # "add" /\ call'["user"].at # "insert"
      BY <3>1 DEF NoCall
    <3>3. \A u \in Timer : ~Adding("user", u)' /\ (Adding("handle", u)' <=> Adding("handle", u))
      BY <3>1, <3>2 DEF Adding
    <3> QED BY <1>0, <1>1, <1>3, <3>1, <3>2, <3>3 DEF PlaceInv, AddingInv
  <2> QED BY <2>1, <2>2 DEF add_timer, del_timer
<1> QED BY <1>1, <1>2, <1>4 DEF PlaceInv

\* The critical section of add_timer: the timer gets into timer_vec0, and nowhere else.
LEMMA InsertPlaces ==
  ASSUME PlaceInv, TypeOK', NEW th \in Thread, Insert(th)
  PROVE  PlaceInv'
<1> DEFINE t == call[th].t
<1>0. call[th] \in [op : {"add", "del"}, t : Timer, at : {"unlink", "insert"}]
  BY CallNamesTimer DEF Insert, PlaceInv
<1>1. t \in Timer /\ Adding(th, t) /\ ~Armed(t)
  BY <1>0 DEF PlaceInv, AddingInv, Insert, Adding
<1>2. /\ timer_vec0' = <<t>> \o timer_vec0 /\ adds' = [adds EXCEPT ![t] = @ + 1]
      /\ call' = [call EXCEPT ![th] = NoCall]
      /\ UNCHANGED <<run_queue, moving, handle, pos, runs>>
  BY DEF Insert
<1> HIDE DEF t
<1>3. Unique(timer_vec0') /\ \A u : In(timer_vec0', u) => In(timer_vec0, u) \/ u = t
  BY <1>1, <1>2, UniqueLinked DEF PlaceInv, TypeOK, Exclusive, Armed, __timer_pending
<1>4. Exclusive'
  BY <1>1, <1>2, <1>3 DEF PlaceInv, Exclusive, Armed, Running, __timer_pending
<1>5. \A u \in Timer : u # t => (Armed(u)' => Armed(u))
  BY <1>2, <1>3 DEF Armed, __timer_pending
<1>6. call'[th] = NoCall /\ \A h \in Thread \ {th} : call'[h] = call[h]
  BY <1>2 DEF PlaceInv, TypeOK
<1>7. \A u \in Timer : adds'[u] = IF u = t THEN adds[u] + 1 ELSE adds[u]
  BY <1>1, <1>2 DEF PlaceInv, TypeOK
<1>8. AddingInv'
  <2>1. NoCall.op = "none" /\ NoCall.at = "none"
    BY DEF NoCall
  <2>2. \A h \in Thread, u \in Timer : Adding(h, u)' => h # th /\ u # t /\ Adding(h, u) /\ call'[h] = call[h]
    <3> SUFFICES ASSUME NEW h \in Thread, NEW u \in Timer, Adding(h, u)'
                 PROVE  h # th /\ u # t /\ Adding(h, u) /\ call'[h] = call[h]
      OBVIOUS
    <3>1. h # th /\ Adding(h, u) /\ call'[h] = call[h]
      BY <1>6, <2>1 DEF Adding
    <3>2. ~(Adding("user", u) /\ Adding("handle", u))
      BY DEF PlaceInv, AddingInv
    <3>3. u # t
      BY <1>1, <3>1, <3>2 DEF Thread
    <3> QED BY <3>1, <3>3
  <2>3. \A h \in Thread : call'[h].at = "insert" => call'[h].op = "add"
    BY <1>6, <2>1 DEF PlaceInv, AddingInv
  <2>4. \A h \in Thread, u \in Timer : Adding(h, u)' => ~Armed(u)' /\ call'[h].at = "insert"
    BY <1>5, <2>2 DEF PlaceInv, AddingInv
  <2>5. \A u \in Timer : ~(Adding("user", u)' /\ Adding("handle", u)')
    BY <2>2 DEF PlaceInv, AddingInv, Thread
  <2>6. \A u \in Timer : Adding("handle", u)' => u \in Rearming /\ adds'[u] # 0
    BY <1>7, <2>2 DEF PlaceInv, AddingInv, Thread
  <2> QED BY <2>3, <2>4, <2>5, <2>6 DEF AddingInv
<1>9. RunsOncePerAdd'
  <2> SUFFICES ASSUME NEW u \in Timer
               PROVE  runs[u] + (IF Armed(u)' THEN 1 ELSE 0) <= adds'[u]
    BY <1>2 DEF RunsOncePerAdd
  <2>1. runs[u] \in Nat /\ adds[u] \in Nat
    BY DEF PlaceInv, TypeOK
  <2>2. CASE u = t
    <3>1. runs[u] + 0 <= adds[u]
      BY <1>1, <2>2, CountOf DEF PlaceInv
    <3> QED BY <1>7, <2>1, <2>2, <3>1
  <2>3. CASE u # t
    <3>1. runs[u] + (IF Armed(u) THEN 1 ELSE 0) <= adds[u]
      BY DEF PlaceInv, RunsOncePerAdd
    <3> QED BY <1>5, <1>7, <2>1, <2>3, <3>1
  <2> QED BY <2>2, <2>3
<1> QED BY <1>4, <1>8, <1>9 DEF PlaceInv

\* The function runs: the timer has left every list, and may be added again.
LEMMA RunPlaces ==
  ASSUME PlaceInv, TypeOK', Run
  PROVE  PlaceInv'
<1>0. /\ handle = "run" /\ handle' = "pop2" /\ runs' = [runs EXCEPT ![pos] = @ + 1]
      /\ UNCHANGED <<timer_vec0, run_queue, moving, pos, adds>>
  BY DEF Run
<1>1. pos \in Timer /\ Running(pos) /\ Armed(pos)
  BY <1>0 DEF PlaceInv, TypeOK, Running, Armed
<1>2. ~__timer_pending(pos) /\ moving # pos
  BY <1>1 DEF PlaceInv, Exclusive
<1>3. \A u \in Timer : Armed(u)' <=> Armed(u) /\ u # pos
  BY <1>0, <1>2 DEF Armed, __timer_pending
<1>4. Exclusive'
  BY <1>0 DEF PlaceInv, Exclusive, Running, __timer_pending
<1>5. runs[pos] \in Nat /\ adds[pos] \in Nat /\ runs[pos] + 1 <= adds[pos]
  BY <1>1, CountOf DEF PlaceInv, TypeOK
<1>6. RunsOncePerAdd'
  <2> SUFFICES ASSUME NEW u \in Timer
               PROVE  runs'[u] + (IF Armed(u)' THEN 1 ELSE 0) <= adds[u]
    BY <1>0 DEF RunsOncePerAdd
  <2>1. CASE u = pos
    <3>1. runs'[u] = runs[pos] + 1
      BY <1>0, <1>1, <2>1 DEF PlaceInv, TypeOK
    <3>2. ~Armed(u)' /\ adds[u] \in Nat /\ runs'[u] \in Nat /\ runs'[u] <= adds[u]
      BY <1>3, <1>5, <2>1, <3>1
    <3> QED BY <3>2
  <2>2. CASE u # pos
    <3>1. runs'[u] = runs[u]
      BY <1>0, <2>2 DEF PlaceInv, TypeOK
    <3>2. runs[u] + (IF Armed(u) THEN 1 ELSE 0) <= adds[u]
      BY DEF PlaceInv, RunsOncePerAdd
    <3>3. Armed(u)' <=> Armed(u)
      BY <1>3, <2>2
    <3>4. CASE Armed(u)
      BY <3>1, <3>2, <3>3, <3>4
    <3>5. CASE ~Armed(u)
      BY <3>1, <3>2, <3>3, <3>5
    <3> QED BY <3>4, <3>5
  <2> QED BY <2>1, <2>2
<1>7. ~Adding("user", pos)
  BY <1>1 DEF PlaceInv, AddingInv, Thread
<1>8. DOMAIN call = Thread /\ Thread = {"user", "handle"}
  BY DEF PlaceInv, TypeOK, Thread
<1>9. AddingInv'
  <2>1. CASE pos \in Rearming /\ Enter("handle", "add", pos)
    <3>1. /\ call'["handle"] = [op |-> "add", t |-> pos, at |-> "insert"]
          /\ call'["user"] = call["user"]
      BY <1>2, <1>8, <2>1 DEF Enter
    <3>2. call'["handle"].op = "add" /\ call'["handle"].t = pos /\ call'["handle"].at = "insert"
      BY <3>1
    <3>3. \A u \in Timer : /\ Adding("handle", u)' <=> u = pos
                           /\ Adding("user", u)' <=> Adding("user", u)
      BY <3>1, <3>2 DEF Adding
    <3> QED BY <1>0, <1>3, <1>5, <1>7, <1>8, <2>1, <3>1, <3>2, <3>3 DEF PlaceInv, AddingInv
  <2>2. CASE UNCHANGED call
    <3>1. \A th \in Thread, u \in Timer : Adding(th, u)' <=> Adding(th, u)
      BY <2>2 DEF Adding
    <3> QED BY <1>0, <1>3, <2>2, <3>1 DEF PlaceInv, AddingInv, Thread
  <2> QED BY <2>1, <2>2 DEF Run
<1> QED BY <1>4, <1>6, <1>9 DEF PlaceInv

\* The inductive step.
LEMMA PlaceStep ==
  ASSUME Restarted = {}, PlaceInv, TypeOK', [Next]_vars
  PROVE  PlaceInv'
<1>1. ASSUME NEW th \in Thread, __del_timer(th) PROVE PlaceInv'
  <2>1. /\ call[th].at = "unlink"
        /\ timer_vec0' = Unlink(timer_vec0, call[th].t) /\ run_queue' = Unlink(run_queue, call[th].t)
        /\ call' = [call EXCEPT ![th] = IF @.op = "add" THEN [@ EXCEPT !.at = "insert"] ELSE NoCall]
        /\ UNCHANGED <<moving, handle, pos, adds, runs>>
    BY <1>1 DEF __del_timer
  <2>2. call[th] \in [op : {"add", "del"}, t : Timer, at : {"unlink", "insert"}]
    BY <2>1, CallNamesTimer DEF PlaceInv
  <2>3. call[th].op # "add"
    BY <2>1, <2>2 DEF PlaceInv, AddingInv, Adding
  <2>4. \A h \in Thread : call'[h] = call[h] \/ call'[h] = NoCall
    BY <2>1, <2>3 DEF PlaceInv, TypeOK
  <2>5. /\ Unique(timer_vec0') /\ \A u : In(timer_vec0', u) => In(timer_vec0, u)
        /\ Unique(run_queue') /\ \A u : In(run_queue', u) => In(run_queue, u)
    BY <2>1, UniqueUnlinked DEF PlaceInv, TypeOK, Exclusive
  <2>6. Exclusive'
    BY <2>1, <2>5 DEF PlaceInv, Exclusive, Running, __timer_pending
  <2>7. \A u \in Timer : Armed(u)' => Armed(u)
    BY <2>1, <2>5 DEF Armed, __timer_pending
  <2> QED BY <2>1, <2>4, <2>6, <2>7, NothingArmed
<1>2. CASE Tick \/ Scan \/ SemWait \/ UNCHANGED vars
  <2>1. UNCHANGED <<timer_vec0, run_queue, moving, call, adds, runs, pos>>
    BY <1>2 DEF Tick, Scan, SemWait, vars
  <2>2. handle' = "run" <=> handle = "run"
    BY <1>2 DEF Tick, Scan, SemWait, vars
  <2>3. Exclusive' /\ \A u \in Timer : Armed(u)' => Armed(u)
    BY <2>1, <2>2 DEF PlaceInv, Exclusive, Armed, Running, __timer_pending
  <2> QED BY <2>1, <2>3, NothingArmed
<1>3. CASE TakeExpired
  <2>1. /\ moving = None /\ moving' = timer_vec0[scan] /\ timer_vec0' = RemoveNth(timer_vec0, scan)
        /\ UNCHANGED <<run_queue, handle, pos, call, adds, runs>>
    BY <1>3 DEF TakeExpired
  <2>2. scan \in 1..Len(timer_vec0) /\ moving' \in Timer /\ In(timer_vec0, moving')
    BY <1>3, <2>1 DEF TakeExpired, PlaceInv, TypeOK, In
  <2>3. Unique(timer_vec0') /\ \A u : In(timer_vec0', u) => In(timer_vec0, u) /\ u # moving'
    BY <2>1, <2>2, UniqueRemoved DEF PlaceInv, TypeOK, Exclusive
  <2>4. Exclusive'
    BY <2>1, <2>2, <2>3 DEF PlaceInv, Exclusive, Running, __timer_pending
  <2>5. \A u \in Timer : Armed(u)' => Armed(u)
    BY <2>1, <2>2, <2>3 DEF Armed, __timer_pending
  <2> QED BY <2>1, <2>4, <2>5, NothingArmed
<1>4. CASE MoveToRunQueue
  <2>1. /\ moving # None /\ run_queue' = Append(run_queue, moving) /\ moving' = None
        /\ UNCHANGED <<timer_vec0, handle, pos, call, adds, runs>>
    BY <1>4 DEF MoveToRunQueue
  <2>2. moving \in Timer
    BY <2>1 DEF PlaceInv, TypeOK
  <2>3. ~__timer_pending(moving) /\ ~Running(moving)
    BY <2>2 DEF PlaceInv, Exclusive
  <2>4. Unique(run_queue') /\ \A u : In(run_queue', u) => In(run_queue, u) \/ u = moving
    BY <2>1, <2>2, <2>3, UniqueLinked DEF PlaceInv, TypeOK, Exclusive, __timer_pending
  <2>5. Exclusive'
    BY <2>1, <2>2, <2>3, <2>4, TimerAssumption DEF PlaceInv, Exclusive, Running, __timer_pending
  <2>6. \A u \in Timer : Armed(u)' => Armed(u)
    BY <2>1, <2>4, TimerAssumption DEF Armed, __timer_pending
  <2> QED BY <2>1, <2>5, <2>6, NothingArmed
<1>5. CASE Pop
  <2>0. handle # "run" /\ UNCHANGED <<timer_vec0, moving, call, adds, runs>>
    BY <1>5 DEF Pop
  <2>1. CASE run_queue = <<>>
    <3>1. handle' = "wait" /\ run_queue' = run_queue
      BY <1>5, <2>1 DEF Pop
    <3>2. Exclusive' /\ \A u \in Timer : Armed(u)' => Armed(u)
      BY <2>0, <3>1 DEF PlaceInv, Exclusive, Armed, Running, __timer_pending
    <3> QED BY <2>0, <3>2, NothingArmed
  <2>2. CASE run_queue # <<>>
    <3>1. pos' = Head(run_queue) /\ run_queue' = Tail(run_queue)
      BY <1>5, <2>2 DEF Pop
    <3>2. pos' \in Timer
      BY <2>2, <3>1 DEF PlaceInv, TypeOK
    <3>3. /\ Unique(run_queue') /\ In(run_queue, pos')
          /\ \A u : In(run_queue', u) => In(run_queue, u) /\ u # pos'
      BY <2>2, <3>1, UniqueTail DEF PlaceInv, TypeOK, Exclusive
    <3>4. Exclusive'
      BY <2>0, <3>2, <3>3 DEF PlaceInv, Exclusive, Running, __timer_pending
    <3>5. \A u \in Timer : Armed(u)' => Armed(u)
      BY <2>0, <3>3 DEF Armed, __timer_pending
    <3> QED BY <2>0, <3>4, <3>5, NothingArmed
  <2> QED BY <2>1, <2>2
<1> QED
  BY <1>1, <1>2, <1>3, <1>4, <1>5, UserEnters, InsertPlaces, RunPlaces
  DEF Next, HandleThread, TickThread, Calls

\* The lists are empty when the service starts.
LEMMA PlaceInit == Init => PlaceInv
<1> SUFFICES ASSUME Init PROVE PlaceInv
  OBVIOUS
<1>1. TypeOK
  BY TimerInit DEF IInv
<1>2. Exclusive /\ \A t \in Timer : ~Armed(t)
  BY TimerAssumption DEF Init, Exclusive, Unique, In, Running, __timer_pending, Armed
<1>3. \A th \in Thread : call[th].op = "none" /\ call[th].at = "none"
  BY DEF Init, NoCall
<1>4. AddingInv
  BY <1>3 DEF AddingInv, Adding, Thread
<1>5. RunsOncePerAdd
  <2> SUFFICES ASSUME NEW t \in Timer PROVE runs[t] + (IF Armed(t) THEN 1 ELSE 0) <= adds[t]
    BY DEF RunsOncePerAdd
  <2>1. runs[t] = 0 /\ adds[t] = 0 /\ ~Armed(t)
    BY <1>2 DEF Init
  <2> QED BY <2>1
<1> QED BY <1>1, <1>2, <1>4, <1>5 DEF PlaceInv

LEMMA PlaceInvariant ==
  ASSUME Restarted = {}
  PROVE  Spec => []PlaceInv
<1>1. PlaceInv /\ TypeOK' /\ [Next]_vars => PlaceInv'
  BY PlaceStep
<1>2. Spec => []TypeOK
  BY SemaphoreCoversQueue, PTL
<1> QED BY PlaceInit, <1>1, <1>2, PTL DEF Spec

\* As long as users add a timer only when it is not armed, or leave it to the timer's own
\* function (the example at the head of ft_timer.c), list_add never gets a timer that is linked already, though add_timer and
\* del_timer look at the lists without the lock.
THEOREM TimersLinkedOnce ==
  ASSUME Restarted = {}
  PROVE  Spec => []LinkedOnce
<1>1. PlaceInv => LinkedOnce
  <2> SUFFICES ASSUME PlaceInv PROVE LinkedOnce
    OBVIOUS
  <2> DEFINE a == timer_vec0
             b == run_queue
             both == a \o b
  <2>1. /\ Len(a) \in Nat /\ Len(b) \in Nat /\ Len(both) = Len(a) + Len(b)
        /\ \A i \in 1..Len(a) + Len(b) : both[i] = IF i <= Len(a) THEN a[i] ELSE b[i - Len(a)]
    BY ConcatProperties DEF PlaceInv, TypeOK
  <2>2. Unique(a) /\ Unique(b) /\ \A i \in 1..Len(a), j \in 1..Len(b) : a[i] # b[j]
    <3>1. \A i \in 1..Len(a) : a[i] \in Timer
      BY DEF PlaceInv, TypeOK
    <3> QED BY <3>1 DEF PlaceInv, Exclusive, In
  <2> HIDE DEF a, b, both
  <2>3. ASSUME NEW i \in 1..Len(both) PROVE \/ i \in 1..Len(a) /\ both[i] = a[i]
                                            \/ i - Len(a) \in 1..Len(b) /\ both[i] = b[i - Len(a)]
    BY <2>1
  <2>4. ASSUME NEW i \in 1..Len(both), NEW j \in 1..Len(both), both[i] = both[j] PROVE i = j
    <3>1. \/ i \in 1..Len(a) /\ j \in 1..Len(a) /\ a[i] = a[j]
          \/ i - Len(a) \in 1..Len(b) /\ j - Len(a) \in 1..Len(b) /\ b[i - Len(a)] = b[j - Len(a)]
      BY <2>2, <2>3, <2>4
    <3>2. i = j \/ i - Len(a) = j - Len(a)
      BY <2>2, <3>1 DEF Unique
    <3> QED BY <2>1, <3>2
  <2> QED BY <2>4 DEF LinkedOnce, both, a, b
<1> QED BY <1>1, PlaceInvariant, PTL

\* "Each added timer is executed only once", under the same discipline.
THEOREM TimersRunOncePerAdd ==
  ASSUME Restarted = {}
  PROVE  Spec => []RunsOncePerAdd
<1>1. PlaceInv => RunsOncePerAdd
  BY DEF PlaceInv
<1> QED BY <1>1, PlaceInvariant, PTL

=============================================================================
