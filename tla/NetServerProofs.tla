-------------------------- MODULE NetServerProofs --------------------------
(***************************************************************************)
(* Proofs about the two ways of data through the device server and the     *)
(* message centre, for any devices, cloud programs, descriptors and        *)
(* bounds: the way up is a relay that may lose messages, but keeps their   *)
(* order and doubles none (LossyFifo); the way down keeps the order too,   *)
(* and ends at the connection of the device's latest login.                *)
(***************************************************************************)
EXTENDS NetServer, SequenceTheorems, WellFoundedInduction, TLAPS

\* Ranges of the lists the queues are made of.
LEMMA AppendRange ==
  ASSUME NEW S, NEW s \in Seq(S), NEW x \in S
  PROVE  Append(s, x) \in Seq(S) /\ Range(Append(s, x)) = Range(s) \cup {x}
<1> DEFINE t == Append(s, x)
<1>1. /\ t \in Seq(S) /\ Len(t) = Len(s) + 1 /\ Len(s) \in Nat
      /\ \A i \in 1..Len(s) : t[i] = s[i]
      /\ t[Len(s) + 1] = x
  BY AppendProperties
<1>2. DOMAIN t = 1..Len(t) /\ DOMAIN s = 1..Len(s)
  BY <1>1
<1> HIDE DEF t
<1>3. Range(t) = Range(s) \cup {x}
  <2>1. ASSUME NEW i \in 1..Len(t) PROVE t[i] \in Range(s) \cup {x}
    <3>1. CASE i \in 1..Len(s)
      BY <1>1, <1>2, <3>1 DEF Range
    <3>2. CASE i = Len(s) + 1
      BY <1>1, <3>2
    <3> QED BY <1>1, <3>1, <3>2
  <2>2. ASSUME NEW i \in 1..Len(s) PROVE s[i] \in Range(t)
    <3>1. i \in 1..Len(t) /\ t[i] = s[i]
      BY <1>1
    <3> QED BY <1>2, <3>1 DEF Range
  <2>3. x \in Range(t)
    <3>1. Len(s) + 1 \in 1..Len(t)
      BY <1>1
    <3> QED BY <1>1, <1>2, <3>1 DEF Range
  <2> QED BY <1>2, <2>1, <2>2, <2>3 DEF Range
<1> QED BY <1>1, <1>3 DEF t

LEMMA TailElements ==
  ASSUME NEW S, NEW s \in Seq(S), s # <<>>
  PROVE  /\ Head(s) \in S /\ Head(s) = s[1] /\ Len(s) \in Nat \ {0}
         /\ Tail(s) \in Seq(S) /\ Len(Tail(s)) = Len(s) - 1
         /\ \A i \in 1..Len(s) - 1 : Tail(s)[i] = s[i + 1]
BY HeadTailProperties

LEMMA TailRange ==
  ASSUME NEW S, NEW s \in Seq(S), s # <<>>
  PROVE  /\ Head(s) \in S /\ Tail(s) \in Seq(S)
         /\ Range(s) = {Head(s)} \cup Range(Tail(s))
<1> DEFINE t == Tail(s)
<1>1. /\ Head(s) \in S /\ Head(s) = s[1] /\ Len(s) \in Nat \ {0}
      /\ t \in Seq(S) /\ Len(t) = Len(s) - 1
      /\ \A i \in 1..Len(s) - 1 : t[i] = s[i + 1]
  BY TailElements
<1>2. DOMAIN t = 1..Len(t) /\ DOMAIN s = 1..Len(s)
  BY <1>1
<1> HIDE DEF t
<1>3. ASSUME NEW i \in 1..Len(s) PROVE s[i] \in {Head(s)} \cup Range(t)
  <2>1. CASE i = 1
    BY <1>1, <2>1
  <2>2. CASE i # 1
    <3>1. i - 1 \in 1..Len(t) /\ t[i - 1] = s[(i - 1) + 1] /\ (i - 1) + 1 = i
      BY <1>1, <2>2
    <3> QED BY <1>2, <3>1 DEF Range
  <2> QED BY <2>1, <2>2
<1>4. ASSUME NEW i \in 1..Len(t) PROVE t[i] \in Range(s)
  <2>1. i + 1 \in 1..Len(s) /\ t[i] = s[i + 1]
    BY <1>1
  <2> QED BY <1>2, <2>1 DEF Range
<1>5. Head(s) \in Range(s)
  <2>1. 1 \in 1..Len(s)
    BY <1>1
  <2> QED BY <1>1, <1>2, <2>1 DEF Range
<1>6. Range(s) = {Head(s)} \cup Range(t)
  BY <1>2, <1>3, <1>4, <1>5 DEF Range
<1> QED BY <1>1, <1>6 DEF t

-----------------------------------------------------------------------------
(* The inductive invariant.                                                *)

IsData(m) == m.type = "DEV_DATA_UP"

\* Of two data messages of one device a was sent before b.
Older(a, b) == IsData(a) /\ IsData(b) /\ a.dst_mac = b.dst_mac => a.n < b.n

Sorted(q) == \A i, j \in 1..Len(q) : i < j => Older(q[i], q[j])

QueuesInv ==
  /\ up \in [Dev -> Nat]
  /\ DOMAIN mt = {"pc", "msg", "node"} /\ (mt.pc = "ToCloud" => mt.msg \in Message)
  /\ nativeQ \in Seq(Message) /\ devQ \in Seq(Message)

\* What is inside was numbered by its device, which has not got further yet.
NumbersInv == \A m \in Inside : IsData(m) => m.dst_mac \in Dev /\ m.n \in 1..up[m.dst_mac]

\* From the end of dev_msg_queue over the transfer thread to the head of s_cloud_msg_queue the messages
\* of a device get older.
OrderInv ==
  /\ Sorted(nativeQ) /\ Sorted(devQ)
  /\ \A a \in Range(nativeQ), b \in Range(devQ) : Older(a, b)
  /\ mt.pc = "ToCloud" => /\ \A a \in Range(nativeQ) : Older(a, mt.msg)
                          /\ \A b \in Range(devQ) : Older(mt.msg, b)

UpInv == QueuesInv /\ NumbersInv /\ OrderInv

LEMMA SortedAppend ==
  ASSUME NEW s \in Seq(Message), NEW x \in Message, Sorted(s), \A a \in Range(s) : Older(a, x)
  PROVE  Sorted(Append(s, x))
<1> DEFINE t == Append(s, x)
<1>1. /\ t \in Seq(Message) /\ Len(t) = Len(s) + 1 /\ Len(s) \in Nat
      /\ \A i \in 1..Len(s) : t[i] = s[i]
      /\ t[Len(s) + 1] = x
  BY AppendProperties
<1>2. \A i \in 1..Len(s) : s[i] \in Range(s)
  BY DEF Range
<1> HIDE DEF t
<1>3. ASSUME NEW i \in 1..Len(t), NEW j \in 1..Len(t), i < j PROVE Older(t[i], t[j])
  <2>1. i \in 1..Len(s) /\ t[i] = s[i]
    BY <1>1, <1>3
  <2>2. CASE j \in 1..Len(s)
    <3>1. t[j] = s[j] /\ Older(s[i], s[j])
      BY <1>1, <1>3, <2>1, <2>2 DEF Sorted
    <3> QED BY <2>1, <3>1
  <2>3. CASE j = Len(s) + 1
    <3>1. t[j] = x /\ Older(s[i], x)
      BY <1>1, <1>2, <2>1, <2>3
    <3> QED BY <2>1, <3>1
  <2> QED BY <1>1, <2>2, <2>3
<1> QED BY <1>3 DEF Sorted, t

LEMMA SortedTail ==
  ASSUME NEW s \in Seq(Message), s # <<>>, Sorted(s)
  PROVE  Sorted(Tail(s)) /\ \A b \in Range(Tail(s)) : Older(Head(s), b)
<1> DEFINE t == Tail(s)
<1>1. /\ Head(s) = s[1] /\ Len(s) \in Nat \ {0}
      /\ t \in Seq(Message) /\ Len(t) = Len(s) - 1
      /\ \A i \in 1..Len(s) - 1 : t[i] = s[i + 1]
  BY TailElements
<1>2. DOMAIN t = 1..Len(t)
  BY <1>1
<1> HIDE DEF t
<1>3. ASSUME NEW i \in 1..Len(t), NEW j \in 1..Len(t), i < j PROVE Older(t[i], t[j])
  <2>1. i + 1 \in 1..Len(s) /\ j + 1 \in 1..Len(s) /\ i + 1 < j + 1
    BY <1>1, <1>3
  <2>2. Older(s[i + 1], s[j + 1])
    BY <2>1 DEF Sorted
  <2> QED BY <1>1, <2>2
<1>4. ASSUME NEW i \in 1..Len(t) PROVE Older(Head(s), t[i])
  <2>1. 1 \in 1..Len(s) /\ i + 1 \in 1..Len(s) /\ 1 < i + 1
    BY <1>1
  <2>2. Older(s[1], s[i + 1])
    BY <2>1 DEF Sorted
  <2> QED BY <1>1, <2>2
<1> QED BY <1>2, <1>3, <1>4 DEF Sorted, Range, t

-----------------------------------------------------------------------------
(* Steps.                                                                  *)

\* The numbers a device's data has in a set of messages.
Numbers(M, d) == {m.n : m \in {x \in M : IsData(x) /\ x.dst_mac = d}}

Pipe == [d \in Dev |-> UpPipe(d)]
RelayStep == [Up!Next]_<<up, Pipe, upOut>>

LEMMA PipeIs ==
  Pipe = [d \in Dev |-> Numbers(Inside, d)] /\ Pipe' = [d \in Dev |-> Numbers(Inside', d)]
BY DEF Pipe, UpPipe, Numbers, IsData

\* One data message more, and the only one with its number.
LEMMA NumbersMore ==
  ASSUME NEW M, NEW x, IsData(x)
  PROVE  /\ Numbers(M \cup {x}, x.dst_mac) = Numbers(M, x.dst_mac) \cup {x.n}
         /\ \A d : d # x.dst_mac => Numbers(M \cup {x}, d) = Numbers(M, d)
         /\ (\A m \in M : IsData(m) /\ m.dst_mac = x.dst_mac => m.n # x.n)
              => Numbers(M, x.dst_mac) = Numbers(M \cup {x}, x.dst_mac) \ {x.n}
<1>1. \A N, d, n : n \in Numbers(N, d) <=> \E m \in N : IsData(m) /\ m.dst_mac = d /\ m.n = n
  BY DEF Numbers
<1>2. Numbers(M \cup {x}, x.dst_mac) = Numbers(M, x.dst_mac) \cup {x.n}
  BY <1>1
<1>3. ASSUME NEW d, d # x.dst_mac PROVE Numbers(M \cup {x}, d) = Numbers(M, d)
  <2>1. {m \in M \cup {x} : IsData(m) /\ m.dst_mac = d} = {m \in M : IsData(m) /\ m.dst_mac = d}
    BY <1>3
  <2> QED BY <2>1 DEF Numbers
<1>4. ASSUME \A m \in M : IsData(m) /\ m.dst_mac = x.dst_mac => m.n # x.n
      PROVE  x.n \notin Numbers(M, x.dst_mac)
  BY <1>1, <1>4
<1> QED BY <1>2, <1>3, <1>4

\* A step that takes no data message in or out.
LEMMA NothingMoves ==
  ASSUME UpInv, up' = up, upOut' = upOut, \A m : IsData(m) => (m \in Inside' <=> m \in Inside)
  PROVE  NumbersInv' /\ RelayStep
<1>1. NumbersInv'
  BY DEF UpInv, NumbersInv
<1>2. \A d \in Dev : Numbers(Inside', d) = Numbers(Inside, d)
  BY DEF Numbers
<1>3. Pipe' = Pipe
  BY <1>2, PipeIs
<1> QED BY <1>1, <1>3 DEF RelayStep

\* A step that leaves the three places alone.
LEMMA PlacesKept ==
  ASSUME UpInv, up' = up, upOut' = upOut, nativeQ' = nativeQ, devQ' = devQ, DOMAIN mt' = DOMAIN mt,
         mt.pc = "ToCloud" \/ mt'.pc = "ToCloud" => mt' = mt
  PROVE  UpInv' /\ RelayStep
<1>1. Inside' = Inside
  BY DEF Inside
<1>2. NumbersInv' /\ RelayStep
  BY <1>1, NothingMoves
<1>3. QueuesInv'
  BY DEF UpInv, QueuesInv
<1>4. OrderInv'
  BY DEF UpInv, OrderInv, Sorted
<1> QED BY <1>2, <1>3, <1>4 DEF UpInv

\* The transfer thread takes the oldest message of dev_msg_queue.
LEMMA TakeStep ==
  ASSUME UpInv, HandleDev, up' = up
  PROVE  UpInv' /\ RelayStep
<1>1. CASE devQ = <<>>
  <2>1. mt' = [mt EXCEPT !.pc = "Cloud"] /\ mt.pc = "Dev" /\ nativeQ' = nativeQ /\ devQ' = devQ /\ upOut' = upOut
    BY <1>1 DEF HandleDev
  <2> QED BY <2>1, PlacesKept DEF UpInv, QueuesInv
<1>2. CASE devQ # <<>>
  <2>1. /\ mt' = [mt EXCEPT !.pc = "ToCloud", !.msg = Head(devQ)] /\ mt.pc = "Dev"
        /\ nativeQ' = nativeQ /\ devQ' = Tail(devQ) /\ upOut' = upOut
    BY <1>2 DEF HandleDev, POP_FROMQUEUE
  <2>2. DOMAIN mt' = DOMAIN mt /\ mt'.pc = "ToCloud" /\ mt'.msg = Head(devQ)
    BY <2>1 DEF UpInv, QueuesInv
  <2>3. Head(devQ) \in Message /\ Tail(devQ) \in Seq(Message) /\ Range(devQ) = {Head(devQ)} \cup Range(Tail(devQ))
    BY <1>2, TailRange DEF UpInv, QueuesInv
  <2>4. Inside' = Inside
    BY <2>1, <2>2, <2>3 DEF Inside
  <2>5. NumbersInv' /\ RelayStep
    BY <2>1, <2>4, NothingMoves
  <2>6. QueuesInv'
    BY <2>1, <2>2, <2>3 DEF UpInv, QueuesInv
  <2>7. Sorted(Tail(devQ)) /\ \A b \in Range(Tail(devQ)) : Older(Head(devQ), b)
    BY <1>2, SortedTail DEF UpInv, QueuesInv, OrderInv
  <2>8. /\ Sorted(nativeQ) /\ \A a \in Range(nativeQ), b \in Range(devQ) : Older(a, b)
    BY DEF UpInv, OrderInv
  <2>9. OrderInv'
    BY <2>1, <2>2, <2>3, <2>7, <2>8 DEF OrderInv, Sorted
  <2> QED BY <2>5, <2>6, <2>9 DEF UpInv
<1> QED BY <1>1, <1>2

\* ... and hands it over, or drops it when no cloud program is registered.
LEMMA HandOverStep ==
  ASSUME UpInv, ds_send_msg_tocloud, up' = up
  PROVE  UpInv' /\ RelayStep
<1>1. /\ mt.pc = "ToCloud" /\ mt' = [mt EXCEPT !.pc = "Dev", !.msg = NoMsg]
      /\ devQ' = devQ /\ upOut' = upOut
      /\ nativeQ' = IF dsList = <<>> THEN nativeQ ELSE Append(nativeQ, mt.msg)
  BY DEF ds_send_msg_tocloud, PUSH_ENQUEUE, list_add_tail
<1>2. DOMAIN mt' = DOMAIN mt /\ mt'.pc = "Dev"
  BY <1>1 DEF UpInv, QueuesInv
<1>3. mt.msg \in Message /\ nativeQ \in Seq(Message)
  BY <1>1 DEF UpInv, QueuesInv
<1>4. CASE dsList # <<>>
  <2>1. nativeQ' \in Seq(Message) /\ Range(nativeQ') = Range(nativeQ) \cup {mt.msg}
    BY <1>1, <1>3, <1>4, AppendRange
  <2>2. Inside' = Inside
    BY <1>1, <1>2, <2>1 DEF Inside
  <2>3. NumbersInv' /\ RelayStep
    BY <1>1, <2>2, NothingMoves
  <2>4. QueuesInv'
    BY <1>1, <1>2, <2>1 DEF UpInv, QueuesInv
  <2>5. Sorted(nativeQ')
    BY <1>1, <1>3, <1>4, SortedAppend DEF UpInv, OrderInv
  <2>6. /\ Sorted(devQ) /\ \A a \in Range(nativeQ), b \in Range(devQ) : Older(a, b)
        /\ \A b \in Range(devQ) : Older(mt.msg, b)
    BY <1>1 DEF UpInv, OrderInv
  <2>7. OrderInv'
    BY <1>1, <1>2, <2>1, <2>5, <2>6 DEF OrderInv, Sorted
  <2> QED BY <2>3, <2>4, <2>7 DEF UpInv
<1>5. CASE dsList = <<>>
  <2>1. nativeQ' = nativeQ
    BY <1>1, <1>5
  <2>2. QueuesInv' /\ OrderInv'
    BY <1>1, <1>2, <2>1 DEF UpInv, QueuesInv, OrderInv, Sorted
  <2>3. Inside = Inside' \cup {mt.msg}
    BY <1>1, <1>2, <2>1 DEF Inside
  <2>4. CASE ~IsData(mt.msg)
    <3>1. \A m : IsData(m) => (m \in Inside' <=> m \in Inside)
      BY <2>3, <2>4
    <3> QED BY <1>1, <2>2, <3>1, NothingMoves DEF UpInv
  <2>5. CASE IsData(mt.msg)
    <3>1. mt.msg.dst_mac \in Dev /\ mt.msg.n \in Nat
      BY <2>3, <2>5 DEF UpInv, QueuesInv, NumbersInv
    <3>2. \A m \in Inside' : IsData(m) /\ m.dst_mac = mt.msg.dst_mac => m.n # mt.msg.n
      <4>1. Inside' = Range(nativeQ) \cup Range(devQ)
        BY <1>1, <1>2, <2>1 DEF Inside
      <4>2. \A m \in Inside' : Older(m, mt.msg) \/ Older(mt.msg, m)
        BY <1>1, <4>1 DEF UpInv, OrderInv
      <4>3. \A m \in Inside : IsData(m) => m.n \in Nat
        BY DEF UpInv, QueuesInv, NumbersInv
      <4> QED BY <2>3, <2>5, <3>1, <4>2, <4>3 DEF Older
    <3>3. PICK e \in Dev : e = mt.msg.dst_mac
      BY <3>1
    <3>4. PICK n \in Nat : n = mt.msg.n
      BY <3>1
    <3>5. /\ Numbers(Inside', e) = Numbers(Inside, e) \ {n} /\ n \in Numbers(Inside, e)
          /\ \A d \in Dev : d # e => Numbers(Inside', d) = Numbers(Inside, d)
      <4>1. PICK x : x = mt.msg
        OBVIOUS
      <4>2. PICK M : M = Inside'
        OBVIOUS
      <4>3. IsData(x) /\ \A m \in M : IsData(m) /\ m.dst_mac = x.dst_mac => m.n # x.n
        BY <2>5, <3>2, <4>1, <4>2
      <4>4. /\ Numbers(M \cup {x}, x.dst_mac) = Numbers(M, x.dst_mac) \cup {x.n}
            /\ \A d : d # x.dst_mac => Numbers(M \cup {x}, d) = Numbers(M, d)
            /\ Numbers(M, x.dst_mac) = Numbers(M \cup {x}, x.dst_mac) \ {x.n}
        BY <4>3, NumbersMore
      <4> QED BY <2>3, <3>3, <3>4, <4>1, <4>2, <4>4
    <3>6. Pipe' = [Pipe EXCEPT ![e] = @ \ {n}] /\ n \in Pipe[e]
      BY <3>5, PipeIs
    <3>7. Up!Lose(e)
      BY <1>1, <3>6 DEF Up!Lose, Pipe
    <3>8. NumbersInv'
      BY <2>3 DEF UpInv, NumbersInv
    <3> QED BY <2>2, <3>7, <3>8 DEF UpInv, RelayStep, Up!Next
  <2> QED BY <2>4, <2>5
<1> QED BY <1>4, <1>5

\* An answer to a cloud program joins the queue.
LEMMA AnswerStep ==
  ASSUME UpInv, NEW x \in Message, ~IsData(x), nativeQ' = Append(nativeQ, x),
         up' = up, UNCHANGED <<upOut, devQ, mt>>
  PROVE  UpInv' /\ RelayStep
<1>1. nativeQ \in Seq(Message)
  BY DEF UpInv, QueuesInv
<1>2. nativeQ' \in Seq(Message) /\ Range(nativeQ') = Range(nativeQ) \cup {x}
  BY <1>1, AppendRange
<1>3. \A m : IsData(m) => (m \in Inside' <=> m \in Inside)
  BY <1>2 DEF Inside
<1>4. NumbersInv' /\ RelayStep
  BY <1>3, NothingMoves
<1>5. QueuesInv'
  BY <1>2 DEF UpInv, QueuesInv
<1>6. \A a : Older(a, x) /\ Older(x, a)
  BY DEF Older
<1>7. Sorted(nativeQ')
  BY <1>1, <1>6, SortedAppend DEF UpInv, OrderInv
<1>8. /\ Sorted(devQ) /\ \A a \in Range(nativeQ), b \in Range(devQ) : Older(a, b)
      /\ mt.pc = "ToCloud" => /\ \A a \in Range(nativeQ) : Older(a, mt.msg)
                              /\ \A b \in Range(devQ) : Older(mt.msg, b)
  BY DEF UpInv, OrderInv
<1>9. OrderInv'
  BY <1>2, <1>6, <1>7, <1>8 DEF OrderInv, Sorted
<1> QED BY <1>4, <1>5, <1>9 DEF UpInv

\* The oldest message goes to the sockets.
LEMMA SendStep ==
  ASSUME UpInv, SendNative, up' = up
  PROVE  UpInv' /\ RelayStep
<1>1. /\ nativeQ # <<>> /\ nativeQ' = Tail(nativeQ) /\ UNCHANGED <<devQ, mt>>
      /\ upOut' = IF IsData(Head(nativeQ)) THEN [upOut EXCEPT ![Head(nativeQ).dst_mac] = Head(nativeQ).n] ELSE upOut
  BY DEF SendNative, POP_FROMQUEUE, IsData
<1>2. nativeQ \in Seq(Message)
  BY DEF UpInv, QueuesInv
<1>3. PICK x \in Message : x = Head(nativeQ)
  BY <1>1, <1>2, TailRange
<1>4. nativeQ' \in Seq(Message) /\ Range(nativeQ) = {x} \cup Range(nativeQ')
  BY <1>1, <1>2, <1>3, TailRange
<1>5. Sorted(nativeQ') /\ \A b \in Range(nativeQ') : Older(x, b)
  BY <1>1, <1>2, <1>3, SortedTail DEF UpInv, OrderInv
<1>6. QueuesInv'
  BY <1>1, <1>4 DEF UpInv, QueuesInv
<1>7. /\ Sorted(devQ) /\ \A a \in Range(nativeQ), b \in Range(devQ) : Older(a, b)
      /\ mt.pc = "ToCloud" => /\ \A a \in Range(nativeQ) : Older(a, mt.msg)
                              /\ \A b \in Range(devQ) : Older(mt.msg, b)
  BY DEF UpInv, OrderInv
<1>8. OrderInv'
  BY <1>1, <1>4, <1>5, <1>7 DEF OrderInv, Sorted
<1>9. Inside = Inside' \cup {x}
  BY <1>1, <1>4 DEF Inside
<1>10. NumbersInv'
  BY <1>9 DEF UpInv, NumbersInv
<1>11. CASE ~IsData(x)
  <2>1. (\A m : IsData(m) => (m \in Inside' <=> m \in Inside)) /\ upOut' = upOut
    BY <1>1, <1>3, <1>9, <1>11
  <2> QED BY <1>6, <1>8, <2>1, NothingMoves DEF UpInv
<1>12. CASE IsData(x)
  <2>1. PICK e \in Dev : e = x.dst_mac
    BY <1>9, <1>12 DEF UpInv, NumbersInv
  <2>2. \A m \in Inside : IsData(m) => m.n \in Nat
    BY DEF UpInv, QueuesInv, NumbersInv
  <2>3. PICK n \in Nat : n = x.n
    BY <1>9, <1>12, <2>2
  <2>4. \A m \in Inside' : Older(x, m)
    BY <1>1, <1>4, <1>5, <1>7 DEF Inside
  <2>5. PICK M : M = Inside'
    OBVIOUS
  <2>6. \A m \in M : IsData(m) /\ m.dst_mac = e => m.n \in Nat /\ n < m.n
    BY <1>9, <1>12, <2>1, <2>2, <2>3, <2>4, <2>5 DEF Older
  <2>7. \A m \in M : IsData(m) /\ m.dst_mac = x.dst_mac => m.n # x.n
    BY <2>1, <2>3, <2>6
  <2>8. /\ Numbers(M \cup {x}, x.dst_mac) = Numbers(M, x.dst_mac) \cup {x.n}
        /\ \A d : d # x.dst_mac => Numbers(M \cup {x}, d) = Numbers(M, d)
        /\ Numbers(M, x.dst_mac) = Numbers(M \cup {x}, x.dst_mac) \ {x.n}
    BY <1>12, <2>7, NumbersMore
  <2>9. /\ Numbers(Inside, e) = Numbers(Inside', e) \cup {n}
        /\ Numbers(Inside', e) = Numbers(Inside, e) \ {n}
        /\ \A d \in Dev : d # e => Numbers(Inside', d) = Numbers(Inside, d)
    BY <1>9, <2>1, <2>3, <2>5, <2>8
  <2>10. \A k \in Numbers(Inside', e) : n <= k
    BY <2>5, <2>6 DEF Numbers
  <2>11. Pipe' = [Pipe EXCEPT ![e] = @ \ {n}] /\ n \in Pipe[e] /\ \A k \in Pipe[e] : n <= k
    <3>1. Pipe[e] = Numbers(Inside', e) \cup {n}
      BY <2>9, PipeIs
    <3>2. Pipe' = [Pipe EXCEPT ![e] = @ \ {n}]
      BY <2>9, PipeIs
    <3>3. n <= n
      OBVIOUS
    <3> QED BY <2>10, <3>1, <3>2, <3>3
  <2>12. upOut' = [upOut EXCEPT ![e] = n]
    BY <1>1, <1>3, <1>12, <2>1, <2>3
  <2>13. Up!Deliver(e)
    BY <2>11, <2>12 DEF Up!Deliver, Pipe
  <2> QED BY <1>6, <1>8, <1>10, <2>13 DEF UpInv, RelayStep, Up!Next
<1> QED BY <1>11, <1>12

\* A device's data joins dev_msg_queue.
LEMMA DataStep ==
  ASSUME UpInv, NEW f \in Fd, NEW d \in Dev, __device_msg(f, d)
  PROVE  UpInv' /\ RelayStep
<1>1. /\ up' = [up EXCEPT ![d] = @ + 1] /\ devQ' = Append(devQ, Msg("DEV_DATA_UP", d, up[d] + 1))
      /\ UNCHANGED <<nativeQ, mt, upOut>>
  BY DEF __device_msg, hw_send_msg_tobuf, push_dev_msg, PUSH_ENQUEUE, list_add_tail
<1>2. up[d] \in Nat /\ devQ \in Seq(Message) /\ up' \in [Dev -> Nat]
  BY <1>1 DEF UpInv, QueuesInv
<1>3. PICK n \in Nat : n = up[d] + 1
  BY <1>2
<1>4. PICK x \in Message : x = Msg("DEV_DATA_UP", d, n)
  BY DEF Msg, Message
<1>5. IsData(x) /\ x.dst_mac = d /\ x.n = n /\ devQ' = Append(devQ, x)
  BY <1>1, <1>3, <1>4 DEF Msg, IsData
<1>6. devQ' \in Seq(Message) /\ Range(devQ') = Range(devQ) \cup {x}
  BY <1>2, <1>5, AppendRange
<1>7. QueuesInv'
  BY <1>1, <1>2, <1>6 DEF UpInv, QueuesInv
<1>8. Inside' = Inside \cup {x}
  BY <1>1, <1>6 DEF Inside
<1>9. \A m \in Inside : IsData(m) => m.dst_mac \in Dev /\ m.n \in 1..up[m.dst_mac] /\ up[m.dst_mac] \in Nat
  BY DEF UpInv, QueuesInv, NumbersInv
<1>10. \A m \in Inside : Older(m, x)
  BY <1>3, <1>5, <1>9 DEF Older
<1>11. NumbersInv'
  <2>1. \A e \in Dev : up[e] \in Nat /\ up'[e] \in Nat /\ up[e] <= up'[e]
    BY <1>1, <1>2, <1>7 DEF UpInv, QueuesInv
  <2>2. n \in 1..up'[d]
    BY <1>1, <1>2, <1>3 DEF UpInv, QueuesInv
  <2>3. \A m \in Inside : IsData(m) => m.n \in 1..up'[m.dst_mac]
    BY <1>9, <2>1
  <2> QED BY <1>5, <1>8, <1>9, <2>2, <2>3 DEF NumbersInv
<1>12. Sorted(devQ')
  <2>1. \A a \in Range(devQ) : Older(a, x)
    BY <1>10 DEF Inside
  <2> QED BY <1>2, <1>5, <2>1, SortedAppend DEF UpInv, OrderInv
<1>13. OrderInv'
  <2>1. /\ Sorted(nativeQ) /\ \A a \in Range(nativeQ), b \in Range(devQ) : Older(a, b)
        /\ mt.pc = "ToCloud" => /\ \A a \in Range(nativeQ) : Older(a, mt.msg)
                                /\ \A b \in Range(devQ) : Older(mt.msg, b)
    BY DEF UpInv, OrderInv
  <2>2. (\A a \in Range(nativeQ) : Older(a, x)) /\ (mt.pc = "ToCloud" => Older(mt.msg, x))
    BY <1>10 DEF Inside
  <2> QED BY <1>1, <1>6, <1>12, <2>1, <2>2 DEF OrderInv, Sorted
<1>14. /\ Numbers(Inside', d) = Numbers(Inside, d) \cup {n}
       /\ \A e \in Dev : e # d => Numbers(Inside', e) = Numbers(Inside, e)
  <2>1. PICK M : M = Inside
    OBVIOUS
  <2>2. /\ Numbers(M \cup {x}, x.dst_mac) = Numbers(M, x.dst_mac) \cup {x.n}
        /\ \A e : e # x.dst_mac => Numbers(M \cup {x}, e) = Numbers(M, e)
    BY <1>5, NumbersMore
  <2> QED BY <1>5, <1>8, <2>1, <2>2
<1>15. Pipe' = [Pipe EXCEPT ![d] = @ \cup {n}]
  BY <1>14, PipeIs
<1>16. Up!Accept(d)
  BY <1>1, <1>3, <1>15 DEF Up!Accept, Pipe
<1> QED BY <1>7, <1>11, <1>13, <1>16 DEF UpInv, RelayStep, Up!Next

\* The message centre's own steps.
LEMMA CentreStep ==
  ASSUME UpInv, CentreThread \/ (CloudSide /\ UNCHANGED serverVars)
  PROVE  UpInv' /\ RelayStep
<1>a. DOMAIN mt = {"pc", "msg", "node"}
  BY DEF UpInv, QueuesInv
<1>1. CASE HandleThread /\ UNCHANGED serverVars
  <2> USE <1>1 DEF serverVars
  <2>1. CASE HandleDev
    BY <2>1, TakeStep
  <2>2. CASE ds_send_msg_tocloud
    BY <2>2, HandOverStep
  <2>3. CASE HandleCloud
    <3>1. /\ mt.pc = "Cloud" /\ UNCHANGED <<nativeQ, devQ, upOut>>
          /\ \/ mt' = [mt EXCEPT !.pc = "Dev"]
             \/ mt' = [mt EXCEPT !.pc = "ToClient", !.msg = Head(cloudQ)]
      BY <2>3 DEF HandleCloud
    <3>2. DOMAIN mt' = DOMAIN mt /\ mt'.pc # "ToCloud"
      BY <1>a, <3>1
    <3> QED BY <3>1, <3>2, PlacesKept
  <2>4. CASE hw_send_msg_toclient
    <3>1. /\ mt.pc = "ToClient" /\ UNCHANGED <<nativeQ, devQ, upOut>>
          /\ \/ mt' = [mt EXCEPT !.pc = "Find"]
             \/ mt' = [mt EXCEPT !.pc = "Cloud", !.msg = NoMsg]
      BY <2>4 DEF hw_send_msg_toclient
    <3>2. DOMAIN mt' = DOMAIN mt /\ mt'.pc # "ToCloud"
      BY <1>a, <3>1
    <3> QED BY <3>1, <3>2, PlacesKept
  <2> QED BY <2>1, <2>2, <2>3, <2>4 DEF HandleThread
<1>2. CASE FindTarget
  <2>1. /\ mt.pc = "Find" /\ UNCHANGED <<nativeQ, devQ, upOut, up>>
        /\ \E n : mt' = [mt EXCEPT !.pc = "Push", !.node = n]
    BY <1>2 DEF FindTarget, serverVars
  <2>2. DOMAIN mt' = DOMAIN mt /\ mt'.pc # "ToCloud"
    BY <1>a, <2>1
  <2> QED BY <2>1, <2>2, PlacesKept
<1>3. CASE __push_msg_to_dev
  <2>1. /\ mt.pc = "Push" /\ UNCHANGED <<nativeQ, devQ, upOut, up>>
        /\ mt' = [pc |-> "Cloud", msg |-> NoMsg, node |-> 0]
    BY <1>3 DEF __push_msg_to_dev
  <2>2. DOMAIN mt' = DOMAIN mt /\ mt'.pc # "ToCloud"
    BY <1>a, <2>1
  <2> QED BY <2>1, <2>2, PlacesKept
<1>4. CASE CloudSide /\ UNCHANGED serverVars
  <2> USE <1>4 DEF serverVars
  <2>1. CASE SendNative
    BY <2>1, SendStep
  <2>2. ASSUME NEW c \in Cloud, __cloud_login(c) \/ __cloud_logout(c) PROVE UpInv' /\ RelayStep
    <3>1. \E type \in {"DEV_ONLINE", "DEV_OFFLINE"} :
             nativeQ' = Append(nativeQ, Msg(type, c, 0)) /\ UNCHANGED <<upOut, devQ, mt>>
      BY <2>2 DEF __cloud_login, __cloud_logout, PUSH_ENQUEUE, list_add_tail
    <3>2. \A type \in {"DEV_ONLINE", "DEV_OFFLINE"} : Msg(type, c, 0) \in Message /\ ~IsData(Msg(type, c, 0))
      BY DEF Msg, Message, IsData
    <3> QED BY <3>1, <3>2, AnswerStep
  <2>3. ASSUME NEW c \in Cloud, CloudConnect(c) \/ CloudClose(c) \/ \E d \in Dev : __cloud_msg(c, d)
        PROVE  UpInv' /\ RelayStep
    <3>1. UNCHANGED <<nativeQ, devQ, upOut, mt>>
      BY <2>3 DEF CloudConnect, CloudClose, __cloud_msg
    <3> QED BY <3>1, PlacesKept
  <2> QED BY <2>1, <2>2, <2>3 DEF CloudSide
<1> QED BY <1>1, <1>2, <1>3, <1>4 DEF CentreThread

LEMMA UpStep ==
  ASSUME UpInv, [Next]_vars
  PROVE  UpInv' /\ RelayStep
<1>1. CASE CentreThread \/ (CloudSide /\ UNCHANGED serverVars)
  BY <1>1, CentreStep
<1>2. ASSUME NEW f \in Fd, NEW d \in Dev, __device_msg(f, d) PROVE UpInv' /\ RelayStep
  BY <1>2, DataStep
<1>3. CASE UNCHANGED <<nativeQ, devQ, mt, up, upOut>>
  BY <1>3, PlacesKept
<1>4. CASE __check_heartbeat
  BY <1>3, <1>4 DEF __check_heartbeat, centreVars
<1>5. ASSUME NEW f \in Fd, ServerStep(f) PROVE UpInv' /\ RelayStep
  BY <1>3, <1>5 DEF ServerStep, CREATE_QUEUE, LoginAck, hw_register_service, hw_unregister_service, FindOwn,
                    __send_to_dev, centreVars
<1>6. ASSUME NEW f \in Fd, Accept(f) \/ FirstTimeout(f) \/ FirstRefused(f) \/ ClientGone(f)
      PROVE  UpInv' /\ RelayStep
  BY <1>3, <1>6 DEF Accept, FirstTimeout, FirstRefused, ClientGone, centreVars
<1>7. ASSUME NEW f \in Fd, NEW d \in Dev, LoginAdd(f, d) \/ LogoutAck(f, d) \/ __device_heartbeat(f, d)
      PROVE  UpInv' /\ RelayStep
  BY <1>3, <1>7 DEF LoginAdd, LogoutAck, __device_heartbeat, centreVars
<1>8. CASE UNCHANGED vars
  BY <1>3, <1>8 DEF vars, centreVars, serverVars
<1> QED BY <1>1, <1>2, <1>4, <1>5, <1>6, <1>7, <1>8 DEF Next, Speak

LEMMA UpStart == Init => UpInv /\ Up!Init
<1> SUFFICES ASSUME Init PROVE UpInv /\ Up!Init
  OBVIOUS
<1>1. /\ nativeQ = <<>> /\ devQ = <<>> /\ mt = [pc |-> "Dev", msg |-> NoMsg, node |-> 0]
      /\ up = [d \in Dev |-> 0] /\ upOut = [d \in Dev |-> 0]
  BY DEF Init, CentreInit
<1>2. Inside = {}
  BY <1>1 DEF Inside, Range
<1>3. QueuesInv
  BY <1>1 DEF QueuesInv
<1>4. NumbersInv /\ OrderInv
  BY <1>1, <1>2 DEF NumbersInv, OrderInv, Sorted, Range
<1>5. \A d \in Dev : UpPipe(d) = {}
  BY <1>2 DEF UpPipe
<1> QED BY <1>1, <1>3, <1>4, <1>5 DEF UpInv, Up!Init

\* The way up is a relay (LossyFifo): whatever connections come and go, registrants appear and leave, and
\* threads interleave, the data of a device comes out in the order it was sent, and none of it twice
\* (msg_transfer.c, ikcc_native_socket.c).
THEOREM WayUpIsARelay == Spec => RelaysUp
<1>1. UpInv /\ [Next]_vars => UpInv' /\ [Up!Next]_<<up, [d \in Dev |-> UpPipe(d)], upOut>>
  BY UpStep DEF RelayStep, Pipe
<1> QED BY <1>1, UpStart, PTL DEF Spec, RelaysUp, Up!Spec

-----------------------------------------------------------------------------
(* The way down.                                                           *)

Node == [mac : Dev \cup {"freed"}, fd : Fd \cup {"freed"}, hb : Nat, online : BOOLEAN, made : BOOLEAN,
         queue : Seq(Message)]
Pcs == {"free", "first", "run", "dead", "Create", "Ack", "Register", "Unregister", "Pop"}
Threads == [pc : Pcs, mac : Dev \cup {"none"}, node : Nat, boot : BOOLEAN]

InMap == Range(map)

\* A device has one node at most, whatever it replaces.
MapInv ==
  /\ heap \in Seq(Node) /\ map \in Seq(Nat)
  /\ IsInjective(map) /\ InMap \subseteq 1..Len(heap)
  /\ \A i \in InMap : heap[i].mac \in Dev
  /\ \A i, j \in InMap : heap[i].mac = heap[j].mac => i = j

\* A pointer that a lookup returned points to what was looked for, if it is still good.
PointerInv ==
  /\ \A f \in Fd : At(f, "Pop") => /\ th[f].node \in 1..Len(heap)
                                   /\ th[f].node \in InMap => heap[th[f].node].fd = f
  /\ mt.pc = "Push" => /\ mt.node \in 0..Len(heap)
                       /\ mt.node \in InMap => heap[mt.node].mac = mt.msg.dst_mac

ThreadInv ==
  /\ th \in [Fd -> Threads] /\ DOMAIN mt = {"pc", "msg", "node"}
  /\ \A f \in Fd : th[f].pc \in {"Create", "Ack", "Register", "Unregister"} => th[f].mac \in Dev

\* The transfer thread has a message of the cloud.
Handled == mt.pc \in {"ToClient", "Find", "Push"}

DownTypes ==
  /\ cloudQ \in Seq(Message) /\ (Handled => mt.msg \in Message)
  /\ down \in Nat /\ downOut \in [Dev -> Nat]

\* From the end of clound_msg_queue over the transfer thread to the head of a node's queue the messages
\* for a device get older, and a node's queue holds its own device's.
DownOrder ==
  /\ Sorted(cloudQ) /\ \A i \in InMap : Sorted(heap[i].queue)
  /\ Handled => \A b \in Range(cloudQ) : Older(mt.msg, b)
  /\ \A i \in InMap : \A a \in Range(heap[i].queue) :
       /\ IsData(a) => a.dst_mac = heap[i].mac
       /\ Handled => Older(a, mt.msg)
       /\ \A b \in Range(cloudQ) : Older(a, b)

\* What is on the way is newer than what has come out: out[d] for device d, of top messages in all.
New(m, out, top) == IsData(m) => m.dst_mac \in Dev /\ m.n \in out[m.dst_mac] + 1..top
DownNumbers ==
  /\ \A b \in Range(cloudQ) : New(b, downOut, down)
  /\ Handled => New(mt.msg, downOut, down)
  /\ \A i \in InMap : \A a \in Range(heap[i].queue) : New(a, downOut, down)
  /\ \A d \in Dev : downOut[d] <= down

DownInv == MapInv /\ ThreadInv /\ PointerInv /\ DownTypes /\ DownOrder /\ DownNumbers

\* A set of numbers that is not empty has a least element, and a greatest when it is bounded.
LEMMA LeastNatural ==
  ASSUME NEW S \in SUBSET Nat, S # {}
  PROVE  \E x \in S : \A y \in S : x <= y
<1> DEFINE Less == OpToRel(<, Nat)
<1>1. IsWellFoundedOn(Less, Nat)
  BY NatLessThanWellFounded
<1>2. \A x \in Nat, y \in Nat : y < x => <<y, x>> \in Less
  BY DEF OpToRel
<1> HIDE DEF Less
<1>3. PICK x \in S : \A y \in S : ~(<<y, x>> \in Less)
  BY <1>1, WFMin
<1>4. ASSUME NEW y \in S PROVE x <= y
  <2>1. x \in Nat /\ y \in Nat /\ ~(y < x)
    BY <1>2, <1>3
  <2> QED BY <2>1
<1> QED BY <1>4

LEMMA LeastAndGreatest ==
  ASSUME NEW k \in Nat, NEW S, S \subseteq 1..k, S # {}
  PROVE  Min(S) \in S /\ Max(S) \in S
<1>1. Min(S) \in S
  <2>1. S \in SUBSET Nat
    OBVIOUS
  <2>2. \E x \in S : \A y \in S : x <= y
    BY <2>1, LeastNatural
  <2> QED BY <2>2 DEF Min
<1>2. Max(S) \in S
  <2> DEFINE T == {k - x : x \in S}
  <2>1. T \in SUBSET Nat
    <3>1. \A x \in S : k - x \in Nat
      OBVIOUS
    <3> QED BY <3>1
  <2>2. T # {}
    OBVIOUS
  <2>3. \A y \in S : k - y \in T
    OBVIOUS
  <2>4. \A t \in T : \E x \in S : t = k - x
    OBVIOUS
  <2> HIDE DEF T
  <2>5. PICK t \in T : \A u \in T : t <= u
    BY <2>1, <2>2, LeastNatural
  <2>6. PICK x \in S : t = k - x
    BY <2>4
  <2>7. ASSUME NEW y \in S PROVE x >= y
    <3>1. k - x <= k - y
      BY <2>3, <2>5, <2>6
    <3>2. x \in Int /\ y \in Int /\ k \in Int
      OBVIOUS
    <3> QED BY <3>1, <3>2
  <2> QED BY <2>7 DEF Max
<1> QED BY <1>1, <1>2

\* A lookup finds a node that is in the map and is the one looked for, or none.
LEMMA FoundByMac ==
  ASSUME MapInv, NEW d
  PROVE  /\ find_device_by_mac(d) \in 0..Len(heap)
         /\ find_device_by_mac(d) # 0 => find_device_by_mac(d) \in InMap /\ heap[find_device_by_mac(d)].mac = d
         /\ \A i \in InMap : heap[i].mac = d => find_device_by_mac(d) = i
<1> DEFINE found == {i \in DOMAIN map : heap[map[i]].mac = d}
<1>1. find_device_by_mac(d) = IF found = {} THEN 0 ELSE map[Max(found)]
  BY DEF find_device_by_mac
<1>2. DOMAIN map = 1..Len(map) /\ Len(map) \in Nat /\ Len(heap) \in Nat
  BY DEF MapInv
<1>3. found # {} => Max(found) \in found
  BY <1>2, LeastAndGreatest
<1>4. \A i \in DOMAIN map : map[i] \in InMap
  BY DEF InMap, Range
<1>5. \A i \in InMap : i \in 1..Len(heap)
  BY DEF MapInv
<1>6. found # {} => map[Max(found)] \in InMap /\ heap[map[Max(found)]].mac = d
  BY <1>3, <1>4
<1>7. ASSUME NEW i \in InMap, heap[i].mac = d PROVE find_device_by_mac(d) = i
  <2>1. found # {}
    BY <1>7 DEF InMap, Range
  <2>2. map[Max(found)] = i
    BY <1>6, <1>7, <2>1 DEF MapInv
  <2> QED BY <1>1, <2>1, <2>2
<1> HIDE DEF found
<1> QED BY <1>1, <1>2, <1>5, <1>6, <1>7

LEMMA FoundByFd ==
  ASSUME MapInv, NEW f
  PROVE  /\ find_device_by_fd(f) \in 0..Len(heap)
         /\ find_device_by_fd(f) # 0 => find_device_by_fd(f) \in InMap /\ heap[find_device_by_fd(f)].fd = f
<1> DEFINE found == {i \in DOMAIN map : heap[map[i]].fd = f}
<1>1. find_device_by_fd(f) = IF found = {} THEN 0 ELSE map[Max(found)]
  BY DEF find_device_by_fd
<1>2. DOMAIN map = 1..Len(map) /\ Len(map) \in Nat /\ Len(heap) \in Nat
  BY DEF MapInv
<1>3. found # {} => Max(found) \in found
  BY <1>2, LeastAndGreatest
<1>4. \A i \in DOMAIN map : map[i] \in InMap
  BY DEF InMap, Range
<1>5. \A i \in InMap : i \in 1..Len(heap)
  BY DEF MapInv
<1>6. found # {} => map[Max(found)] \in InMap /\ heap[map[Max(found)]].fd = f
  BY <1>3, <1>4
<1> HIDE DEF found
<1> QED BY <1>1, <1>2, <1>5, <1>6
-----------------------------------------------------------------------------
(* What a step does to the nodes.                                          *)

\* A heap g that differs from h in no node's device and descriptor.
SamePlaces(g, h) ==
  /\ g \in Seq(Node) /\ Len(g) = Len(h)
  /\ \A i \in 1..Len(h) : g[i].mac = h[i].mac /\ g[i].fd = h[i].fd

LEMMA HeapIs ==
  ASSUME NEW h \in Seq(Node), NEW g, DOMAIN g = 1..Len(h), g = [i \in DOMAIN g |-> g[i]],
         \A i \in 1..Len(h) : g[i] \in Node
  PROVE  g \in Seq(Node) /\ Len(g) = Len(h)
<1>1. Len(h) \in Nat
  OBVIOUS
<1>2. g \in [1..Len(h) -> Node]
  OBVIOUS
<1> QED BY <1>1, <1>2

LEMMA NodeWithQueue ==
  ASSUME NEW x \in Node, NEW q \in Seq(Message)
  PROVE  LET y == [x EXCEPT !.queue = q] IN
           y \in Node /\ y.mac = x.mac /\ y.fd = x.fd /\ y.queue = q
<1> DEFINE y == [x EXCEPT !.queue = q]
<1>1. y \in Node
  BY DEF Node
<1>2. y.mac = x.mac /\ y.fd = x.fd /\ y.queue = q
  BY DEF Node
<1> QED BY <1>1, <1>2

LEMMA HeapWithQueue ==
  ASSUME NEW h \in Seq(Node), NEW n \in 1..Len(h), NEW q \in Seq(Message)
  PROVE  /\ SamePlaces([h EXCEPT ![n].queue = q], h)
         /\ [h EXCEPT ![n].queue = q][n].queue = q
         /\ \A i \in 1..Len(h) : i # n => [h EXCEPT ![n].queue = q][i] = h[i]
<1> DEFINE g == [h EXCEPT ![n].queue = q]
<1>1. DOMAIN h = 1..Len(h) /\ h[n] \in Node
  OBVIOUS
<1>2. /\ DOMAIN g = 1..Len(h) /\ g = [i \in DOMAIN g |-> g[i]]
      /\ g[n] = [h[n] EXCEPT !.queue = q] /\ \A i \in 1..Len(h) : i # n => g[i] = h[i]
  BY <1>1
<1> HIDE DEF g
<1>3. g[n] \in Node /\ g[n].mac = h[n].mac /\ g[n].fd = h[n].fd /\ g[n].queue = q
  BY <1>1, <1>2, NodeWithQueue
<1>4. \A i \in 1..Len(h) : g[i] \in Node
  BY <1>2, <1>3
<1>5. g \in Seq(Node) /\ Len(g) = Len(h)
  BY <1>2, <1>4, HeapIs
<1>6. \A i \in 1..Len(h) : g[i].mac = h[i].mac /\ g[i].fd = h[i].fd
  BY <1>2, <1>3
<1>7. SamePlaces(g, h) /\ g[n].queue = q /\ \A i \in 1..Len(h) : i # n => g[i] = h[i]
  BY <1>2, <1>3, <1>5, <1>6 DEF SamePlaces
<1> QED BY <1>7 DEF g

Kept == SamePlaces(heap', heap) /\ map' = map

\* No data message joins a queue, and what joins does so behind.
Quiet ==
  \A i \in InMap' :
    /\ Sorted(heap'[i].queue)
    /\ \A a \in Range(heap'[i].queue) :
         IsData(a) => i \in InMap /\ a \in Range(heap[i].queue) /\ heap'[i].mac = heap[i].mac

LEMMA MapKept == MapInv /\ Kept => MapInv'
<1> SUFFICES ASSUME MapInv, Kept PROVE MapInv'
  OBVIOUS
<1>1. map' = map /\ InMap' = InMap
  BY DEF Kept, InMap
<1>2. heap' \in Seq(Node) /\ Len(heap') = Len(heap)
  BY DEF Kept, SamePlaces
<1>3. \A i \in InMap : heap'[i].mac = heap[i].mac
  BY DEF Kept, SamePlaces, MapInv
<1> QED BY <1>1, <1>2, <1>3 DEF MapInv, IsInjective

LEMMA PushKeeps ==
  ASSUME MapInv, NEW n \in 0..Len(heap), NEW m \in Message, PushTo(n, m), map' = map
  PROVE  /\ Kept
         /\ \A i \in InMap : \/ heap'[i].queue = heap[i].queue
                             \/ i = n /\ heap'[i].queue = Append(heap[i].queue, m)
<1>1. CASE Usable(n)
  <2>1. n \in InMap /\ n \in 1..Len(heap)
    BY <1>1 DEF Usable, InMap, MapInv
  <2>2. heap \in Seq(Node) /\ InMap \subseteq 1..Len(heap)
    BY DEF MapInv
  <2>3. PICK q : q = Append(heap[n].queue, m)
    OBVIOUS
  <2>4. heap[n] \in Node
    BY <2>1, <2>2
  <2>5. q \in Seq(Message)
    BY <2>3, <2>4 DEF Node
  <2>6. heap' = [heap EXCEPT ![n].queue = q]
    BY <1>1, <2>1, <2>3 DEF PushTo, PUSH_ENQUEUE, list_add_tail
  <2>7. /\ SamePlaces(heap', heap)
        /\ heap'[n].queue = q /\ \A i \in 1..Len(heap) : i # n => heap'[i] = heap[i]
    <3>1. PICK h \in Seq(Node) : h = heap
      BY <2>2
    <3>2. /\ SamePlaces([h EXCEPT ![n].queue = q], h)
          /\ [h EXCEPT ![n].queue = q][n].queue = q
          /\ \A i \in 1..Len(h) : i # n => [h EXCEPT ![n].queue = q][i] = h[i]
      BY <2>1, <2>5, <3>1, HeapWithQueue
    <3> QED BY <2>6, <3>1, <3>2
  <2> QED BY <2>2, <2>3, <2>7 DEF Kept
<1>2. CASE ~Usable(n)
  <2>1. heap' = heap
    BY <1>2 DEF PushTo
  <2> QED BY <2>1 DEF Kept, SamePlaces, MapInv
<1> QED BY <1>1, <1>2

\* A queue that stays as it is, becomes empty, or is joined by a message that is no data.
QuietQueue(q, p) ==
  q = p \/ q = <<>> \/ \E m \in Message : ~IsData(m) /\ q = Append(p, m)

LEMMA QuietQueues ==
  ASSUME DownInv, Kept, \A i \in InMap : QuietQueue(heap'[i].queue, heap[i].queue)
  PROVE  Quiet
<1>1. InMap' = InMap /\ \A i \in InMap : i \in 1..Len(heap) /\ heap'[i].mac = heap[i].mac
  BY DEF Kept, SamePlaces, InMap, DownInv, MapInv
<1>2. ASSUME NEW i \in InMap
      PROVE  /\ Sorted(heap'[i].queue)
             /\ \A a \in Range(heap'[i].queue) : IsData(a) => a \in Range(heap[i].queue)
  <2>1. heap[i] \in Node
    BY <1>1 DEF DownInv, MapInv
  <2>2. PICK p \in Seq(Message) : p = heap[i].queue
    BY <2>1 DEF Node
  <2>3. Sorted(p)
    BY <2>2 DEF DownInv, DownOrder
  <2>4. CASE heap'[i].queue = p
    BY <2>2, <2>3, <2>4
  <2>5. CASE heap'[i].queue = <<>>
    BY <2>5 DEF Sorted, Range
  <2>6. ASSUME NEW m \in Message, ~IsData(m), heap'[i].queue = Append(p, m)
        PROVE  /\ Sorted(heap'[i].queue)
               /\ \A a \in Range(heap'[i].queue) : IsData(a) => a \in Range(p)
    <3>1. Range(Append(p, m)) = Range(p) \cup {m}
      BY AppendRange
    <3>2. \A a \in Range(p) : Older(a, m)
      BY <2>6 DEF Older
    <3>3. Sorted(Append(p, m))
      BY <2>3, <3>2, SortedAppend
    <3> QED BY <2>6, <3>1, <3>3
  <2> QED BY <2>2, <2>4, <2>5, <2>6 DEF QuietQueue
<1> QED BY <1>1, <1>2 DEF Quiet

LEMMA PushIsQuiet ==
  ASSUME DownInv, NEW n \in 0..Len(heap), NEW m \in Message, ~IsData(m), PushTo(n, m), map' = map
  PROVE  Kept /\ Quiet
<1>1. /\ Kept
      /\ \A i \in InMap : \/ heap'[i].queue = heap[i].queue
                          \/ i = n /\ heap'[i].queue = Append(heap[i].queue, m)
  BY PushKeeps DEF DownInv
<1>2. \A i \in InMap : QuietQueue(heap'[i].queue, heap[i].queue)
  BY <1>1 DEF QuietQueue
<1> QED BY <1>1, <1>2, QuietQueues

\* The timer's check and the answers to it change no place and lose no message.
LEMMA CheckNode ==
  ASSUME NEW x \in Node, x.mac \in Dev
  PROVE  /\ Check(x) \in Node /\ Check(x).mac = x.mac /\ Check(x).fd = x.fd
         /\ QuietQueue(Check(x).queue, x.queue)
<1> DEFINE m == Msg("DEV_HEARTBEAT", x.mac, 0)
           q == IF (1 + x.hb) % Minute = 0 /\ x.made THEN PUSH_ENQUEUE(x.queue, m) ELSE x.queue
<1>1. m \in Message /\ ~IsData(m)
  BY DEF Msg, Message, IsData
<1>2. x.queue \in Seq(Message) /\ x.hb + 1 \in Nat
  BY DEF Node
<1>3. q \in Seq(Message) /\ QuietQueue(q, x.queue)
  BY <1>1, <1>2 DEF PUSH_ENQUEUE, list_add_tail, QuietQueue
<1>4. CASE ~x.online
  BY <1>4 DEF Check, QuietQueue
<1>5. CASE x.online
  <2>1. Check(x) = [x EXCEPT !.hb = @ + 1, !.online = x.hb + 1 <= 3 * Minute, !.queue = q]
    BY <1>5 DEF Check
  <2>2. (x.hb + 1 <= 3 * Minute) \in BOOLEAN
    OBVIOUS
  <2>3. PICK o \in BOOLEAN : o = (x.hb + 1 <= 3 * Minute)
    BY <2>2
  <2>4. PICK h \in Nat : h = x.hb + 1
    BY <1>2
  <2>5. Check(x) = [x EXCEPT !.hb = h, !.online = o, !.queue = q]
    BY <2>1, <2>3, <2>4
  <2> HIDE DEF q
  <2>6. Check(x) \in Node
    BY <1>3, <2>5 DEF Node
  <2>7. Check(x).mac = x.mac /\ Check(x).fd = x.fd /\ Check(x).queue = q
    BY <2>5 DEF Node
  <2> QED BY <1>3, <2>6, <2>7
<1> QED BY <1>4, <1>5

LEMMA CheckStep ==
  ASSUME DownInv, __check_heartbeat
  PROVE  Kept /\ Quiet
<1>1. heap \in Seq(Node) /\ \A i \in InMap : i \in 1..Len(heap) /\ heap[i] \in Node /\ heap[i].mac \in Dev
  BY DEF DownInv, MapInv
<1>2. /\ map' = map
      /\ heap' = [i \in DOMAIN heap |-> IF i \in InMap THEN Check(heap[i]) ELSE heap[i]]
  BY DEF __check_heartbeat, InMap
<1>3. /\ DOMAIN heap' = 1..Len(heap) /\ heap' = [i \in DOMAIN heap' |-> heap'[i]]
      /\ \A i \in 1..Len(heap) : heap'[i] = IF i \in InMap THEN Check(heap[i]) ELSE heap[i]
  BY <1>1, <1>2
<1>4. \A i \in InMap : /\ heap'[i] \in Node /\ heap'[i].mac = heap[i].mac /\ heap'[i].fd = heap[i].fd
                       /\ QuietQueue(heap'[i].queue, heap[i].queue)
  BY <1>1, <1>3, CheckNode
<1>5. \A i \in 1..Len(heap) : heap'[i] \in Node /\ heap'[i].mac = heap[i].mac /\ heap'[i].fd = heap[i].fd
  BY <1>1, <1>3, <1>4
<1>6. heap' \in Seq(Node) /\ Len(heap') = Len(heap)
  BY <1>1, <1>3, <1>5, HeapIs
<1>7. Kept
  BY <1>2, <1>5, <1>6 DEF Kept, SamePlaces
<1> QED BY <1>4, <1>7, QuietQueues

LEMMA ClearedNode ==
  ASSUME NEW x \in Node
  PROVE  LET y == [x EXCEPT !.hb = 0, !.online = TRUE]
         IN  y \in Node /\ y.mac = x.mac /\ y.fd = x.fd /\ y.queue = x.queue
BY DEF Node

LEMMA ClearStep ==
  ASSUME DownInv, NEW d \in Dev, __clear_heartbeat_count(d), map' = map
  PROVE  Kept /\ Quiet
<1> DEFINE Cleared(x) == [x EXCEPT !.hb = 0, !.online = TRUE]
<1>1. heap \in Seq(Node) /\ \A i \in InMap : i \in 1..Len(heap)
  BY DEF DownInv, MapInv
<1>2. heap' = [i \in DOMAIN heap |-> IF i \in InMap /\ heap[i].mac = d THEN Cleared(heap[i]) ELSE heap[i]]
  BY DEF __clear_heartbeat_count, InMap
<1>3. \A x \in Node : LET y == Cleared(x) IN y \in Node /\ y.mac = x.mac /\ y.fd = x.fd /\ y.queue = x.queue
  BY ClearedNode
<1> HIDE DEF Cleared
<1>4. /\ DOMAIN heap' = 1..Len(heap) /\ heap' = [i \in DOMAIN heap' |-> heap'[i]]
      /\ \A i \in 1..Len(heap) : heap'[i] = heap[i] \/ heap'[i] = Cleared(heap[i])
  BY <1>1, <1>2
<1>5. \A i \in 1..Len(heap) : /\ heap'[i] \in Node /\ heap'[i].mac = heap[i].mac
                              /\ heap'[i].fd = heap[i].fd /\ heap'[i].queue = heap[i].queue
  BY <1>1, <1>3, <1>4
<1>6. heap' \in Seq(Node) /\ Len(heap') = Len(heap)
  BY <1>1, <1>4, <1>5, HeapIs
<1>7. Kept
  BY <1>5, <1>6 DEF Kept, SamePlaces
<1>8. \A i \in InMap : QuietQueue(heap'[i].queue, heap[i].queue)
  BY <1>1, <1>5 DEF QuietQueue
<1> QED BY <1>7, <1>8, QuietQueues

LEMMA MadeNode ==
  ASSUME NEW x \in Node
  PROVE  LET y == [x EXCEPT !.made = TRUE]
         IN  y \in Node /\ y.mac = x.mac /\ y.fd = x.fd /\ y.queue = x.queue
BY DEF Node

\* CREATE_QUEUE empties the queue of the thread's device.
LEMMA CreateStep ==
  ASSUME DownInv, NEW f \in Fd, CREATE_QUEUE(f)
  PROVE  Kept /\ Quiet
<1>1. heap \in Seq(Node) /\ InMap \subseteq 1..Len(heap) /\ map' = map
  BY DEF DownInv, MapInv, CREATE_QUEUE
<1>2. PICK n : n = find_device_by_mac(th[f].mac)
  OBVIOUS
<1>3. n \in 0..Len(heap)
  BY <1>2, FoundByMac DEF DownInv
<1> DEFINE g == [heap EXCEPT ![n].queue = <<>>]
<1>4. heap' = [g EXCEPT ![n].made = TRUE]
  BY <1>2 DEF CREATE_QUEUE
<1>5. CASE n = 0
  <2>1. n \notin DOMAIN heap
    BY <1>1, <1>5
  <2>2. heap' = heap
    BY <1>1, <1>4, <2>1
  <2> QED BY <1>1, <2>2, QuietQueues DEF Kept, SamePlaces, QuietQueue
<1>6. CASE n \in 1..Len(heap)
  <2>a. <<>> \in Seq(Message)
    OBVIOUS
  <2>1. PICK q \in Seq(Message) : q = <<>>
    BY <2>a, Zenon
  <2>2. PICK h \in Seq(Node) : h = heap
    BY <1>1
  <2>3. /\ SamePlaces([h EXCEPT ![n].queue = q], h)
        /\ [h EXCEPT ![n].queue = q][n].queue = q
        /\ \A i \in 1..Len(h) : i # n => [h EXCEPT ![n].queue = q][i] = h[i]
    BY <1>6, <2>2, HeapWithQueue
  <2>4. SamePlaces(g, heap) /\ g[n].queue = <<>> /\ \A i \in 1..Len(heap) : i # n => g[i] = heap[i]
    BY <2>1, <2>2, <2>3
  <2> HIDE DEF g
  <2>5. g \in Seq(Node) /\ Len(g) = Len(heap) /\ g[n] \in Node /\ DOMAIN g = 1..Len(heap)
    BY <1>6, <2>4 DEF SamePlaces
  <2>6. /\ DOMAIN heap' = 1..Len(g) /\ heap' = [i \in DOMAIN heap' |-> heap'[i]]
        /\ heap'[n] = [g[n] EXCEPT !.made = TRUE] /\ \A i \in 1..Len(g) : i # n => heap'[i] = g[i]
    BY <1>4, <1>6, <2>5
  <2>7. heap'[n] \in Node /\ heap'[n].mac = g[n].mac /\ heap'[n].fd = g[n].fd /\ heap'[n].queue = g[n].queue
    BY <2>5, <2>6, MadeNode
  <2>8. \A i \in 1..Len(g) : heap'[i] \in Node
    BY <2>5, <2>6, <2>7
  <2>9. heap' \in Seq(Node) /\ Len(heap') = Len(g)
    BY <2>5, <2>6, <2>8, HeapIs
  <2>10. \A i \in 1..Len(heap) : heap'[i].mac = heap[i].mac /\ heap'[i].fd = heap[i].fd
    BY <2>4, <2>5, <2>6, <2>7 DEF SamePlaces
  <2>11. \A i \in 1..Len(heap) : heap'[i].queue = heap[i].queue \/ heap'[i].queue = <<>>
    BY <2>4, <2>5, <2>6, <2>7
  <2>12. Kept
    BY <1>1, <2>5, <2>9, <2>10 DEF Kept, SamePlaces
  <2>13. \A i \in InMap : QuietQueue(heap'[i].queue, heap[i].queue)
    BY <1>1, <2>11 DEF QuietQueue
  <2> QED BY <2>12, <2>13, QuietQueues
<1> QED BY <1>3, <1>5, <1>6

\* A node that is still in the map is the one it was.
OldNodes ==
  /\ Len(heap) <= Len(heap')
  /\ \A i \in 1..Len(heap) : i \in InMap' => i \in InMap /\ heap'[i].mac = heap[i].mac /\ heap'[i].fd = heap[i].fd

LEMMA KeptIsOld == MapInv /\ Kept => OldNodes
<1> SUFFICES ASSUME MapInv, Kept PROVE OldNodes
  OBVIOUS
<1>1. InMap' = InMap /\ Len(heap') = Len(heap) /\ Len(heap) \in Nat
  BY DEF Kept, InMap, SamePlaces, MapInv
<1> QED BY <1>1 DEF Kept, SamePlaces, OldNodes

LEMMA AddedNode ==
  ASSUME DownInv, NEW d \in Dev,
         heap' \in Seq(Node), Len(heap') = Len(heap) + 1, map' \in Seq(Nat), IsInjective(map'),
         NEW fresh \in Node, heap'[Len(heap) + 1] = fresh, fresh.mac = d, fresh.queue = <<>>,
         NEW old \in SUBSET InMap, InMap' = old \cup {Len(heap) + 1},
         \A i \in old : heap'[i] = heap[i] /\ heap[i].mac # d
  PROVE  MapInv' /\ OldNodes /\ Quiet
<1>1. /\ Len(heap) \in Nat /\ InMap \subseteq 1..Len(heap)
      /\ \A i \in InMap : heap[i].mac \in Dev
      /\ \A i, j \in InMap : heap[i].mac = heap[j].mac => i = j
  <2>1. MapInv
    BY DEF DownInv
  <2>2. Len(heap) \in Nat
    BY <2>1 DEF MapInv
  <2> QED BY <2>1, <2>2, Zenon DEF MapInv
<1> DEFINE new == Len(heap) + 1
<1>2. MapInv'
  <2>1. InMap' \subseteq 1..Len(heap')
    <3>1. PICK k \in Nat : k = Len(heap)
      BY <1>1, Zenon
    <3>2. 1..k \subseteq 1..k + 1 /\ k + 1 \in 1..k + 1
      OBVIOUS
    <3>3. InMap \subseteq 1..k /\ InMap' = old \cup {k + 1} /\ Len(heap') = k + 1
      BY <1>1, <3>1, Zenon
    <3> QED BY <3>2, <3>3, Zenon
  <2>2. \A i \in InMap' : i # new => i \in old /\ i \in InMap /\ heap'[i].mac = heap[i].mac /\ heap[i].mac # d
    OBVIOUS
  <2>3. \A i \in InMap' : heap'[i].mac \in Dev
    BY <1>1, <2>2
  <2>4. \A i, j \in InMap' : heap'[i].mac = heap'[j].mac => i = j
    BY <1>1, <2>2
  <2> QED BY <2>1, <2>3, <2>4 DEF MapInv
<1>3. OldNodes
  <2>1. \A i \in 1..Len(heap) : i \in InMap' => i \in old
    BY <1>1
  <2> QED BY <1>1, <2>1 DEF OldNodes
<1>4. ASSUME NEW i \in old
      PROVE  Sorted(heap'[i].queue) /\ heap'[i].queue = heap[i].queue /\ heap'[i].mac = heap[i].mac
  BY DEF DownInv, DownOrder
<1>5. Sorted(<<>>) /\ Range(<<>>) = {}
  BY DEF Sorted, Range
<1> QED BY <1>2, <1>3, <1>4, <1>5 DEF Quiet

\* A login adds a node, in the place of the one with the same device if there is one.
LEMMA AddStep ==
  ASSUME DownInv, NEW d \in Dev, NEW f \in Fd, add_device_to_list(d, f)
  PROVE  MapInv' /\ OldNodes /\ Quiet
<1> DEFINE new == Len(heap) + 1
           fresh == [mac |-> d, fd |-> f, hb |-> 0, online |-> TRUE, made |-> FALSE, queue |-> <<>>]
           same == {i \in DOMAIN map : heap[map[i]].mac = d}
<1>1. /\ heap \in Seq(Node) /\ map \in Seq(Nat) /\ IsInjective(map) /\ InMap \subseteq 1..Len(heap)
      /\ \A i \in InMap : heap[i].mac \in Dev
      /\ \A i, j \in InMap : heap[i].mac = heap[j].mac => i = j
      /\ DOMAIN map = 1..Len(map) /\ Len(map) \in Nat /\ Len(heap) \in Nat
  BY DEF DownInv, MapInv
<1>2. \A i \in DOMAIN map : map[i] \in InMap
  BY DEF InMap, Range
<1>3. fresh \in Node /\ Freed \in Node
  BY DEF Node, Freed
<1>4. fresh.mac = d /\ fresh.queue = <<>>
  OBVIOUS
<1>5. new \in Nat /\ new \notin InMap
  BY <1>1
<1> HIDE DEF fresh
<1>6. CASE same = {}
  <2>1. map' = Append(map, new) /\ heap' = Append(heap, fresh)
    BY <1>6 DEF add_device_to_list, fresh
  <2>2. /\ heap' \in Seq(Node) /\ Len(heap') = new /\ heap'[new] = fresh
        /\ \A i \in 1..Len(heap) : heap'[i] = heap[i]
    BY <1>1, <1>3, <2>1, AppendProperties
  <2>3. /\ map' \in Seq(Nat) /\ DOMAIN map' = 1..Len(map) + 1 /\ map'[Len(map) + 1] = new
        /\ \A i \in 1..Len(map) : map'[i] = map[i]
    BY <1>1, <1>5, <2>1, AppendProperties
  <2>4. InMap' = InMap \cup {new}
    BY <1>1, <1>5, <2>1, AppendRange DEF InMap
  <2>5. \A i \in InMap : heap[i].mac # d
    BY <1>6 DEF InMap, Range
  <2>6. IsInjective(map')
    <3>1. \A i \in 1..Len(map) : map'[i] \in InMap /\ map'[i] # new
      BY <1>1, <1>2, <1>5, <2>3
    <3>2. \A i, j \in 1..Len(map) : map'[i] = map'[j] => i = j
      BY <1>1, <2>3 DEF IsInjective
    <3>3. \A i \in DOMAIN map' : i \in 1..Len(map) \/ i = Len(map) + 1
      BY <1>1, <2>3
    <3> QED BY <2>3, <3>1, <3>2, <3>3 DEF IsInjective
  <2>7. PICK old \in SUBSET InMap : old = InMap
    OBVIOUS
  <2>8. \A i \in old : heap'[i] = heap[i] /\ heap[i].mac # d
    BY <1>1, <2>2, <2>5, <2>7
  <2> QED BY <1>3, <1>4, <2>2, <2>3, <2>4, <2>6, <2>7, <2>8, AddedNode, Zenon DEF new
<1>7. CASE same # {}
  <2> DEFINE k == Min(same)
             g == [heap EXCEPT ![map[k]] = Freed]
  <2>1. k \in same
    <3>1. same \subseteq 1..Len(map)
      BY <1>1
    <3> QED BY <1>1, <1>7, <3>1, LeastAndGreatest
  <2>2. map' = [map EXCEPT ![k] = new] /\ heap' = Append(g, fresh)
    BY <1>7 DEF add_device_to_list, fresh
  <2>3. k \in 1..Len(map) /\ map[k] \in InMap /\ heap[map[k]].mac = d
    BY <1>1, <1>2, <2>1
  <2> HIDE DEF k
  <2>4. g \in Seq(Node) /\ Len(g) = Len(heap) /\ \A i \in 1..Len(heap) : i # map[k] => g[i] = heap[i]
    BY <1>1, <1>3, <2>3
  <2> HIDE DEF g
  <2>5. /\ heap' \in Seq(Node) /\ Len(heap') = new /\ heap'[new] = fresh
        /\ \A i \in 1..Len(heap) : i # map[k] => heap'[i] = heap[i]
    BY <1>1, <1>3, <2>2, <2>4, AppendProperties
  <2>6. /\ map' \in Seq(Nat) /\ DOMAIN map' = 1..Len(map) /\ map'[k] = new
        /\ \A i \in 1..Len(map) : i # k => map'[i] = map[i]
    BY <1>1, <1>5, <2>2, <2>3
  <2>7. \A i \in 1..Len(map) : i # k => map[i] # map[k]
    BY <1>1, <2>3 DEF IsInjective
  <2>8. InMap' = (InMap \ {map[k]}) \cup {new}
    BY <1>1, <2>3, <2>6, <2>7 DEF InMap, Range
  <2>9. \A i \in InMap : i # map[k] => heap[i].mac # d
    BY <1>1, <2>3
  <2>10. IsInjective(map')
    <3>1. \A i \in 1..Len(map) : i # k => map'[i] = map[i] /\ map'[i] # new
      BY <1>1, <1>2, <1>5, <2>6
    <3>2. \A i, j \in 1..Len(map) : map[i] = map[j] => i = j
      BY <1>1 DEF IsInjective
    <3> QED BY <2>6, <3>1, <3>2 DEF IsInjective
  <2>11. PICK old \in SUBSET InMap : old = InMap \ {map[k]}
    OBVIOUS
  <2>12. \A i \in old : heap'[i] = heap[i] /\ heap[i].mac # d
    BY <1>1, <2>5, <2>9, <2>11
  <2> QED BY <1>3, <1>4, <2>5, <2>6, <2>8, <2>10, <2>11, <2>12, AddedNode, Zenon DEF new
<1> QED BY <1>6, <1>7

LEMMA HeapSame ==
  ASSUME DownInv, heap' = heap, map' = map
  PROVE  Kept /\ Quiet
<1>1. Kept
  BY DEF Kept, SamePlaces, DownInv, MapInv
<1>2. \A i \in InMap : QuietQueue(heap'[i].queue, heap[i].queue)
  BY DEF QuietQueue
<1> QED BY <1>1, <1>2, QuietQueues

\* The answers to a login and to a logout.
LEMMA AckStep ==
  ASSUME DownInv, NEW f \in Fd, LoginAck(f) \/ \E d \in Dev : LogoutAck(f, d)
  PROVE  Kept /\ Quiet
<1>1. MapInv /\ map' = map
  BY DEF DownInv, LoginAck, LogoutAck
<1>2. \A d \in Dev, type \in {"DEV_ONLINE", "DEV_OFFLINE"} : Msg(type, d, 0) \in Message /\ ~IsData(Msg(type, d, 0))
  BY DEF Msg, Message, IsData
<1>3. \E d \in Dev, type \in {"DEV_ONLINE", "DEV_OFFLINE"} : PushTo(find_device_by_mac(d), Msg(type, d, 0))
  <2>1. CASE LoginAck(f)
    <3>1. th[f].mac \in Dev
      BY <2>1 DEF LoginAck, At, DownInv, ThreadInv
    <3> QED BY <2>1, <3>1 DEF LoginAck
  <2>2. CASE \E d \in Dev : LogoutAck(f, d)
    BY <2>2 DEF LogoutAck
  <2> QED BY <2>1, <2>2
<1> QED BY <1>1, <1>2, <1>3, FoundByMac, PushIsQuiet

\* __send_to_dev takes the oldest message of one node, or none.
Taken(n) ==
  /\ n \in InMap /\ heap[n].queue # <<>>
  /\ heap'[n].queue = Tail(heap[n].queue)
  /\ \A i \in InMap : i # n => heap'[i].queue = heap[i].queue
  /\ downOut' = IF IsData(Head(heap[n].queue))
                THEN [downOut EXCEPT ![Head(heap[n].queue).dst_mac] = Head(heap[n].queue).n] ELSE downOut

LEMMA SendDownStep ==
  ASSUME DownInv, NEW f \in Fd, __send_to_dev(f)
  PROVE  Kept /\ (Taken(th[f].node) \/ (heap' = heap /\ downOut' = downOut))
<1> DEFINE n == th[f].node
<1>1. heap \in Seq(Node) /\ InMap \subseteq 1..Len(heap) /\ map' = map
  BY DEF DownInv, MapInv, __send_to_dev
<1>2. CASE heap' = heap /\ downOut' = downOut
  BY <1>1, <1>2, HeapSame
<1>3. CASE ~(heap' = heap /\ downOut' = downOut)
  <2>1. /\ Usable(n) /\ heap[n].queue # <<>>
        /\ heap' = [heap EXCEPT ![n].queue = Tail(@)]
        /\ downOut' = IF IsData(Head(heap[n].queue))
                      THEN [downOut EXCEPT ![Head(heap[n].queue).dst_mac] = Head(heap[n].queue).n] ELSE downOut
    BY <1>3 DEF __send_to_dev, POP_FROMQUEUE, IsData
  <2> HIDE DEF n
  <2>2. n \in InMap /\ n \in 1..Len(heap) /\ heap[n] \in Node
    BY <1>1, <2>1 DEF Usable, InMap
  <2>3. PICK q \in Seq(Message) : q = Tail(heap[n].queue)
    <3>1. heap[n].queue \in Seq(Message)
      BY <2>2 DEF Node
    <3> QED BY <2>1, <3>1, TailElements
  <2>4. PICK h \in Seq(Node) : h = heap
    BY <1>1
  <2>5. /\ SamePlaces([h EXCEPT ![n].queue = q], h)
        /\ [h EXCEPT ![n].queue = q][n].queue = q
        /\ \A i \in 1..Len(h) : i # n => [h EXCEPT ![n].queue = q][i] = h[i]
    BY <2>2, <2>4, HeapWithQueue
  <2>6. heap' = [h EXCEPT ![n].queue = q]
    BY <2>1, <2>3, <2>4
  <2>7. Kept
    BY <1>1, <2>4, <2>5, <2>6 DEF Kept
  <2>8. heap'[n].queue = Tail(heap[n].queue) /\ \A i \in InMap : i # n => heap'[i].queue = heap[i].queue
    BY <1>1, <2>3, <2>4, <2>5, <2>6
  <2> QED BY <2>1, <2>2, <2>7, <2>8 DEF Taken, n
<1> QED BY <1>2, <1>3

\* __push_msg_to_dev puts the message behind the queue of its own device, if it is not lost.
LEMMA PushDownStep ==
  ASSUME DownInv, __push_msg_to_dev
  PROVE  /\ Kept
         /\ \A i \in InMap : \/ heap'[i].queue = heap[i].queue
                             \/ heap[i].mac = mt.msg.dst_mac /\ heap'[i].queue = Append(heap[i].queue, mt.msg)
<1>1. /\ mt.pc = "Push" /\ PushTo(mt.node, mt.msg) /\ map' = map
  BY DEF __push_msg_to_dev
<1>2. mt.msg \in Message /\ MapInv
  BY <1>1 DEF DownInv, DownTypes, Handled
<1>3. mt.node \in 0..Len(heap) /\ (mt.node \in InMap => heap[mt.node].mac = mt.msg.dst_mac)
  BY <1>1 DEF DownInv, PointerInv
<1>4. /\ Kept
      /\ \A i \in InMap : \/ heap'[i].queue = heap[i].queue
                          \/ i = mt.node /\ heap'[i].queue = Append(heap[i].queue, mt.msg)
  BY <1>1, <1>2, <1>3, PushKeeps
<1> QED BY <1>3, <1>4

\* A step that moves no data message for a device.
Still ==
  /\ Quiet /\ UNCHANGED <<cloudQ, down, downOut>>
  /\ Handled' => Handled /\ mt'.msg = mt.msg

Nodes == MapInv' /\ OldNodes

\* What a step can be.
Kind ==
  \/ Still
  \/ HandleCloud /\ cloudQ # <<>> /\ UNCHANGED serverVars
  \/ (\E c \in Cloud, d \in Dev : __cloud_msg(c, d)) /\ UNCHANGED serverVars
  \/ __push_msg_to_dev
  \/ \E f \in Fd : __send_to_dev(f) /\ Taken(th[f].node)

LEMMA NodesKept == DownInv /\ Kept => Nodes
BY MapKept, KeptIsOld DEF Nodes, DownInv

LEMMA CentreKind ==
  ASSUME DownInv, CentreThread \/ (CloudSide /\ UNCHANGED serverVars)
  PROVE  Nodes /\ Kind
<1>a. DOMAIN mt = {"pc", "msg", "node"}
  BY DEF DownInv, ThreadInv
<1>1. CASE UNCHANGED serverVars
  <2>1. Kept /\ Quiet /\ Nodes /\ downOut' = downOut
    BY <1>1, HeapSame, NodesKept DEF serverVars
  <2>2. CASE HandleDev \/ ds_send_msg_tocloud
    <3>1. UNCHANGED <<cloudQ, down>> /\ mt'.pc \in {"Cloud", "ToCloud", "Dev"}
      BY <1>a, <2>2 DEF HandleDev, ds_send_msg_tocloud
    <3> QED BY <2>1, <3>1 DEF Kind, Still, Handled
  <2>3. CASE HandleCloud
    <3>1. CASE cloudQ = <<>>
      <4>1. UNCHANGED <<cloudQ, down>> /\ mt'.pc = "Dev"
        BY <1>a, <2>3, <3>1 DEF HandleCloud
      <4> QED BY <2>1, <4>1 DEF Kind, Still, Handled
    <3> QED BY <1>1, <2>1, <2>3, <3>1 DEF Kind
  <2>4. CASE hw_send_msg_toclient
    <3>1. UNCHANGED <<cloudQ, down>> /\ mt.pc = "ToClient" /\ (mt'.pc = "Cloud" \/ mt'.msg = mt.msg)
      BY <1>a, <2>4 DEF hw_send_msg_toclient
    <3> QED BY <2>1, <3>1 DEF Kind, Still, Handled
  <2>5. CASE SendNative \/ \E c \in Cloud : CloudConnect(c) \/ __cloud_login(c) \/ __cloud_logout(c) \/ CloudClose(c)
    <3>1. UNCHANGED <<cloudQ, down, mt>>
      BY <2>5 DEF SendNative, CloudConnect, __cloud_login, __cloud_logout, CloudClose
    <3> QED BY <2>1, <3>1 DEF Kind, Still, Handled
  <2>6. CASE \E c \in Cloud, d \in Dev : __cloud_msg(c, d)
    BY <1>1, <2>1, <2>6 DEF Kind
  <2>7. ASSUME HandleThread \/ CloudSide
        PROVE  \/ HandleDev \/ ds_send_msg_tocloud \/ HandleCloud \/ hw_send_msg_toclient \/ SendNative
               \/ \E c \in Cloud : CloudConnect(c) \/ __cloud_login(c) \/ __cloud_logout(c) \/ CloudClose(c)
               \/ \E c \in Cloud, d \in Dev : __cloud_msg(c, d)
    BY <2>7, Zenon DEF HandleThread, CloudSide
  <2>8. CASE FindTarget
    <3>1. UNCHANGED <<cloudQ, down>> /\ mt.pc = "Find" /\ mt'.msg = mt.msg
      BY <1>a, <2>8 DEF FindTarget
    <3> QED BY <2>1, <3>1 DEF Kind, Still, Handled
  <2>9. CASE __push_msg_to_dev
    BY <2>1, <2>9 DEF Kind
  <2> QED BY <2>2, <2>3, <2>4, <2>5, <2>6, <2>7, <2>8, <2>9 DEF CentreThread
<1>2. CASE __push_msg_to_dev
  BY <1>2, PushDownStep, NodesKept DEF Kind
<1> QED BY <1>1, <1>2 DEF CentreThread, FindTarget

LEMMA StepKind ==
  ASSUME DownInv, [Next]_vars
  PROVE  Nodes /\ Kind
<1>a. ASSUME Kept, Quiet, UNCHANGED <<cloudQ, down, downOut, mt>> PROVE Nodes /\ Kind
  BY <1>a, NodesKept DEF Kind, Still, Handled
<1>b. CASE UNCHANGED <<heap, map, cloudQ, down, downOut, mt>>
  BY <1>a, <1>b, HeapSame
<1>1. CASE CentreThread \/ (CloudSide /\ UNCHANGED serverVars)
  BY <1>1, CentreKind
<1>2. CASE __check_heartbeat
  BY <1>2, <1>a, CheckStep DEF __check_heartbeat, centreVars
<1>3. ASSUME NEW f \in Fd, ServerStep(f) PROVE Nodes /\ Kind
  <2>1. CASE CREATE_QUEUE(f)
    BY <2>1, <1>a, CreateStep DEF CREATE_QUEUE, centreVars
  <2>2. CASE LoginAck(f)
    BY <2>2, <1>a, AckStep DEF LoginAck, centreVars
  <2>3. CASE hw_register_service(f) \/ hw_unregister_service(f) \/ FindOwn(f)
    BY <2>3, <1>b DEF hw_register_service, hw_unregister_service, FindOwn, centreVars
  <2>4. CASE __send_to_dev(f)
    <3>1. UNCHANGED <<map, cloudQ, down, mt>>
      BY <2>4 DEF __send_to_dev, centreVars
    <3>2. Kept /\ (Taken(th[f].node) \/ (heap' = heap /\ downOut' = downOut))
      BY <2>4, SendDownStep
    <3> QED BY <1>b, <2>4, <3>1, <3>2, NodesKept DEF Kind
  <2> QED BY <1>3, <2>1, <2>2, <2>3, <2>4 DEF ServerStep
<1>4. ASSUME NEW f \in Fd, Accept(f) \/ FirstTimeout(f) \/ FirstRefused(f) \/ ClientGone(f)
      PROVE  Nodes /\ Kind
  BY <1>4, <1>b DEF Accept, FirstTimeout, FirstRefused, ClientGone, centreVars
<1>5. ASSUME NEW f \in Fd, NEW d \in Dev, Speak(f, d) PROVE Nodes /\ Kind
  <2>1. CASE LoginAdd(f, d)
    <3>1. add_device_to_list(d, f) /\ UNCHANGED <<cloudQ, down, downOut, mt>>
      BY <2>1 DEF LoginAdd, centreVars
    <3>2. MapInv' /\ OldNodes /\ Quiet
      BY <3>1, AddStep
    <3> QED BY <3>1, <3>2 DEF Nodes, Kind, Still, Handled
  <2>2. CASE LogoutAck(f, d)
    BY <2>2, <1>a, AckStep DEF LogoutAck, centreVars
  <2>3. CASE __device_msg(f, d)
    BY <2>3, <1>a, ClearStep DEF __device_msg
  <2>4. CASE __device_heartbeat(f, d)
    BY <2>4, <1>a, ClearStep DEF __device_heartbeat, centreVars
  <2> QED BY <1>5, <2>1, <2>2, <2>3, <2>4 DEF Speak
<1>6. CASE UNCHANGED vars
  BY <1>6, <1>b DEF vars, centreVars, serverVars
<1> QED BY <1>1, <1>2, <1>3, <1>4, <1>5, <1>6 DEF Next

-----------------------------------------------------------------------------
(* The threads and the pointers.                                           *)

Logging == {"Create", "Ack", "Register", "Unregister"}

\* What a step leaves of thread g.
Thread(g) ==
  \/ th'[g] = th[g]
  \/ th'[g].pc \in {"free", "first", "run", "dead"}
  \/ th'[g].pc \in Logging /\ th'[g].mac \in Dev
  \/ /\ th'[g].pc = "Pop" /\ th'[g].node = find_device_by_fd(g) /\ find_device_by_fd(g) # 0
     /\ UNCHANGED <<heap, map>>

ThreadsOK == th' \in [Fd -> Threads] /\ \A g \in Fd : Thread(g)

LEMMA OneThread ==
  ASSUME ThreadInv, NEW f \in Fd, DOMAIN th' = Fd, th' = [g \in DOMAIN th' |-> th'[g]],
         th'[f] \in Threads, \A g \in Fd : g # f => th'[g] = th[g], Thread(f)
  PROVE  ThreadsOK
<1>1. th \in [Fd -> Threads]
  BY DEF ThreadInv
<1>2. th' \in [Fd -> Threads] /\ \A g \in Fd : g # f => th'[g] = th[g]
  BY <1>1
<1> QED BY <1>2 DEF ThreadsOK, Thread

LEMMA ThreadWithPc ==
  ASSUME NEW t \in Threads, NEW p \in Pcs
  PROVE  [t EXCEPT !.pc = p] \in Threads /\ [t EXCEPT !.pc = p].pc = p /\ [t EXCEPT !.pc = p].mac = t.mac
BY DEF Threads

LEMMA ThreadReset ==
  ASSUME NEW t \in Threads, NEW p \in Pcs
  PROVE  /\ [t EXCEPT !.pc = p, !.boot = FALSE, !.node = 0] \in Threads
         /\ [t EXCEPT !.pc = p, !.boot = FALSE, !.node = 0].pc = p
BY DEF Threads

LEMMA GotoOK ==
  ASSUME ThreadInv, NEW f \in Fd, NEW p \in {"run", "dead", "Ack", "Register"}, Goto(f, p),
         p \in Logging => th[f].mac \in Dev
  PROVE  ThreadsOK
<1>1. th \in [Fd -> Threads] /\ th[f] \in Threads
  BY DEF ThreadInv
<1>2. PICK t : t = [th[f] EXCEPT !.pc = p]
  OBVIOUS
<1>3. t \in Threads /\ t.pc = p /\ t.mac = th[f].mac
  <2>1. PICK x \in Threads : x = th[f]
    BY <1>1
  <2>2. PICK v \in Pcs : v = p
    BY DEF Pcs
  <2>3. [x EXCEPT !.pc = v] \in Threads /\ [x EXCEPT !.pc = v].pc = v /\ [x EXCEPT !.pc = v].mac = x.mac
    BY ThreadWithPc
  <2> QED BY <1>2, <2>1, <2>2, <2>3
<1>4. /\ DOMAIN th' = Fd /\ th' = [g \in DOMAIN th' |-> th'[g]]
      /\ th'[f] = t /\ \A g \in Fd : g # f => th'[g] = th[g]
  <2>1. th' = [th EXCEPT ![f].pc = p] /\ DOMAIN th = Fd
    BY <1>1 DEF Goto
  <2>2. DOMAIN th' = Fd /\ th' = [g \in DOMAIN th' |-> th'[g]]
    BY <2>1
  <2>3. th'[f] = t
    BY <1>2, <2>1
  <2> QED BY <2>1, <2>2, <2>3
<1>6. Thread(f)
  BY <1>3, <1>4 DEF Thread, Logging
<1> QED BY <1>3, <1>4, <1>6, OneThread

LEMMA ReturnOK ==
  ASSUME ThreadInv, NEW f \in Fd, NEW success \in BOOLEAN, Return(f, success)
  PROVE  ThreadsOK
<1>1. th \in [Fd -> Threads] /\ th[f] \in Threads
  BY DEF ThreadInv
<1>2. PICK p \in {"run", "dead"} : th' = [th EXCEPT ![f].pc = p, ![f].boot = FALSE, ![f].node = 0]
  <2>1. /\ \E p \in {"run", "dead"} : p = IF th[f].pc = "first" \/ th[f].boot
                                          THEN (IF success THEN "run" ELSE "dead") ELSE "run"
    OBVIOUS
  <2> QED BY <2>1 DEF Return
<1>3. PICK t : t = [th[f] EXCEPT !.pc = p, !.boot = FALSE, !.node = 0]
  OBVIOUS
<1>4. t \in Threads /\ t.pc = p
  <2>1. PICK x \in Threads : x = th[f]
    BY <1>1
  <2>2. PICK v \in Pcs : v = p
    BY DEF Pcs
  <2>3. [x EXCEPT !.pc = v, !.boot = FALSE, !.node = 0] \in Threads
    BY ThreadReset
  <2>4. [x EXCEPT !.pc = v, !.boot = FALSE, !.node = 0].pc = v
    BY ThreadReset
  <2> QED BY <1>3, <2>1, <2>2, <2>3, <2>4
<1>5. /\ DOMAIN th' = Fd /\ th' = [g \in DOMAIN th' |-> th'[g]]
      /\ th'[f] = t /\ \A g \in Fd : g # f => th'[g] = th[g]
  BY <1>1, <1>2, <1>3
<1>6. Thread(f)
  BY <1>1, <1>4, <1>5 DEF Thread
<1> QED BY <1>4, <1>5, <1>6, OneThread

LEMMA ThreadNamed ==
  ASSUME NEW t \in Threads, NEW p \in Pcs, NEW d \in Dev
  PROVE  /\ [t EXCEPT !.pc = p, !.mac = d] \in Threads
         /\ [t EXCEPT !.pc = p, !.mac = d].pc = p /\ [t EXCEPT !.pc = p, !.mac = d].mac = d
BY DEF Threads

LEMMA NameOK ==
  ASSUME ThreadInv, NEW f \in Fd, NEW d \in Dev, NEW p \in {"Create", "Unregister"},
         th' = [th EXCEPT ![f].pc = p, ![f].mac = d]
  PROVE  ThreadsOK
<1>1. th \in [Fd -> Threads]
  BY DEF ThreadInv
<1>2. PICK x \in Threads : x = th[f]
  BY <1>1
<1>3. PICK v \in Pcs : v = p
  BY DEF Pcs
<1>4. PICK t : t = [x EXCEPT !.pc = v, !.mac = d]
  OBVIOUS
<1>5. t \in Threads /\ t.pc = p /\ t.mac = d
  <2>1. [x EXCEPT !.pc = v, !.mac = d] \in Threads
    BY ThreadNamed
  <2>2. [x EXCEPT !.pc = v, !.mac = d].pc = v
    BY DEF Threads
  <2>3. [x EXCEPT !.pc = v, !.mac = d].mac = d
    BY DEF Threads
  <2> QED BY <1>3, <1>4, <2>1, <2>2, <2>3
<1>6. /\ DOMAIN th' = Fd /\ th' = [g \in DOMAIN th' |-> th'[g]]
      /\ th'[f] = t /\ \A g \in Fd : g # f => th'[g] = th[g]
  BY <1>1, <1>2, <1>3, <1>4
<1>7. Thread(f)
  BY <1>5, <1>6 DEF Thread, Logging
<1> QED BY <1>5, <1>6, <1>7, OneThread

LEMMA ThreadPointing ==
  ASSUME NEW t \in Threads, NEW n \in Nat
  PROVE  /\ [t EXCEPT !.pc = "Pop", !.node = n] \in Threads
         /\ [t EXCEPT !.pc = "Pop", !.node = n].pc = "Pop" /\ [t EXCEPT !.pc = "Pop", !.node = n].node = n
BY DEF Threads, Pcs

LEMMA FindOwnOK ==
  ASSUME MapInv, ThreadInv, NEW f \in Fd, FindOwn(f)
  PROVE  ThreadsOK
<1>1. th \in [Fd -> Threads] /\ Len(heap) \in Nat
  BY DEF ThreadInv, MapInv
<1>2. PICK x \in Threads : x = th[f]
  BY <1>1
<1>3. PICK n : n = find_device_by_fd(f)
  OBVIOUS
<1>4. n \in Nat /\ n # 0
  BY <1>1, <1>3, FoundByFd DEF FindOwn
<1>5. PICK t : t = [x EXCEPT !.pc = "Pop", !.node = n]
  OBVIOUS
<1>6. t \in Threads /\ t.pc = "Pop" /\ t.node = n
  BY <1>4, <1>5, ThreadPointing
<1>7. th' = [th EXCEPT ![f].pc = "Pop", ![f].node = n] /\ heap' = heap /\ map' = map
  BY <1>3 DEF FindOwn
<1>8. /\ DOMAIN th' = Fd /\ th' = [g \in DOMAIN th' |-> th'[g]]
      /\ th'[f] = t /\ \A g \in Fd : g # f => th'[g] = th[g]
  BY <1>1, <1>2, <1>5, <1>7
<1>9. Thread(f)
  BY <1>3, <1>4, <1>6, <1>7, <1>8 DEF Thread
<1> QED BY <1>6, <1>8, <1>9, OneThread

LEMMA NewThreadOK ==
  ASSUME ThreadInv, NEW f \in Fd, Accept(f) \/ FirstTimeout(f)
  PROVE  ThreadsOK
<1>1. th \in [Fd -> Threads]
  BY DEF ThreadInv
<1>2. NoThread \in Threads /\ NoThread.pc = "free"
  BY DEF NoThread, Threads, Pcs
<1>3. [NoThread EXCEPT !.pc = "first", !.boot = TRUE] \in Threads
  BY DEF NoThread, Threads, Pcs
<1>4. [NoThread EXCEPT !.pc = "first", !.boot = TRUE].pc = "first"
  BY DEF NoThread
<1>5. PICK t \in Threads : t.pc \in {"free", "first"} /\ th' = [th EXCEPT ![f] = t]
  <2>1. \E t \in {NoThread, [NoThread EXCEPT !.pc = "first", !.boot = TRUE]} : th' = [th EXCEPT ![f] = t]
    BY Zenon DEF Accept, FirstTimeout
  <2> QED BY <1>2, <1>3, <1>4, <2>1
<1>6. /\ DOMAIN th' = Fd /\ th' = [g \in DOMAIN th' |-> th'[g]]
      /\ th'[f] = t /\ \A g \in Fd : g # f => th'[g] = th[g]
  BY <1>1, <1>5
<1>7. Thread(f)
  BY <1>5, <1>6 DEF Thread
<1> QED BY <1>5, <1>6, <1>7, OneThread

LEMMA ThreadsStep ==
  ASSUME DownInv, [Next]_vars
  PROVE  ThreadsOK
<1>a. MapInv /\ ThreadInv
  BY DEF DownInv
<1>b. CASE th' = th
  BY <1>a, <1>b DEF ThreadInv, ThreadsOK, Thread
<1>1. CASE CentreThread \/ (CloudSide /\ UNCHANGED serverVars)
  BY <1>b, <1>1 DEF CentreThread, FindTarget, __push_msg_to_dev, serverVars
<1>2. CASE __check_heartbeat
  BY <1>b, <1>2 DEF __check_heartbeat
<1>3. ASSUME NEW f \in Fd, ServerStep(f) PROVE ThreadsOK
  <2>1. CASE CREATE_QUEUE(f) \/ LoginAck(f)
    <3>1. th[f].mac \in Dev /\ (Goto(f, "Ack") \/ Goto(f, "Register"))
      BY <1>a, <2>1 DEF CREATE_QUEUE, LoginAck, At, ThreadInv
    <3> QED BY <1>a, <3>1, GotoOK
  <2>2. CASE hw_register_service(f) \/ hw_unregister_service(f)
    <3>1. \E b \in BOOLEAN : Return(f, b)
      <4>1. CASE hw_register_service(f)
        BY <4>1, Zenon DEF hw_register_service
      <4>2. CASE hw_unregister_service(f)
        <5>1. PICK b \in BOOLEAN : b = (data = <<>>)
          OBVIOUS
        <5>2. Return(f, data = <<>>)
          BY <4>2 DEF hw_unregister_service
        <5> QED BY <5>1, <5>2
      <4> QED BY <2>2, <4>1, <4>2
    <3> QED BY <1>a, <3>1, ReturnOK
  <2>3. CASE FindOwn(f)
    BY <1>a, <2>3, FindOwnOK
  <2>4. CASE __send_to_dev(f)
    <3>1. Goto(f, "run")
      BY <2>4 DEF __send_to_dev
    <3> QED BY <1>a, <3>1, GotoOK DEF Logging
  <2> QED BY <1>3, <2>1, <2>2, <2>3, <2>4 DEF ServerStep
<1>4. ASSUME NEW f \in Fd, Accept(f) \/ FirstTimeout(f) PROVE ThreadsOK
  BY <1>a, <1>4, NewThreadOK
<1>5. ASSUME NEW f \in Fd, FirstRefused(f) PROVE ThreadsOK
  BY <1>a, <1>5, ReturnOK DEF FirstRefused
<1>6. ASSUME NEW f \in Fd, ClientGone(f) PROVE ThreadsOK
  <2>1. Goto(f, "dead")
    BY <1>6 DEF ClientGone
  <2> QED BY <1>a, <2>1, GotoOK DEF Logging
<1>7. ASSUME NEW f \in Fd, NEW d \in Dev, Speak(f, d) PROVE ThreadsOK
  <2>1. CASE LoginAdd(f, d) \/ LogoutAck(f, d)
    <3>1. \E p \in {"Create", "Unregister"} : th' = [th EXCEPT ![f].pc = p, ![f].mac = d]
      BY <2>1 DEF LoginAdd, LogoutAck
    <3> QED BY <1>a, <3>1, NameOK
  <2>2. CASE __device_msg(f, d) \/ __device_heartbeat(f, d)
    <3>1. \E b \in BOOLEAN : Return(f, b)
      BY <2>2, Zenon DEF __device_msg, __device_heartbeat
    <3> QED BY <1>a, <3>1, ReturnOK
  <2> QED BY <1>7, <2>1, <2>2 DEF Speak
<1>8. CASE UNCHANGED vars
  BY <1>b, <1>8 DEF vars, serverVars
<1> QED BY <1>1, <1>2, <1>3, <1>4, <1>5, <1>6, <1>7, <1>8 DEF Next

LEMMA HandleStep ==
  ASSUME DownInv, [Next]_vars
  PROVE  /\ DOMAIN mt' = {"pc", "msg", "node"}
         /\ mt'.pc = "Push" => \/ mt' = mt
                               \/ /\ mt'.node = find_device_by_mac(mt.msg.dst_mac) /\ mt'.msg = mt.msg
                                  /\ UNCHANGED <<heap, map>>
<1>a. DOMAIN mt = {"pc", "msg", "node"}
  BY DEF DownInv, ThreadInv
<1>b. CASE mt' = mt
  BY <1>a, <1>b
<1>1. CASE HandleDev \/ ds_send_msg_tocloud \/ HandleCloud \/ hw_send_msg_toclient
  <2>1. DOMAIN mt' = DOMAIN mt /\ mt'.pc # "Push"
    BY <1>a, <1>1 DEF HandleDev, ds_send_msg_tocloud, HandleCloud, hw_send_msg_toclient
  <2> QED BY <1>a, <2>1
<1>2. CASE FindTarget
  <2>1. mt' = [mt EXCEPT !.pc = "Push", !.node = find_device_by_mac(mt.msg.dst_mac)] /\ UNCHANGED <<heap, map>>
    BY <1>2 DEF FindTarget, serverVars
  <2>2. PICK n : n = find_device_by_mac(mt.msg.dst_mac)
    OBVIOUS
  <2>3. DOMAIN mt' = DOMAIN mt /\ mt'.node = n /\ mt'.msg = mt.msg
    BY <1>a, <2>1, <2>2
  <2> QED BY <1>a, <2>1, <2>2, <2>3
<1>3. CASE __push_msg_to_dev
  BY <1>3 DEF __push_msg_to_dev
<1>4. CASE CloudSide
  BY <1>b, <1>4 DEF CloudSide, SendNative, CloudConnect, __cloud_login, __cloud_logout, CloudClose, __cloud_msg
<1>5. CASE __check_heartbeat
  BY <1>b, <1>5 DEF __check_heartbeat, centreVars
<1>6. ASSUME NEW f \in Fd, ServerStep(f) PROVE mt' = mt
  BY <1>6 DEF ServerStep, CREATE_QUEUE, LoginAck, hw_register_service, hw_unregister_service, FindOwn,
              __send_to_dev, centreVars
<1>7. ASSUME NEW f \in Fd, Accept(f) \/ FirstTimeout(f) \/ FirstRefused(f) \/ ClientGone(f) PROVE mt' = mt
  BY <1>7 DEF Accept, FirstTimeout, FirstRefused, ClientGone, centreVars
<1>8. ASSUME NEW f \in Fd, NEW d \in Dev, Speak(f, d) PROVE mt' = mt
  BY <1>8 DEF Speak, LoginAdd, LogoutAck, __device_msg, __device_heartbeat, centreVars
<1>9. CASE UNCHANGED vars
  BY <1>b, <1>9 DEF vars, centreVars
<1> QED BY <1>b, <1>1, <1>2, <1>3, <1>4, <1>5, <1>6, <1>7, <1>8, <1>9 DEF Next, CentreThread, HandleThread

LEMMA ThreadInvStep == DownInv /\ [Next]_vars => ThreadInv'
<1> SUFFICES ASSUME DownInv, [Next]_vars PROVE ThreadInv'
  OBVIOUS
<1>1. ThreadsOK /\ DOMAIN mt' = {"pc", "msg", "node"}
  BY ThreadsStep, HandleStep
<1>2. ASSUME NEW g \in Fd, th'[g].pc \in Logging PROVE th'[g].mac \in Dev
  <2>1. Thread(g)
    BY <1>1 DEF ThreadsOK
  <2>2. th[g].pc \in Logging => th[g].mac \in Dev
    BY DEF DownInv, ThreadInv, Logging
  <2> QED BY <1>2, <2>1, <2>2 DEF Thread, Logging
<1> QED BY <1>1, <1>2 DEF ThreadInv, ThreadsOK, Logging

\* A pointer outlives what it points to, but never points to something else.
LEMMA PointerStep ==
  ASSUME DownInv, [Next]_vars, Nodes
  PROVE  PointerInv'
<1>1. /\ \A i \in 1..Len(heap) : i \in InMap' => i \in InMap /\ heap'[i].mac = heap[i].mac /\ heap'[i].fd = heap[i].fd
      /\ Len(heap) <= Len(heap') /\ Len(heap) \in Nat /\ Len(heap') \in Nat /\ MapInv
  BY DEF Nodes, OldNodes, DownInv, MapInv
<1>2. InMap \subseteq 1..Len(heap)
  BY <1>1 DEF MapInv
<1>3. ASSUME NEW f \in Fd, th'[f].pc = "Pop"
      PROVE  th'[f].node \in 1..Len(heap') /\ (th'[f].node \in InMap' => heap'[th'[f].node].fd = f)
  <2>1. PICK n : n = th'[f].node
    OBVIOUS
  <2>2. n \in 1..Len(heap) /\ (n \in InMap => heap[n].fd = f)
    <3>1. Thread(f)
      BY ThreadsStep DEF ThreadsOK
    <3>2. CASE th'[f] = th[f]
      BY <1>3, <2>1, <3>2 DEF DownInv, PointerInv, At
    <3>3. CASE th'[f].node = find_device_by_fd(f) /\ find_device_by_fd(f) # 0
      BY <1>1, <1>2, <2>1, <3>3, FoundByFd
    <3> QED BY <1>3, <3>1, <3>2, <3>3 DEF Thread, Logging
  <2> QED BY <1>1, <2>1, <2>2
<1>4. ASSUME mt'.pc = "Push"
      PROVE  mt'.node \in 0..Len(heap') /\ (mt'.node \in InMap' => heap'[mt'.node].mac = mt'.msg.dst_mac)
  <2>1. PICK n : n = mt'.node
    OBVIOUS
  <2>2. n \in 0..Len(heap) /\ (n \in InMap => heap[n].mac = mt'.msg.dst_mac)
    <3>1. CASE mt' = mt
      BY <1>4, <2>1, <3>1 DEF DownInv, PointerInv
    <3>2. CASE mt'.node = find_device_by_mac(mt.msg.dst_mac) /\ mt'.msg = mt.msg
      <4>1. PICK d : d = mt.msg.dst_mac
        OBVIOUS
      <4>2. /\ find_device_by_mac(d) \in 0..Len(heap)
            /\ find_device_by_mac(d) # 0 => find_device_by_mac(d) \in InMap /\ heap[find_device_by_mac(d)].mac = d
        BY <1>1, FoundByMac
      <4>3. n = find_device_by_mac(d) /\ mt'.msg.dst_mac = d
        BY <2>1, <3>2, <4>1
      <4>4. 0 \notin InMap
        BY <1>1, <1>2
      <4> QED BY <4>2, <4>3, <4>4
    <3> QED BY <1>4, <3>1, <3>2, HandleStep
  <2>3. CASE n = 0
    <3>1. n \notin InMap'
      BY <2>3 DEF Nodes, MapInv
    <3> QED BY <1>1, <2>1, <2>3, <3>1
  <2>4. CASE n \in 1..Len(heap)
    BY <1>1, <2>1, <2>2, <2>4
  <2> QED BY <1>1, <2>2, <2>3, <2>4
<1> QED BY <1>3, <1>4 DEF PointerInv, At

-----------------------------------------------------------------------------
(* The messages.                                                           *)

DataInv == DownTypes /\ DownOrder /\ DownNumbers

LEMMA StillStep ==
  ASSUME DownInv, Nodes, Still
  PROVE  DataInv'
<1>1. /\ UNCHANGED <<cloudQ, down, downOut>> /\ (Handled' => Handled /\ mt'.msg = mt.msg)
      /\ \A i \in InMap' :
           /\ Sorted(heap'[i].queue)
           /\ \A a \in Range(heap'[i].queue) :
                IsData(a) => i \in InMap /\ a \in Range(heap[i].queue) /\ heap'[i].mac = heap[i].mac
  BY DEF Still, Quiet
<1>2. DownTypes /\ DownOrder /\ DownNumbers
  BY DEF DownInv
<1>3. DownTypes'
  BY <1>1, <1>2 DEF DownTypes
<1>4. DownOrder'
  <2>1. Sorted(cloudQ') /\ (Handled' => \A b \in Range(cloudQ') : Older(mt'.msg, b))
    BY <1>1, <1>2 DEF DownOrder
  <2>2. ASSUME NEW i \in InMap', NEW a \in Range(heap'[i].queue)
        PROVE  /\ IsData(a) => a.dst_mac = heap'[i].mac
               /\ Handled' => Older(a, mt'.msg)
               /\ \A b \in Range(cloudQ') : Older(a, b)
    <3>1. CASE ~IsData(a)
      BY <3>1 DEF Older
    <3>2. CASE IsData(a)
      <4>1. i \in InMap /\ a \in Range(heap[i].queue) /\ heap'[i].mac = heap[i].mac
        BY <1>1, <3>2
      <4> QED BY <1>1, <1>2, <4>1 DEF DownOrder
    <3> QED BY <3>1, <3>2
  <2> QED BY <1>1, <2>1, <2>2 DEF DownOrder
<1>5. DownNumbers'
  <2>1. /\ \A b \in Range(cloudQ') : New(b, downOut', down')
        /\ Handled' => New(mt'.msg, downOut', down')
    BY <1>1, <1>2 DEF DownNumbers
  <2>2. \A i \in InMap' : \A a \in Range(heap'[i].queue) : New(a, downOut', down')
    <3>1. \A i \in InMap : \A a \in Range(heap[i].queue) : New(a, downOut, down)
      BY <1>2 DEF DownNumbers
    <3> QED BY <1>1, <3>1 DEF New
  <2> QED BY <1>1, <1>2, <2>1, <2>2 DEF DownNumbers
<1> QED BY <1>3, <1>4, <1>5 DEF DataInv

\* The transfer thread takes the oldest message of clound_msg_queue.
LEMMA TakeDownStep ==
  ASSUME DownInv, HandleCloud, cloudQ # <<>>, UNCHANGED serverVars
  PROVE  DataInv'
<1>1. DownTypes /\ DownOrder /\ DownNumbers /\ DOMAIN mt = {"pc", "msg", "node"}
  BY DEF DownInv, ThreadInv
<1>2. cloudQ \in Seq(Message)
  BY <1>1 DEF DownTypes
<1>3. PICK x \in Message : x = Head(cloudQ)
  BY <1>2, TailRange
<1>4. PICK q : q = Tail(cloudQ)
  OBVIOUS
<1>5. q \in Seq(Message) /\ Range(cloudQ) = {x} \cup Range(q)
  BY <1>2, <1>3, <1>4, TailRange
<1>6. Sorted(q) /\ \A b \in Range(q) : Older(x, b)
  BY <1>1, <1>2, <1>3, <1>4, SortedTail DEF DownOrder
<1>7. /\ mt'.msg = x /\ mt'.pc = "ToClient" /\ cloudQ' = q
      /\ UNCHANGED <<down, heap, map, downOut>>
  BY <1>1, <1>3, <1>4 DEF HandleCloud, POP_FROMQUEUE, serverVars
<1>8. InMap' = InMap
  BY <1>7 DEF InMap
<1>9. DownTypes'
  BY <1>1, <1>3, <1>5, <1>7 DEF DownTypes
<1>10. DownOrder'
  <2>1. Sorted(cloudQ') /\ \A b \in Range(cloudQ') : Older(mt'.msg, b)
    BY <1>6, <1>7
  <2>2. ASSUME NEW i \in InMap, NEW a \in Range(heap[i].queue)
        PROVE  /\ IsData(a) => a.dst_mac = heap[i].mac
               /\ Older(a, x) /\ \A b \in Range(q) : Older(a, b)
    BY <1>1, <1>5 DEF DownOrder
  <2>3. \A i \in InMap : Sorted(heap[i].queue)
    BY <1>1 DEF DownOrder
  <2> QED BY <1>7, <1>8, <2>1, <2>2, <2>3 DEF DownOrder
<1>11. DownNumbers'
  <2>1. (\A b \in Range(q) : New(b, downOut, down)) /\ New(x, downOut, down)
    BY <1>1, <1>5 DEF DownNumbers
  <2>2. \A i \in InMap : \A a \in Range(heap[i].queue) : New(a, downOut, down)
    BY <1>1 DEF DownNumbers
  <2>3. \A d \in Dev : downOut[d] <= down
    BY <1>1 DEF DownNumbers
  <2> QED BY <1>7, <1>8, <2>1, <2>2, <2>3 DEF DownNumbers
<1> QED BY <1>9, <1>10, <1>11 DEF DataInv

\* A cloud program's message joins clound_msg_queue, with the next number.
LEMMA CloudMsgStep ==
  ASSUME DownInv, NEW c \in Cloud, NEW d \in Dev, __cloud_msg(c, d), UNCHANGED serverVars
  PROVE  DataInv'
<1>1. DownTypes /\ DownOrder /\ DownNumbers
  BY DEF DownInv
<1>2. cloudQ \in Seq(Message) /\ down \in Nat /\ downOut \in [Dev -> Nat]
  BY <1>1 DEF DownTypes
<1>3. PICK x \in Message : x = Msg("DEV_DATA_UP", d, down + 1)
  <2>1. PICK k \in Nat : k = down + 1
    BY <1>2
  <2>2. Msg("DEV_DATA_UP", d, k) \in Message
    BY DEF Msg, Message
  <2> QED BY <2>1, <2>2, Zenon
<1>4. IsData(x) /\ x.dst_mac = d /\ x.n = down + 1
  BY <1>3 DEF Msg, IsData
<1>5. cloudQ' = Append(cloudQ, x) /\ down' = down + 1 /\ UNCHANGED <<mt, heap, map, downOut>>
  BY <1>3 DEF __cloud_msg, ds_send_msg_tobuf, push_cloud_msg, PUSH_ENQUEUE, list_add_tail, serverVars
<1>6. cloudQ' \in Seq(Message) /\ Range(cloudQ') = Range(cloudQ) \cup {x}
  BY <1>2, <1>5, AppendRange
<1>7. \A m : New(m, downOut, down) => Older(m, x) /\ New(m, downOut, down + 1)
  <2>1. ASSUME NEW m, IsData(m), m.dst_mac \in Dev, m.n \in downOut[m.dst_mac] + 1..down
        PROVE  Older(m, x) /\ m.n \in downOut[m.dst_mac] + 1..down + 1
    <3>1. PICK k \in Nat : k = downOut[m.dst_mac]
      BY <1>2, <2>1
    <3>2. m.n \in k + 1..down + 1 /\ m.n < down + 1
      BY <1>2, <2>1, <3>1
    <3> QED BY <1>4, <3>1, <3>2 DEF Older
  <2> QED BY <2>1 DEF New, Older
<1>8. New(x, downOut, down + 1)
  <2>1. PICK k \in Nat : k = downOut[d]
    BY <1>2
  <2>2. k <= down
    BY <1>1, <2>1 DEF DownNumbers
  <2>3. down + 1 \in k + 1..down + 1
    BY <1>2, <2>1, <2>2
  <2> QED BY <1>4, <2>1, <2>3 DEF New
<1>9. /\ \A b \in Range(cloudQ) : New(b, downOut, down)
      /\ Handled => New(mt.msg, downOut, down)
      /\ \A i \in InMap : \A a \in Range(heap[i].queue) : New(a, downOut, down)
      /\ \A e \in Dev : downOut[e] <= down
  BY <1>1 DEF DownNumbers
<1>10. DownTypes'
  BY <1>1, <1>2, <1>5, <1>6 DEF DownTypes, Handled
<1>11. Sorted(cloudQ')
  BY <1>1, <1>2, <1>5, <1>7, <1>9, SortedAppend DEF DownOrder
<1>12. InMap' = InMap /\ (Handled' <=> Handled) /\ mt' = mt /\ heap' = heap
  BY <1>5 DEF InMap, Handled
<1>13. DownOrder'
  <2>1. Handled => \A b \in Range(cloudQ') : Older(mt.msg, b)
    BY <1>1, <1>6, <1>7, <1>9 DEF DownOrder
  <2>2. ASSUME NEW i \in InMap, NEW a \in Range(heap[i].queue)
        PROVE  /\ IsData(a) => a.dst_mac = heap[i].mac
               /\ Handled => Older(a, mt.msg)
               /\ \A b \in Range(cloudQ') : Older(a, b)
    BY <1>1, <1>6, <1>7, <1>9 DEF DownOrder
  <2>3. \A i \in InMap : Sorted(heap[i].queue)
    BY <1>1 DEF DownOrder
  <2> QED BY <1>11, <1>12, <2>1, <2>2, <2>3 DEF DownOrder
<1>14. DownNumbers'
  <2>1. \A e \in Dev : downOut[e] <= down + 1
    <3>1. \A e \in Dev : downOut[e] \in Nat /\ downOut[e] <= down
      BY <1>2, <1>9
    <3> QED BY <1>2, <3>1
  <2> QED BY <1>5, <1>6, <1>7, <1>8, <1>9, <1>12, <2>1 DEF DownNumbers
<1> QED BY <1>10, <1>13, <1>14 DEF DataInv

\* The message handed down joins the queue of its device, behind all that is older.
LEMMA PushedStep ==
  ASSUME DownInv, Nodes, __push_msg_to_dev
  PROVE  DataInv'
<1>1. DownTypes /\ DownOrder /\ DownNumbers /\ MapInv
  BY DEF DownInv
<1>2. /\ mt.pc = "Push" /\ mt'.pc = "Cloud" /\ UNCHANGED <<cloudQ, down, downOut, map>>
  BY DEF __push_msg_to_dev
<1>3. PICK x \in Message : x = mt.msg
  BY <1>1, <1>2 DEF DownTypes, Handled
<1>4. ~Handled' /\ Handled /\ InMap' = InMap
  BY <1>2 DEF Handled, InMap
<1>5. \A i \in InMap : /\ heap'[i].mac = heap[i].mac
                       /\ \/ heap'[i].queue = heap[i].queue
                          \/ heap[i].mac = x.dst_mac /\ heap'[i].queue = Append(heap[i].queue, x)
  BY <1>1, <1>3, PushDownStep DEF Kept, SamePlaces, MapInv
<1>6. ASSUME NEW i \in InMap
      PROVE  /\ Sorted(heap'[i].queue)
             /\ \A a \in Range(heap'[i].queue) : a \in Range(heap[i].queue) \/ (a = x /\ heap[i].mac = x.dst_mac)
  <2>1. CASE heap'[i].queue = heap[i].queue
    BY <1>1, <2>1 DEF DownOrder
  <2>2. CASE heap[i].mac = x.dst_mac /\ heap'[i].queue = Append(heap[i].queue, x)
    <3>1. heap[i] \in Node
      BY <1>1 DEF MapInv
    <3>2. PICK p \in Seq(Message) : p = heap[i].queue
      BY <3>1 DEF Node
    <3>3. Sorted(p) /\ \A a \in Range(p) : Older(a, x)
      BY <1>1, <1>3, <1>4, <3>2 DEF DownOrder
    <3>4. Range(Append(p, x)) = Range(p) \cup {x} /\ Sorted(Append(p, x))
      BY <3>3, AppendRange, SortedAppend
    <3> QED BY <2>2, <3>2, <3>4
  <2> QED BY <1>5, <2>1, <2>2
<1>7. DownTypes'
  BY <1>1, <1>2, <1>4 DEF DownTypes
<1>8. DownOrder'
  <2>1. \A b \in Range(cloudQ) : Older(x, b)
    BY <1>1, <1>3, <1>4 DEF DownOrder
  <2>2. ASSUME NEW i \in InMap, NEW a \in Range(heap'[i].queue)
        PROVE  (IsData(a) => a.dst_mac = heap'[i].mac) /\ \A b \in Range(cloudQ) : Older(a, b)
    <3>1. CASE a \in Range(heap[i].queue)
      BY <1>1, <1>5, <3>1 DEF DownOrder
    <3>2. CASE a = x /\ heap[i].mac = x.dst_mac
      BY <1>5, <2>1, <3>2
    <3> QED BY <1>6, <3>1, <3>2
  <2>3. Sorted(cloudQ)
    BY <1>1 DEF DownOrder
  <2> QED BY <1>2, <1>4, <1>6, <2>2, <2>3 DEF DownOrder
<1>9. DownNumbers'
  <2>1. New(x, downOut, down) /\ \A b \in Range(cloudQ) : New(b, downOut, down)
    BY <1>1, <1>3, <1>4 DEF DownNumbers
  <2>2. \A i \in InMap : \A a \in Range(heap'[i].queue) : New(a, downOut, down)
    BY <1>1, <1>6, <2>1 DEF DownNumbers
  <2>3. \A d \in Dev : downOut[d] <= down
    BY <1>1 DEF DownNumbers
  <2> QED BY <1>2, <1>4, <2>1, <2>2, <2>3 DEF DownNumbers
<1> QED BY <1>7, <1>8, <1>9 DEF DataInv

\* What goes to the device is the oldest on the way to it, over the connection of its node.
LEMMA SentDownStep ==
  ASSUME DownInv, Nodes, NEW f \in Fd, __send_to_dev(f), Taken(th[f].node)
  PROVE  /\ DataInv'
         /\ \A d \in Dev : downOut'[d] # downOut[d]
              => downOut'[d] > downOut[d] /\ heap[find_device_by_mac(d)].fd = f
<1>1. DownTypes /\ DownOrder /\ DownNumbers /\ MapInv
  BY DEF DownInv
<1>2. PICK n : n = th[f].node
  OBVIOUS
<1>3. /\ n \in InMap /\ heap[n].queue # <<>> /\ heap'[n].queue = Tail(heap[n].queue)
      /\ \A i \in InMap : i # n => heap'[i].queue = heap[i].queue
      /\ downOut' = IF IsData(Head(heap[n].queue))
                    THEN [downOut EXCEPT ![Head(heap[n].queue).dst_mac] = Head(heap[n].queue).n] ELSE downOut
  BY <1>2 DEF Taken
<1>4. heap[n].fd = f
  BY <1>2, <1>3 DEF DownInv, PointerInv, __send_to_dev
<1>5. UNCHANGED <<cloudQ, down, mt, map>> /\ \A i \in InMap : heap'[i].mac = heap[i].mac
  BY <1>1, SendDownStep DEF __send_to_dev, centreVars, Kept, SamePlaces, MapInv
<1>6. InMap' = InMap /\ (Handled' <=> Handled) /\ mt' = mt
  BY <1>5 DEF InMap, Handled
<1>7. PICK p \in Seq(Message) : p = heap[n].queue
  <2>1. heap[n] \in Node
    BY <1>1, <1>3 DEF MapInv
  <2> QED BY <2>1 DEF Node
<1>8. PICK x \in Message : x = Head(p)
  BY <1>3, <1>7, TailRange
<1>9. Range(p) = {x} \cup Range(Tail(p))
  BY <1>3, <1>7, <1>8, TailRange
<1>10. Sorted(Tail(p)) /\ \A b \in Range(Tail(p)) : Older(x, b)
  BY <1>1, <1>3, <1>7, <1>8, SortedTail DEF DownOrder
<1>11. /\ heap'[n].queue = Tail(p)
       /\ downOut' = IF IsData(x) THEN [downOut EXCEPT ![x.dst_mac] = x.n] ELSE downOut
  BY <1>3, <1>7, <1>8
<1>12. /\ IsData(x) => x.dst_mac = heap[n].mac
       /\ Handled => Older(x, mt.msg)
       /\ \A b \in Range(cloudQ) : Older(x, b)
       /\ New(x, downOut, down)
  BY <1>1, <1>3, <1>7, <1>9 DEF DownOrder, DownNumbers
<1>13. downOut \in [Dev -> Nat] /\ down \in Nat /\ \A d \in Dev : downOut[d] <= down
  BY <1>1 DEF DownTypes, DownNumbers
<1>14. \A i \in InMap : Sorted(heap'[i].queue) /\ \A a \in Range(heap'[i].queue) : a \in Range(heap[i].queue)
  BY <1>1, <1>3, <1>7, <1>9, <1>10, <1>11 DEF DownOrder
<1>15. DownOrder'
  BY <1>1, <1>5, <1>6, <1>14 DEF DownOrder
<1>16. \A i \in InMap : i # n => heap[i].mac # heap[n].mac
  BY <1>1, <1>3 DEF MapInv
<1>17. CASE ~IsData(x)
  <2>1. downOut' = downOut
    BY <1>11, <1>17
  <2>2. DownTypes'
    BY <1>1, <1>5, <1>6, <2>1 DEF DownTypes
  <2>3. DownNumbers'
    BY <1>1, <1>5, <1>6, <1>14, <2>1 DEF DownNumbers
  <2> QED BY <1>15, <2>1, <2>2, <2>3 DEF DataInv
<1>18. CASE IsData(x)
  <2>1. PICK d \in Dev : d = x.dst_mac
    BY <1>12, <1>18 DEF New
  <2>2. PICK k \in Nat : k = x.n
    BY <1>12, <1>13, <1>18, <2>1 DEF New
  <2>3. downOut' = [downOut EXCEPT ![d] = k] /\ heap[n].mac = d /\ k > downOut[d] /\ k <= down
    BY <1>11, <1>12, <1>13, <1>18, <2>1, <2>2 DEF New
  <2>4. /\ downOut' \in [Dev -> Nat] /\ downOut'[d] = k
        /\ \A e \in Dev : e # d => downOut'[e] = downOut[e]
    BY <1>13, <2>3
  <2>5. ASSUME NEW m, New(m, downOut, down), IsData(m) => Older(x, m) \/ m.dst_mac # d
        PROVE  New(m, downOut', down)
    <3>1. ASSUME IsData(m) PROVE m.dst_mac \in Dev /\ m.n \in downOut'[m.dst_mac] + 1..down
      <4>1. m.dst_mac \in Dev /\ m.n \in downOut[m.dst_mac] + 1..down
        BY <2>5, <3>1 DEF New
      <4>2. CASE m.dst_mac # d
        BY <2>4, <4>1, <4>2
      <4>3. CASE m.dst_mac = d
        <5>1. k < m.n
          BY <1>18, <2>1, <2>2, <2>5, <3>1, <4>3 DEF Older
        <5>2. m.n \in Int /\ m.n <= down
          BY <1>13, <4>1
        <5>3. m.n \in k + 1..down
          BY <1>13, <5>1, <5>2
        <5> QED BY <2>4, <4>1, <4>3, <5>3
      <4> QED BY <4>2, <4>3
    <3> QED BY <3>1 DEF New
  <2>6. DownTypes'
    BY <1>1, <1>5, <1>6, <2>4 DEF DownTypes
  <2>7. DownNumbers'
    <3>1. \A b \in Range(cloudQ) : New(b, downOut', down)
      BY <1>1, <1>12, <2>5 DEF DownNumbers
    <3>2. Handled => New(mt.msg, downOut', down)
      BY <1>1, <1>12, <2>5 DEF DownNumbers
    <3>3. ASSUME NEW i \in InMap, NEW a \in Range(heap'[i].queue) PROVE New(a, downOut', down)
      <4>1. New(a, downOut, down) /\ (IsData(a) => a.dst_mac = heap[i].mac)
        BY <1>1, <1>14 DEF DownNumbers, DownOrder
      <4>2. CASE i = n
        <5>1. Older(x, a)
          BY <1>10, <1>11, <4>2
        <5> QED BY <2>5, <4>1, <5>1
      <4>3. CASE i # n
        <5>1. IsData(a) => a.dst_mac # d
          BY <1>16, <2>3, <4>1, <4>3
        <5> QED BY <2>5, <4>1, <5>1
      <4> QED BY <4>2, <4>3
    <3>4. \A e \in Dev : downOut'[e] <= down
      BY <1>13, <2>3, <2>4
    <3> QED BY <1>5, <1>6, <3>1, <3>2, <3>3, <3>4 DEF DownNumbers
  <2>8. find_device_by_mac(d) = n
    BY <1>1, <1>3, <2>3, FoundByMac
  <2>9. downOut'[d] > downOut[d] /\ heap[find_device_by_mac(d)].fd = f
    BY <1>4, <2>3, <2>4, <2>8
  <2> QED BY <1>15, <2>4, <2>6, <2>7, <2>9 DEF DataInv
<1> QED BY <1>17, <1>18

LEMMA MessagesStep ==
  ASSUME DownInv, [Next]_vars
  PROVE  DataInv'
<1>1. Nodes /\ Kind
  BY StepKind
<1>2. CASE Still
  BY <1>1, <1>2, StillStep
<1>3. CASE HandleCloud /\ cloudQ # <<>> /\ UNCHANGED serverVars
  BY <1>3, TakeDownStep
<1>4. CASE (\E c \in Cloud, d \in Dev : __cloud_msg(c, d)) /\ UNCHANGED serverVars
  BY <1>4, CloudMsgStep
<1>5. CASE __push_msg_to_dev
  BY <1>1, <1>5, PushedStep
<1>6. CASE \E f \in Fd : __send_to_dev(f) /\ Taken(th[f].node)
  BY <1>1, <1>6, SentDownStep
<1> QED BY <1>1, <1>2, <1>3, <1>4, <1>5, <1>6 DEF Kind

LEMMA DownStart == Init => DownInv
<1> SUFFICES ASSUME Init PROVE DownInv
  OBVIOUS
<1>1. /\ cloudQ = <<>> /\ mt = [pc |-> "Dev", msg |-> NoMsg, node |-> 0] /\ down = 0
      /\ heap = <<>> /\ map = <<>> /\ th = [f \in Fd |-> NoThread] /\ downOut = [d \in Dev |-> 0]
  BY DEF Init, CentreInit
<1>2. InMap = {} /\ Range(cloudQ) = {} /\ Len(cloudQ) = 0
  BY <1>1 DEF InMap, Range
<1>3. MapInv
  BY <1>1, <1>2 DEF MapInv, IsInjective
<1>4. ThreadInv /\ PointerInv
  BY <1>1 DEF ThreadInv, PointerInv, NoThread, Threads, Pcs, At
<1>5. DownTypes
  BY <1>1 DEF DownTypes, Handled
<1>6. DownOrder /\ DownNumbers
  BY <1>1, <1>2 DEF DownOrder, DownNumbers, Handled, Sorted
<1> QED BY <1>3, <1>4, <1>5, <1>6 DEF DownInv

LEMMA DownStep == DownInv /\ [Next]_vars => DownInv'
<1> SUFFICES ASSUME DownInv, [Next]_vars PROVE DownInv'
  OBVIOUS
<1>1. Nodes
  BY StepKind
<1>2. DownTypes' /\ DownOrder' /\ DownNumbers'
  BY MessagesStep DEF DataInv
<1>3. ThreadInv' /\ PointerInv'
  BY <1>1, ThreadInvStep, PointerStep
<1> QED BY <1>1, <1>2, <1>3 DEF DownInv, Nodes

\* A lookup's pointer is used after the list's lock is released, the node it points to may be freed and
\* another login may have taken its place: as long as no freed node has been used, the cloud's messages
\* reach a device in order, and only over the connection of its latest login (ft_ikcc_net_server.c).
THEOREM CloudReachesDevice == Spec => DeliveredInOrder
<1> DEFINE Delivery ==
      \A d \in Dev : downOut'[d] # downOut[d] /\ ~stale'
        => /\ downOut'[d] > downOut[d]
           /\ \E f \in Fd : At(f, "Pop") /\ heap[find_device_by_mac(d)].fd = f
<1>1. DownInv /\ [Next]_vars => [Delivery]_vars
  <2> SUFFICES ASSUME DownInv, [Next]_vars PROVE Delivery
    OBVIOUS
  <2>1. Nodes /\ Kind
    BY StepKind
  <2>2. CASE UNCHANGED downOut
    BY <2>2
  <2>3. ASSUME NEW f \in Fd, __send_to_dev(f), Taken(th[f].node) PROVE Delivery
    <3>1. At(f, "Pop")
      BY <2>3 DEF __send_to_dev
    <3> QED BY <2>1, <2>3, <3>1, SentDownStep
  <2>4. ASSUME ~UNCHANGED downOut PROVE \E f \in Fd : __send_to_dev(f) /\ Taken(th[f].node)
    BY <2>1, <2>4 DEF Kind, Still, serverVars, __push_msg_to_dev
  <2> QED BY <2>2, <2>3, <2>4
<1> QED BY <1>1, DownStart, DownStep, PTL DEF Spec, DeliveredInOrder
=============================================================================
