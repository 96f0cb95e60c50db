---------------------------- MODULE XGByteQueue ----------------------------
(***************************************************************************)
(* The ring buffer in which each socket's bytes wait to be parsed          *)
(* (xlinkgateway/src/XGByteQueue.c).  StartIndex and EndIndex run freely   *)
(* and wrap with the machine word; the position in Buffer is their value   *)
(* masked with the buffer size, which is a power of two.                   *)
(***************************************************************************)
EXTENDS Integers, Sequences

CONSTANTS
  BQ_BUFFER_SIZE,  \* 2048 in the code
  IndexMod         \* 2^32 in the code: the values an index can take

ASSUME ByteQueueAssumption ==
  /\ BQ_BUFFER_SIZE \in Nat \ {0}
  /\ IndexMod \in Nat
  /\ IndexMod % BQ_BUFFER_SIZE = 0
  /\ IndexMod > BQ_BUFFER_SIZE

Slot == 0..(BQ_BUFFER_SIZE - 1)
ByteQueue(Byte) ==
  [Buffer : [Slot -> Byte], StartIndex : 0..(IndexMod - 1), EndIndex : 0..(IndexMod - 1)]

Smaller(m, n) == IF m < n THEN m ELSE n

\* index & (BQ_BUFFER_SIZE - 1)
Mask(index) == index % BQ_BUFFER_SIZE

\* An unsigned difference.
Minus(a, b) == (a - b) % IndexMod

XGByteQueueInit == [Buffer |-> [i \in Slot |-> 0], StartIndex |-> 0, EndIndex |-> 0]

XGByteQueueReSet(q) == [q EXCEPT !.StartIndex = 0, !.EndIndex = 0]

XGByteQueueSize(q) == Minus(q.EndIndex, q.StartIndex)

\* Buffer with the sequence data copied to the slots from at on.
MemCpy(buffer, at, data) ==
  [i \in Slot |-> IF i \in at..(at + Len(data) - 1) THEN data[i - at + 1] ELSE buffer[i]]

\* Mutant: the first copy is not cut at the end of Buffer.
PushUncut(q, data) ==
  LET length == Smaller(Len(data), Minus(BQ_BUFFER_SIZE + q.StartIndex, q.EndIndex))
  IN [q EXCEPT !.Buffer = MemCpy(@, Mask(q.EndIndex), SubSeq(data, 1, length)),
               !.EndIndex = (@ + length) % IndexMod]

\* As much of data as there is room for, in at most two pieces.
XGByteQueuePush(q, data) ==
  LET length == Smaller(Len(data), Minus(BQ_BUFFER_SIZE + q.StartIndex, q.EndIndex))
      temp   == Smaller(length, BQ_BUFFER_SIZE - Mask(q.EndIndex))
  IN [q EXCEPT !.Buffer = MemCpy(MemCpy(@, Mask(q.EndIndex), SubSeq(data, 1, temp)),
                                 0, SubSeq(data, temp + 1, length)),
               !.EndIndex = (@ + length) % IndexMod]

\* The first n bytes of the queue (fewer if it holds fewer), read in two pieces.
XGByteQueuePeer(q, n) ==
  LET bufferLength == Smaller(n, XGByteQueueSize(q))
      length == Smaller(bufferLength, BQ_BUFFER_SIZE - Mask(q.StartIndex))
  IN [i \in 1..length |-> q.Buffer[Mask(q.StartIndex) + i - 1]]
       \o [i \in 1..(bufferLength - length) |-> q.Buffer[i - 1]]

\* Drop n bytes; an empty queue starts again at index 0.
XGByteQueuePop(q, n) ==
  LET length == Smaller(n, XGByteQueueSize(q))
      r == [q EXCEPT !.StartIndex = (@ + length) % IndexMod]
  IN IF r.EndIndex = r.StartIndex THEN XGByteQueueReSet(r) ELSE r
=============================================================================
