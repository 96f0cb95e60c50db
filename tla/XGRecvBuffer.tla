--------------------------- MODULE XGRecvBuffer ---------------------------
(***************************************************************************)
(* One direction of one connection of the proxy core: the peer's frames    *)
(* travel as a byte stream, recv() hands them to the core in chunks of any *)
(* size, XGByteQueuePush stores them, and once per pass of the core thread *)
(* XGProtocolClient (or XGProtocolServer) takes at most one complete frame *)
(* out.  A frame is a header whose last byte is the length of its body.    *)
(***************************************************************************)
EXTENDS XGByteQueue

CONSTANTS
  HeaderSize,  \* 5 in the code: one type byte and four length bytes
  MaxBody,     \* longest body a peer sends
  Content,     \* the values of a body byte
  MaxFrames    \* bound on the frames sent

ASSUME RecvBufferAssumption ==
  /\ HeaderSize \in Nat \ {0, 1}
  /\ MaxBody \in Nat /\ MaxFrames \in Nat
  /\ Content \subseteq Nat

VARIABLES
  q,      \* recvBuffer
  wire,   \* bytes sent and not yet received
  stage,  \* the core thread is about to parse ("Protocol") or to receive ("Recv")
  open,   \* the connection has not been closed by the core
  sent, got  \* history: the frames sent, and those taken out of the buffer

vars == <<q, wire, stage, open, sent, got>>

Byte == Content \cup (0..MaxBody)
Bodies == UNION {[1..n -> Content] : n \in 0..MaxBody}
Header(n) == [i \in 1..HeaderSize |-> IF i = HeaderSize THEN n ELSE 0]
Frame == {Header(Len(b)) \o b : b \in Bodies}

TypeOK ==
  /\ q \in ByteQueue(Byte)
  /\ wire \in Seq(Byte)
  /\ stage \in {"Protocol", "Recv"}
  /\ open \in BOOLEAN
  /\ sent \in Seq(Seq(Byte)) /\ got \in Seq(Seq(Byte))

Init ==
  /\ q = XGByteQueueInit /\ wire = <<>>
  /\ stage = "Protocol" /\ open = TRUE
  /\ sent = <<>> /\ got = <<>>

\* The peer writes a frame to its socket.
PeerSend ==
  /\ Len(sent) < MaxFrames
  /\ \E f \in Frame : wire' = wire \o f /\ sent' = Append(sent, f)
  /\ UNCHANGED <<q, stage, open, got>>

\* Mutant: more than a header must have arrived.
CompleteBeyondHeader ==
  /\ XGByteQueueSize(q) > HeaderSize
  /\ XGByteQueuePeer(q, HeaderSize)[HeaderSize] + HeaderSize <= XGByteQueueSize(q)

\* The test at the head of XGProtocolClient and XGProtocolServer.
Complete ==
  /\ XGByteQueueSize(q) >= HeaderSize
  /\ XGByteQueuePeer(q, HeaderSize)[HeaderSize] + HeaderSize <= XGByteQueueSize(q)

\* One call of XGProtocolClient/Server: nothing, or one frame copied out and popped.
Protocol ==
  /\ stage = "Protocol" /\ stage' = "Recv"
  /\ IF Complete
     THEN LET n == XGByteQueuePeer(q, HeaderSize)[HeaderSize] + HeaderSize
          IN /\ got' = Append(got, XGByteQueuePeer(q, n))
             /\ q' = XGByteQueuePop(q, n)
     ELSE UNCHANGED <<q, got>>
  /\ UNCHANGED <<wire, open, sent>>

\* XGRecvConnectClient/Server for a readable socket.  recv() is asked for at most
\* the free room; with no room left it returns 0, which is taken for end of file.
XGRecvConnect ==
  /\ stage = "Recv" /\ open /\ wire # <<>>
  /\ LET room == BQ_BUFFER_SIZE - XGByteQueueSize(q)
     IN \/ /\ room = 0
           /\ open' = FALSE
           /\ UNCHANGED <<q, wire>>
        \/ \E n \in 1..Smaller(Len(wire), room) :
             /\ q' = XGByteQueuePush(q, SubSeq(wire, 1, n))
             /\ wire' = SubSeq(wire, n + 1, Len(wire))
             /\ UNCHANGED open
  /\ stage' = "Protocol"
  /\ UNCHANGED <<sent, got>>

\* select() reports nothing for this socket in this pass.
NotReadable ==
  /\ stage = "Recv"
  /\ stage' = "Protocol"
  /\ UNCHANGED <<q, wire, open, sent, got>>

Next == PeerSend \/ Protocol \/ XGRecvConnect \/ NotReadable

Spec == Init /\ [][Next]_vars

(* The core thread never stops passing, and a socket that stays readable is  *)
(* reported by some later select(): its set is rebuilt in every pass.        *)
FairSpec == Spec /\ WF_vars(Protocol) /\ WF_vars(NotReadable) /\ SF_vars(XGRecvConnect)

-----------------------------------------------------------------------------
\* However recv() cuts the stream and wherever the ring buffer wraps, XGProtocol*
\* takes out exactly the frames that were sent, whole and in order.
Channel == INSTANCE FrameChannel WITH Frame <- Frame, sent <- sent, got <- got
ImplementsFrameChannel == Channel!Spec

\* Every frame of a peer that keeps to the buffer's size is delivered.
EveryFrameDelivered ==
  \A n \in 1..MaxFrames : Len(sent) >= n ~> Len(got) >= n
=============================================================================
