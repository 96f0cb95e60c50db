--------------------------- MODULE FrameChannel ---------------------------
(***************************************************************************)
(* What a receive buffer promises to the protocol layer: frames come out   *)
(* whole, each once, in the order in which they were sent.                 *)
(***************************************************************************)
EXTENDS Naturals, Sequences

CONSTANT Frame
VARIABLES sent, got

Init == sent = <<>> /\ got = <<>>

Send == \E f \in Frame : sent' = Append(sent, f) /\ UNCHANGED got

Deliver ==
  /\ Len(got) < Len(sent)
  /\ got' = Append(got, sent[Len(got) + 1])
  /\ UNCHANGED sent

Next == Send \/ Deliver
Spec == Init /\ [][Next]_<<sent, got>>
=============================================================================
