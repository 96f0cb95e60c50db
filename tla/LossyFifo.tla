----------------------------- MODULE LossyFifo -----------------------------
(* What a relay promises about the messages of each sender: a message comes     *)
(* out at most once and never after a later one of the same sender.  Messages   *)
(* are numbered by their sender, from 1; the relay may lose some.               *)
EXTENDS Naturals

CONSTANT Sender

VARIABLES accepted, \* the number of messages taken from each sender
          pipe,     \* the numbers of those still inside the relay
          out       \* the number of the last message that came out

Init ==
  /\ accepted = [s \in Sender |-> 0]
  /\ pipe = [s \in Sender |-> {}]
  /\ out = [s \in Sender |-> 0]

Accept(s) ==
  /\ accepted' = [accepted EXCEPT ![s] = @ + 1]
  /\ pipe' = [pipe EXCEPT ![s] = @ \cup {accepted[s] + 1}]
  /\ UNCHANGED out

Lose(s) ==
  /\ \E n \in pipe[s] : pipe' = [pipe EXCEPT ![s] = @ \ {n}]
  /\ UNCHANGED <<accepted, out>>

\* The oldest message inside comes out.
Deliver(s) ==
  /\ \E n \in pipe[s] : /\ \A k \in pipe[s] : n <= k
                        /\ pipe' = [pipe EXCEPT ![s] = @ \ {n}]
                        /\ out' = [out EXCEPT ![s] = n]
  /\ UNCHANGED accepted

Next == \E s \in Sender : Accept(s) \/ Lose(s) \/ Deliver(s)

Spec == Init /\ [][Next]_<<accepted, pipe, out>>
=============================================================================
