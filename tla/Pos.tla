---------------------------------- MODULE Pos ----------------------------------
(* The Linux vending daemon (pos-salemachine).  One thread reads the machine's     *)
(* commands; CW opens the terminal's port, asks for the deduction and waits 3 s     *)
(* for the answer, whose number it does not look at.  The port stays open after     *)
(* every failure.                                                                    *)
EXTENDS Vend

CONSTANTS MaxFd      \* descriptors the process may open for the terminal, 1020 or so

VARIABLES d          \* [waiting, seq, leak]: in pos_wait_result; seqnum; descriptors never closed

posVars == <<fj, term, sale, d>>

PosInit == VendInit /\ d = [waiting |-> FALSE, seq |-> 0, leak |-> 0]

PosCmd(c) == ~d.waiting /\ handle_pro(c) /\ UNCHANGED d

\* The frame loop: characters 100 ms apart, noise and unknown commands change nothing; a failing port is
\* opened anew by main, and the statics stay.
CW ==
  /\ ~d.waiting /\ d.seq < MaxSeq
  /\ fj' = [fj EXCEPT !.sl = FALSE]
  /\ IF ~fj.pd \/ d.leak >= MaxFd
       THEN UNCHANGED <<term, d>>
       ELSE /\ term' = [term EXCEPT !.asked = @ \cup {d.seq}]
            /\ d' = [d EXCEPT !.waiting = TRUE, !.seq = @ + 1]
  /\ UNCHANGED sale

\* Mutant: a request for patience is not a refusal.
WaitIsFine(a) == IF a \in {"ok", "wait"} THEN "OK" ELSE "NOK"

\* pos_wait_result and what send_deduct_money2pos makes of it: the checksum is not tested.
CwAnswer(a) == IF a = "ok" THEN "OK" ELSE "NOK"

Result(r) ==
  /\ d' = [d EXCEPT !.waiting = FALSE, !.leak = IF r = "OK" THEN @ ELSE @ + 1]
  /\ sale' = [sale EXCEPT !.oks = IF r = "OK" THEN @ + 1 ELSE @]

\* An answer arrives: taken for the one waited for, or flushed when the port is opened next.  One that is
\* disturbed on the line ends the wait too.
Arrive(a) ==
  /\ a \in term.due /\ term' = [term EXCEPT !.due = @ \ {a}]
  /\ IF d.waiting THEN Result(CwAnswer(a.code)) \/ Result("NOK") ELSE UNCHANGED <<d, sale>>
  /\ UNCHANGED fj

\* 3 s are over.
DeductTimeout == d.waiting /\ Result("NOK") /\ UNCHANGED <<fj, term>>

PosNext ==
  \/ \E c \in Cmds : PosCmd(c)
  \/ CW \/ DeductTimeout
  \/ \E n \in term.asked : Answer(n) /\ UNCHANGED <<fj, sale, d>>
  \/ \E a \in term.due : Arrive(a)

PosSpec == PosInit /\ [][PosNext]_posVars
=============================================================================
