-------------------------------- MODULE VtsPos --------------------------------
(* The uC/OS vending application.  vts_recv_task (priority 3) talks to the machine, *)
(* pos_recv_task (priority 4) to the terminal; each posts to a mailbox of the other, *)
(* and VTS_MAIL_FLAG, NO_WAIT and VTS_BALANCE are shared.  A step ends where a task  *)
(* blocks, or where the other one may preempt it to some effect; the interrupts       *)
(* fill the receive buffers.  The kernel's mailboxes hold one message (external).     *)
EXTENDS Vend

CONSTANTS TtCount,   \* VTS_TT_COUNT, 9
          MaxRepeat  \* repeats of one request, 4

VARIABLES v,     \* vts_recv_task: [pc, timeout]
          p,     \* pos_recv_task: [pc, cur, seq, st, rep]
          m,     \* VTS_MAIL_FLAG, NO_WAIT, VTS_BALANCE (whether it is 0) and the two mailboxes
          rx     \* glb_pos_buffer with its end mark: an answer, or NoFrame

vtsVars == <<fj, term, sale, v, p, m, rx>>

NoFrame == [seq |-> 0, code |-> "none"]

VtsInit ==
  /\ VendInit
  /\ v = [pc |-> "loop", timeout |-> 0]
  /\ p = [pc |-> "pend", cur |-> 0, seq |-> 0, st |-> "none", rep |-> 0]
  /\ m = [flag |-> FALSE, nowait |-> FALSE, zero |-> TRUE, vts |-> FALSE, pos |-> FALSE]
  /\ rx = NoFrame

-----------------------------------------------------------------------------
(* vts_recv_task *)

\* The top of the loop: with a request under way, wait a second for the result.
Waiting == ~m.nowait /\ m.flag

VtsTop ==
  /\ v.pc = "loop" /\ Waiting
  /\ v' = [pc |-> IF v.timeout < TtCount THEN "pend" ELSE "frame", timeout |-> v.timeout + 1]
  /\ UNCHANGED <<fj, term, sale, p, m, rx>>

\* Then, or without a wait, a frame of the machine is looked for.
Frame == v.pc = "frame" \/ (v.pc = "loop" /\ ~Waiting)

VtsMail ==
  /\ v.pc = "pend" /\ m.pos
  /\ m' = [m EXCEPT !.pos = FALSE, !.flag = FALSE]
  /\ v' = [pc |-> "frame", timeout |-> 0]
  /\ sale' = [sale EXCEPT !.oks = @ + 1]
  /\ UNCHANGED <<fj, term, p, rx>>

\* A second is over, in which the other task, whose round takes some 50 ms, has emptied its mailbox.
\* After the last second the machine is refused; the terminal is not told.
VtsTimeout ==
  /\ v.pc = "pend" /\ ~m.pos /\ ~m.vts
  /\ IF v.timeout >= TtCount - 1
       THEN /\ m' = [m EXCEPT !.flag = FALSE, !.zero = TRUE, !.nowait = TRUE]
            /\ v' = [pc |-> "frame", timeout |-> 0]
       ELSE v' = [v EXCEPT !.pc = "frame"] /\ UNCHANGED m
  /\ UNCHANGED <<fj, term, sale, p, rx>>

\* Mutant: the new request does not end the pause the last timeout began.
StillNoWait(z) == [m EXCEPT !.zero = z, !.vts = TRUE]

Posted(z) == [m EXCEPT !.zero = z, !.vts = TRUE, !.nowait = FALSE]

\* CW with an amount of 0 or another; the answer follows later, and SL_FLAG stays.  With a request still
\* in the mailbox, or before PD, it is answered now.
VtsCW(z) ==
  /\ Frame /\ p.seq < MaxSeq
  /\ IF fj.pd /\ ~m.vts THEN m' = Posted(z) /\ UNCHANGED fj
       ELSE fj' = [fj EXCEPT !.sl = FALSE] /\ m' = IF fj.pd THEN [m EXCEPT !.zero = z] ELSE m
  /\ v' = [v EXCEPT !.pc = "loop"]
  /\ UNCHANGED <<term, sale, p, rx>>

\* No frame, ENQ, a wrong checksum or an unknown command.
VtsNoFrame == Frame /\ v' = [v EXCEPT !.pc = "loop"] /\ UNCHANGED <<fj, term, sale, p, m, rx>>

VtsCmd(c) == Frame /\ handle_pro(c) /\ v' = [v EXCEPT !.pc = "loop"] /\ UNCHANGED <<p, m, rx>>

-----------------------------------------------------------------------------
(* pos_recv_task, while the other task is delayed or pending *)

\* It never runs while a mail the other task waits for is there; and a round starts 10 ms after the last
\* one ended, when that task's own 10 ms, which began earlier, are over.
PosRuns(pc) ==
  /\ p.pc = pc /\ v.pc # "frame"
  /\ m.pos => IF pc = "pend" THEN ~m.flag ELSE v.pc # "pend"

\* An amount of 0 cancels the request under way; another amount is a new request, unless one is under way.
PosMail ==
  /\ PosRuns("pend") /\ m.vts
  /\ IF m.zero
       THEN /\ m' = [m EXCEPT !.vts = FALSE, !.flag = FALSE]
            /\ p' = [p EXCEPT !.pc = "rx", !.st = "none", !.rep = 0]
            /\ term' = IF m.flag THEN [term EXCEPT !.asked = @ \ ({p.cur} \ term.took)] ELSE term
       ELSE IF m.flag THEN m' = [m EXCEPT !.vts = FALSE] /\ p' = [p EXCEPT !.pc = "rx"] /\ UNCHANGED term
       ELSE /\ m' = [m EXCEPT !.vts = FALSE, !.flag = TRUE]
            /\ p' = [pc |-> "rx", cur |-> p.seq, seq |-> p.seq + 1, st |-> "none", rep |-> 0]
            /\ term' = [term EXCEPT !.asked = @ \cup {p.seq}]
  /\ UNCHANGED <<fj, sale, v, rx>>

PosNoMail == PosRuns("pend") /\ ~m.vts /\ p' = [p EXCEPT !.pc = "rx"] /\ UNCHANGED <<fj, term, sale, v, m, rx>>

\* Mutant: an answer is taken whatever its number is.
AnySeq(a) == a # NoFrame

Current(a) == a # NoFrame /\ a.seq = p.cur

\* The answer is for the request of the moment: a success goes to the other task if that one still waits.
PosRx ==
  /\ PosRuns("rx")
  /\ p' = [p EXCEPT !.pc = IF Current(rx) /\ rx.code = "ok" /\ m.flag THEN "post" ELSE "again",
                    !.st = IF Current(rx) THEN rx.code ELSE @]
  /\ rx' = NoFrame
  /\ UNCHANGED <<fj, term, sale, v, m>>

\* The other task may have given up since the flag was tested.
PosPost ==
  /\ PosRuns("post") /\ m' = [m EXCEPT !.pos = TRUE] /\ p' = [p EXCEPT !.pc = "again"]
  /\ UNCHANGED <<fj, term, sale, v, rx>>

\* Without a card the request is sent again, every 40 rounds; after 175 rounds no more.
PosAgain ==
  /\ PosRuns("again")
  /\ \/ /\ p.st = "nocard" /\ m.flag /\ p.rep < MaxRepeat
        /\ term' = [term EXCEPT !.asked = @ \cup {p.cur}] /\ p' = [p EXCEPT !.pc = "pend", !.rep = @ + 1]
     \/ p' = [p EXCEPT !.pc = "pend"] /\ UNCHANGED term
  /\ UNCHANGED <<fj, sale, v, m, rx>>

\* The interrupt: bytes that come before the last answer is handled are dropped, and a disturbed answer is
\* marked as one that is not supported or fails its checksum.
PosIrq(a) ==
  /\ a \in term.due /\ term' = [term EXCEPT !.due = @ \ {a}]
  /\ rx' \in (IF rx = NoFrame THEN {a, NoFrame} ELSE {rx})
  /\ UNCHANGED <<fj, sale, v, p, m>>

Vts == VtsTop \/ VtsMail \/ VtsTimeout \/ VtsNoFrame \/ (\E c \in Cmds : VtsCmd(c)) \/ \E z \in BOOLEAN : VtsCW(z)

PosTask == PosMail \/ PosNoMail \/ PosRx \/ PosPost \/ PosAgain

VtsNext ==
  \/ Vts \/ PosTask
  \/ \E n \in term.asked : Answer(n) /\ UNCHANGED <<fj, sale, v, p, m, rx>>
  \/ \E a \in term.due : PosIrq(a)

VtsSpec == VtsInit /\ [][VtsNext]_vtsVars

-----------------------------------------------------------------------------
\* The wait for a result ends, with an answer to the machine or a cancelled request.
WaitEnds == m.flag ~> ~m.flag
=============================================================================
