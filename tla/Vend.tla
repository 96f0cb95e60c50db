--------------------------------- MODULE Vend ---------------------------------
(* What the two vending machine boards (pos-salemachine: a Linux daemon, Pos, and *)
(* a uC/OS application, VtsPos) have in common: the machine's commands but for CW, *)
(* and the card terminal, which is external.  A terminal deducts for a request at  *)
(* most once; it may answer at any later time, refuse, or ask for patience.        *)
EXTENDS Naturals, FiniteSets

CONSTANTS Cmds,      \* the machine's commands but for CW: PD, CR, CP, CE, LR, NS, SL
          Refusals,  \* the terminal's answers but for "ok": no card, an error, or wait, which it does not leave at
          MaxSeq     \* bound: requests

VARIABLES fj,     \* the statics of the handler: [pd, cp, sl]
          term,   \* the terminal: [asked, took, due]: requests it has, those it deducted for, answers to come
          sale    \* for the properties: [oks]: sales granted

vendVars == <<fj, term, sale>>

VendInit ==
  /\ fj = [pd |-> FALSE, cp |-> FALSE, sl |-> FALSE]
  /\ term = [asked |-> {}, took |-> {}, due |-> {}]
  /\ sale = [oks |-> 0]

\* Before PD every command is answered PW.  CP lets cards in, SL and NS note whether something is chosen.
handle_pro(c) ==
  /\ fj' = CASE c = "PD" -> [fj EXCEPT !.pd = TRUE]
             [] c = "CP" /\ fj.pd -> [fj EXCEPT !.cp = TRUE]
             [] c = "SL" /\ fj.pd -> [fj EXCEPT !.sl = TRUE]
             [] c = "NS" -> [fj EXCEPT !.sl = FALSE]
             [] OTHER -> fj
  /\ UNCHANGED <<term, sale>>

-----------------------------------------------------------------------------
(* The terminal *)

\* The answer to a request; one it deducted for already is answered again.
Answer(n) ==
  /\ n \in term.asked
  /\ \E a \in Refusals \cup {"ok"} :
       /\ n \in term.took => a = "ok"
       /\ term' = [asked |-> IF a = "wait" THEN term.asked ELSE term.asked \ {n},
                   took |-> IF a = "ok" THEN term.took \cup {n} ELSE term.took,
                   due |-> term.due \cup {[seq |-> n, code |-> a]}]

\* Never more sales than deductions, on either vending board: what a late or repeated answer of the
\* terminal pays for is paid for once (send_deduct_money2pos, pos_recv_task).
GoodsPaid == sale.oks <= Cardinality(term.took)
=============================================================================
