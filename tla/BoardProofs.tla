------------------------------ MODULE BoardProofs ------------------------------
(* Proofs about the programs of four boards: the two vending machine boards, the     *)
(* serial to TCP bridge in the second part, and the bed sensor in the third.          *)
EXTENDS Pos, VtsPos, TcpTty, Bed, FiniteSetTheorems, SequenceTheorems, WellFoundedInduction, TLAPS

-----------------------------------------------------------------------------
(* On neither vending board are there ever more sales than deductions, whatever    *)
(* the terminal refuses, repeats or answers late.                                   *)
(*                                                                                  *)
(* The Linux board (Pos) does not look at the number of an answer, so what counts   *)
(* is that a success can be taken once: PosPaid sets aside the deductions whose     *)
(* success is still under way, and each of the others has paid for one sale.        *)
(*                                                                                  *)
(* On the uC/OS board (VtsPos) a success passes through a mailbox, and the task     *)
(* that waits for it may have given up before it is posted.  Credit counts a posted *)
(* success as a sale; VtsPaid says in which states of pos_recv_task the current     *)
(* request is not among those it was counted for, so that its success may be posted *)
(* once more.                                                                       *)

Success(n) == [seq |-> n, code |-> "ok"]

\* Taking one number of a finite set away takes away at most one, and one if it is there; more numbers
\* are not fewer.
LEMMA OneLess ==
  ASSUME NEW S, IsFiniteSet(S), NEW x
  PROVE  /\ IsFiniteSet(S \ {x}) /\ Cardinality(S \ {x}) \in Nat /\ Cardinality(S) \in Nat
         /\ x \in S => Cardinality(S) = Cardinality(S \ {x}) + 1
         /\ x \notin S => S \ {x} = S
  <1>1. IsFiniteSet(S \ {x}) BY FS_Subset, S \ {x} \subseteq S
  <1>2. Cardinality(S \ {x}) \in Nat /\ Cardinality(S) \in Nat BY <1>1, FS_CardinalityType
  <1>3. ASSUME x \in S PROVE Cardinality(S) = Cardinality(S \ {x}) + 1
    <2>1. Cardinality(S \ {x}) = Cardinality(S) - 1 BY <1>3, FS_RemoveElement
    <2> QED BY <2>1, <1>2
  <1> QED BY <1>1, <1>2, <1>3

LEMMA NotFewer ==
  ASSUME NEW T, IsFiniteSet(T), NEW S, S \subseteq T
  PROVE  IsFiniteSet(S) /\ Cardinality(S) \in Nat /\ Cardinality(T) \in Nat /\ Cardinality(S) <= Cardinality(T)
  BY FS_Subset, FS_CardinalityType

-----------------------------------------------------------------------------
(* What both boards' invariants begin with *)

\* A success names a request the terminal deducted for; of those there are finitely many.
TermInv ==
  /\ term = [asked |-> term.asked, took |-> term.took, due |-> term.due]
  /\ sale = [oks |-> sale.oks] /\ sale.oks \in Nat
  /\ IsFiniteSet(term.took)
  /\ \A a \in term.due : a = [seq |-> a.seq, code |-> a.code] /\ (a.code = "ok" => a.seq \in term.took)

LEMMA TermInit ==
  ASSUME VendInit
  PROVE  TermInv /\ term.asked = {} /\ term.took = {} /\ sale.oks = 0 /\ Cardinality(term.took) = 0
  BY FS_EmptySet DEF VendInit, TermInv

\* What an answer of the terminal changes: either a number leaves for the deductions with its success on
\* the way, or nothing is deducted.
LEMMA AnswerEffect ==
  ASSUME TermInv, NEW n \in term.asked, Answer(n), UNCHANGED sale
  PROVE  /\ TermInv'
         /\ term'.asked \subseteq term.asked /\ term.took \subseteq term'.took
         /\ term'.took \subseteq term.took \cup {n}
         /\ \/ term'.took = term.took \cup {n} /\ term'.asked = term.asked \ {n}
               /\ term'.due = term.due \cup {Success(n)}
            \/ term'.took = term.took /\ \E a : a # "ok" /\ term'.due = term.due \cup {[seq |-> n, code |-> a]}
  <1>1. PICK a \in Refusals \cup {"ok"} :
          term' = [asked |-> IF a = "wait" THEN term.asked ELSE term.asked \ {n},
                   took |-> IF a = "ok" THEN term.took \cup {n} ELSE term.took,
                   due |-> term.due \cup {[seq |-> n, code |-> a]}]
    BY DEF Answer
  <1>2. IsFiniteSet(term.took \cup {n}) BY FS_AddElement DEF TermInv
  <1>3. term' = [asked |-> term'.asked, took |-> term'.took, due |-> term'.due] BY <1>1
  <1>4. CASE a = "ok"
    <2>1. term'.took = term.took \cup {n} /\ term'.asked = term.asked \ {n} /\ term'.due = term.due \cup {Success(n)}
      BY <1>1, <1>4 DEF Success
    <2>2. \A x \in term'.due : x = [seq |-> x.seq, code |-> x.code] /\ (x.code = "ok" => x.seq \in term'.took)
      BY <2>1 DEF TermInv, Success
    <2>3. TermInv' BY <1>2, <1>3, <2>1, <2>2 DEF TermInv
    <2> QED BY <2>1, <2>3
  <1>5. CASE a # "ok"
    <2>1. term'.took = term.took /\ term'.asked \subseteq term.asked
          /\ term'.due = term.due \cup {[seq |-> n, code |-> a]}
      BY <1>1, <1>5
    <2>2. \A x \in term'.due : x = [seq |-> x.seq, code |-> x.code] /\ (x.code = "ok" => x.seq \in term'.took)
      BY <2>1, <1>5 DEF TermInv
    <2>3. TermInv' BY <1>3, <2>1, <2>2 DEF TermInv
    <2> QED BY <1>5, <2>1, <2>3
  <1> QED BY <1>4, <1>5

-----------------------------------------------------------------------------
(* The Linux board *)

\* Deductions whose success has not arrived yet.
Pending == {n \in term.took : Success(n) \in term.due}

\* A request the terminal still has, and one it deducted for, has a number that was given out, and it has
\* none that it deducted for: it deducts at most once for each.
PosNumbers ==
  /\ d = [waiting |-> d.waiting, seq |-> d.seq, leak |-> d.leak]
  /\ d.seq \in Nat
  /\ \A n \in term.asked \cup term.took : n \in Nat /\ n < d.seq
  /\ term.asked \cap term.took = {}

\* Each deduction whose success has arrived has paid for at most one sale.
PosPaid == sale.oks <= Cardinality(term.took \ Pending)

PosInv == TermInv /\ PosNumbers /\ PosPaid

LEMMA PosInvInit == PosInit => PosInv
  <1> SUFFICES ASSUME PosInit PROVE PosInv OBVIOUS
  <1>1. VendInit /\ d = [waiting |-> FALSE, seq |-> 0, leak |-> 0] BY DEF PosInit
  <1>2. TermInv /\ term.asked = {} /\ term.took = {} /\ sale.oks = 0 BY <1>1, TermInit
  <1>3. term.took \ Pending = {} BY <1>2
  <1>4. PosPaid BY <1>2, <1>3, FS_EmptySet DEF PosPaid
  <1>5. PosNumbers BY <1>1, <1>2 DEF PosNumbers
  <1> QED BY <1>2, <1>4, <1>5 DEF PosInv

\* PosPaid holds as long as the sales stay as they are and no deduction's success returns to the way.
LEMMA PosPaidKept ==
  ASSUME PosInv, TermInv', sale'.oks = sale.oks, (term.took \ Pending) \subseteq (term'.took \ Pending')
  PROVE  PosPaid'
  <1>1. IsFiniteSet(term'.took \ Pending') BY FS_Subset, (term'.took \ Pending') \subseteq term'.took DEF TermInv
  <1>2. Cardinality(term.took \ Pending) <= Cardinality(term'.took \ Pending')
        /\ Cardinality(term.took \ Pending) \in Nat /\ Cardinality(term'.took \ Pending') \in Nat
    BY <1>1, NotFewer
  <1>3. sale.oks \in Nat /\ sale.oks <= Cardinality(term.took \ Pending) BY DEF PosInv, PosPaid, TermInv
  <1>4. sale'.oks <= Cardinality(term'.took \ Pending') BY <1>2, <1>3
  <1> QED BY <1>4 DEF PosPaid

LEMMA PosArrive ==
  ASSUME PosInv, NEW a \in term.due, Arrive(a)
  PROVE  PosInv'
  <1>1. term' = [term EXCEPT !.due = @ \ {a}] BY DEF Arrive
  <1>2. term'.asked = term.asked /\ term'.took = term.took /\ term'.due = term.due \ {a}
        /\ term' = [asked |-> term'.asked, took |-> term'.took, due |-> term'.due]
    BY <1>1 DEF PosInv, TermInv
  <1>3. a = [seq |-> a.seq, code |-> a.code] /\ (a.code = "ok" => a.seq \in term.took) BY DEF PosInv, TermInv
  <1>4. \/ sale' = sale
        \/ a.code = "ok" /\ sale' = [sale EXCEPT !.oks = @ + 1]
    <2>1. \/ sale' = sale \/ sale' = [sale EXCEPT !.oks = sale.oks]
          \/ CwAnswer(a.code) = "OK" /\ sale' = [sale EXCEPT !.oks = sale.oks + 1]
      BY DEF Arrive, Result
    <2>2. [sale EXCEPT !.oks = sale.oks] = sale BY DEF PosInv, TermInv
    <2>3. CwAnswer(a.code) = "OK" => a.code = "ok" BY DEF CwAnswer
    <2> QED BY <2>1, <2>2, <2>3
  <1>5. sale' = [oks |-> sale'.oks] /\ sale'.oks \in Nat BY <1>4 DEF PosInv, TermInv
  <1>6. TermInv' BY <1>2, <1>5 DEF PosInv, TermInv
  <1>7. PosNumbers'
    <2>1. d' = d \/ (d' = [d EXCEPT !.waiting = FALSE, !.leak = @ + 1]) \/ (d' = [d EXCEPT !.waiting = FALSE, !.leak = @])
      BY DEF Arrive, Result
    <2>2. d' = [waiting |-> d'.waiting, seq |-> d'.seq, leak |-> d'.leak] /\ d'.seq = d.seq
      BY <2>1 DEF PosInv, PosNumbers
    <2> QED BY <2>2, <1>2 DEF PosInv, PosNumbers
  <1>8. (term.took \ Pending) \subseteq (term'.took \ Pending') BY <1>2 DEF Pending
  <1>9. PosPaid'
    <2>1. CASE sale' = sale BY <2>1, <1>6, <1>8, PosPaidKept
    <2>2. CASE a.code = "ok" /\ sale' = [sale EXCEPT !.oks = @ + 1]
      <3> DEFINE S == term'.took \ Pending'
      <3>1. a = Success(a.seq) /\ a.seq \in term.took BY <2>2, <1>3 DEF Success
      <3>2. a.seq \in S BY <3>1, <1>2 DEF Pending
      <3>3. (term.took \ Pending) \subseteq (S \ {a.seq}) BY <3>1, <1>8 DEF Pending
      <3>4. IsFiniteSet(S) BY <1>6, FS_Subset, S \subseteq term'.took DEF TermInv
      <3>5. /\ IsFiniteSet(S \ {a.seq}) /\ Cardinality(S \ {a.seq}) \in Nat
            /\ Cardinality(S) = Cardinality(S \ {a.seq}) + 1
        BY <3>2, <3>4, OneLess
      <3>6. Cardinality(term.took \ Pending) <= Cardinality(S \ {a.seq}) /\ Cardinality(term.took \ Pending) \in Nat
        BY <3>3, <3>5, NotFewer
      <3>7. sale'.oks = sale.oks + 1 /\ sale.oks \in Nat BY <2>2 DEF PosInv, TermInv
      <3>8. sale.oks <= Cardinality(term.took \ Pending) BY DEF PosInv, PosPaid
      <3>9. sale'.oks <= Cardinality(S) BY <3>5, <3>6, <3>7, <3>8
      <3> QED BY <3>9 DEF PosPaid
    <2> QED BY <2>1, <2>2, <1>4
  <1> QED BY <1>6, <1>7, <1>9 DEF PosInv

LEMMA PosAnswer ==
  ASSUME PosInv, NEW n \in term.asked, Answer(n), UNCHANGED <<fj, sale, d>>
  PROVE  PosInv'
  <1>1. TermInv BY DEF PosInv
  <1>2. /\ TermInv'
        /\ term'.asked \subseteq term.asked /\ term'.took \subseteq term.took \cup {n}
        /\ \/ term'.took = term.took \cup {n} /\ term'.asked = term.asked \ {n}
              /\ term'.due = term.due \cup {Success(n)}
           \/ term'.took = term.took /\ \E a : a # "ok" /\ term'.due = term.due \cup {[seq |-> n, code |-> a]}
    BY <1>1, AnswerEffect
  <1>3. n \notin term.took BY DEF PosInv, PosNumbers
  <1>4. PosNumbers'
    <2>1. \A k \in term'.asked \cup term'.took : k \in Nat /\ k < d.seq BY <1>2 DEF PosInv, PosNumbers
    <2>2. term'.asked \cap term'.took = {} BY <1>2 DEF PosInv, PosNumbers
    <2> QED BY <2>1, <2>2 DEF PosInv, PosNumbers
  <1>5. (term.took \ Pending) \subseteq (term'.took \ Pending') BY <1>2, <1>3 DEF Pending, Success
  <1>6. PosPaid' BY <1>2, <1>5, PosPaidKept
  <1> QED BY <1>2, <1>4, <1>6 DEF PosInv

LEMMA PosCW ==
  ASSUME PosInv, CW
  PROVE  PosInv'
  <1>1. \/ UNCHANGED <<term, d>>
        \/ /\ term' = [term EXCEPT !.asked = @ \cup {d.seq}]
           /\ d' = [d EXCEPT !.waiting = TRUE, !.seq = @ + 1]
    BY DEF CW
  <1>2. sale' = sale BY DEF CW
  <1>3. CASE UNCHANGED <<term, d>> BY <1>2, <1>3 DEF PosInv, TermInv, PosNumbers, PosPaid, Pending
  <1>4. CASE /\ term' = [term EXCEPT !.asked = @ \cup {d.seq}]
             /\ d' = [d EXCEPT !.waiting = TRUE, !.seq = @ + 1]
    <2>1. term'.asked = term.asked \cup {d.seq} /\ term'.took = term.took /\ term'.due = term.due
          /\ term' = [asked |-> term'.asked, took |-> term'.took, due |-> term'.due]
      BY <1>4 DEF PosInv, TermInv
    <2>2. d' = [waiting |-> d'.waiting, seq |-> d'.seq, leak |-> d'.leak] /\ d'.seq = d.seq + 1
      BY <1>4 DEF PosInv, PosNumbers
    <2>3. TermInv' BY <1>2, <2>1 DEF PosInv, TermInv
    <2>4. \A k \in term'.asked \cup term'.took : k \in Nat /\ k < d'.seq BY <2>1, <2>2 DEF PosInv, PosNumbers
    <2>5. d.seq \notin term.took BY DEF PosInv, PosNumbers
    <2>6. PosNumbers' BY <2>1, <2>2, <2>4, <2>5 DEF PosInv, PosNumbers
    <2>7. PosPaid' BY <1>2, <2>1 DEF PosInv, PosPaid, Pending
    <2> QED BY <2>3, <2>6, <2>7 DEF PosInv
  <1> QED BY <1>1, <1>3, <1>4

LEMMA PosInvStep == PosInv /\ [PosNext]_posVars => PosInv'
  <1> SUFFICES ASSUME PosInv, [PosNext]_posVars PROVE PosInv' OBVIOUS
  <1>1. ASSUME NEW c \in Cmds, PosCmd(c) PROVE PosInv'
    BY <1>1 DEF PosCmd, handle_pro, PosInv, TermInv, PosNumbers, PosPaid, Pending
  <1>2. CASE CW BY <1>2, PosCW
  <1>3. CASE DeductTimeout
    <2>1. term' = term /\ sale' = [sale EXCEPT !.oks = @] /\ d' = [d EXCEPT !.waiting = FALSE, !.leak = @ + 1]
      BY <1>3 DEF DeductTimeout, Result
    <2>2. sale' = sale BY <2>1 DEF PosInv, TermInv
    <2>3. d' = [waiting |-> d'.waiting, seq |-> d'.seq, leak |-> d'.leak] /\ d'.seq = d.seq
      BY <2>1 DEF PosInv, PosNumbers
    <2> QED BY <2>1, <2>2, <2>3 DEF PosInv, TermInv, PosNumbers, PosPaid, Pending
  <1>4. ASSUME NEW n \in term.asked, Answer(n), UNCHANGED <<fj, sale, d>> PROVE PosInv' BY <1>4, PosAnswer
  <1>5. ASSUME NEW a \in term.due, Arrive(a) PROVE PosInv' BY <1>5, PosArrive
  <1>6. CASE UNCHANGED posVars BY <1>6 DEF posVars, PosInv, TermInv, PosNumbers, PosPaid, Pending
  <1> QED BY <1>1, <1>2, <1>3, <1>4, <1>5, <1>6 DEF PosNext

LEMMA PosInvPays == PosInv => GoodsPaid
  <1> SUFFICES ASSUME PosInv PROVE GoodsPaid OBVIOUS
  <1>1. Cardinality(term.took \ Pending) <= Cardinality(term.took)
        /\ Cardinality(term.took \ Pending) \in Nat /\ Cardinality(term.took) \in Nat
    BY NotFewer, (term.took \ Pending) \subseteq term.took DEF PosInv, TermInv
  <1> QED BY <1>1 DEF PosInv, PosPaid, TermInv, GoodsPaid

\* Never more sales than deductions on the Linux board (pos_wait_result, send_deduct_money2pos).
THEOREM PosSalesPaid == PosSpec => []GoodsPaid
  BY PosInvInit, PosInvStep, PosInvPays, PTL DEF PosSpec

-----------------------------------------------------------------------------
(* The uC/OS board *)

\* Sales granted and successes in the mailbox.
Credit == sale.oks + (IF m.pos THEN 1 ELSE 0)

\* The deductions but for the current request's.
Others == term.took \ {p.cur}

\* Requests are numbered upwards, and with a request under way its number was given out.
VtsNumbers ==
  /\ p = [pc |-> p.pc, cur |-> p.cur, seq |-> p.seq, st |-> p.st, rep |-> p.rep]
  /\ p.pc \in {"pend", "rx", "post", "again"} /\ p.seq \in Nat
  /\ m = [flag |-> m.flag, nowait |-> m.nowait, zero |-> m.zero, vts |-> m.vts, pos |-> m.pos]
  /\ m.flag \in BOOLEAN /\ m.pos \in BOOLEAN
  /\ v = [pc |-> v.pc, timeout |-> v.timeout] /\ v.pc \in {"loop", "pend", "frame"}
  /\ \A n \in term.asked \cup term.took : n \in Nat /\ n < p.seq
  /\ m.flag => p.cur \in Nat /\ p.cur < p.seq
  /\ rx.code = "ok" => rx.seq \in term.took

\* The current request was not counted while its success may still be posted: until it is received if it
\* is waited for, then whether or not; and once the task is past that, only a success in the mailbox,
\* behind which the task does not go on to the next mail, can be the current request's.
VtsPaid ==
  /\ Credit <= Cardinality(term.took)
  /\ m.flag /\ p.pc = "rx" => Credit <= Cardinality(Others)
  /\ p.pc = "post" => p.cur \in term.took /\ Credit <= Cardinality(Others)
  /\ m.flag /\ ~m.pos => Credit <= Cardinality(Others)

VtsInv == TermInv /\ VtsNumbers /\ VtsPaid

LEMMA VtsInvInit == VtsInit => VtsInv
  <1> SUFFICES ASSUME VtsInit PROVE VtsInv OBVIOUS
  <1>1. TermInv /\ term.asked = {} /\ term.took = {} /\ sale.oks = 0 /\ Cardinality(term.took) = 0
    BY TermInit DEF VtsInit
  <1>2. VtsNumbers BY <1>1 DEF VtsInit, VtsNumbers, NoFrame
  <1>3. VtsPaid BY <1>1 DEF VtsInit, VtsPaid, Credit
  <1> QED BY <1>1, <1>2, <1>3 DEF VtsInv

\* Without a new deduction only the tasks' state and the mailbox matter.
LEMMA VtsCounts ==
  ASSUME VtsInv
  PROVE  /\ Credit \in Nat /\ sale.oks \in Nat
         /\ Cardinality(term.took) \in Nat /\ Cardinality(Others) \in Nat
         /\ p.cur \in term.took => Cardinality(term.took) = Cardinality(Others) + 1
         /\ m.pos => Credit = sale.oks + 1
         /\ ~m.pos => Credit = sale.oks
  <1>1. IsFiniteSet(term.took) /\ sale.oks \in Nat BY DEF VtsInv, TermInv
  <1>2. Credit \in Nat /\ (m.pos => Credit = sale.oks + 1) /\ (~m.pos => Credit = sale.oks) BY <1>1 DEF Credit
  <1> QED BY <1>1, <1>2, OneLess DEF Others

\* vts_recv_task deducts nothing and leaves the other task alone: it takes the mail and counts it, or
\* stops waiting.
LEMMA VtsStep ==
  ASSUME VtsInv, UNCHANGED <<term, p, rx>>, m' = [flag |-> m'.flag, nowait |-> m'.nowait, zero |-> m'.zero,
                                                  vts |-> m'.vts, pos |-> m'.pos],
         v' = [pc |-> v'.pc, timeout |-> v'.timeout], v'.pc \in {"loop", "pend", "frame"},
         \/ m'.flag = m.flag /\ m'.pos = m.pos /\ sale' = sale
         \/ m'.flag = FALSE /\ m'.pos = m.pos /\ sale' = sale
         \/ m.pos /\ m'.flag = FALSE /\ m'.pos = FALSE /\ sale' = [sale EXCEPT !.oks = @ + 1]
  PROVE  VtsInv'
  <1>1. sale' = [oks |-> sale'.oks] /\ sale'.oks \in Nat BY DEF VtsInv, TermInv
  <1>2. TermInv' BY <1>1 DEF VtsInv, TermInv
  <1>3. VtsNumbers' BY DEF VtsInv, VtsNumbers
  <1>4. Credit' = Credit
    <2>1. m'.pos = m.pos /\ sale'.oks = sale.oks => Credit' = Credit BY DEF Credit
    <2>2. m.pos /\ m'.pos = FALSE /\ sale' = [sale EXCEPT !.oks = @ + 1] => Credit' = Credit
      BY DEF Credit, VtsInv, TermInv
    <2> QED BY <2>1, <2>2
  <1>5. Cardinality(Others)' = Cardinality(Others) /\ Cardinality(term.took)' = Cardinality(term.took) BY DEF Others
  <1>6. VtsPaid' BY <1>4, <1>5 DEF VtsInv, VtsPaid
  <1> QED BY <1>2, <1>3, <1>6 DEF VtsInv

LEMMA VtsTaskStep == VtsInv /\ Vts => VtsInv'
  <1> SUFFICES ASSUME VtsInv, Vts PROVE VtsInv' OBVIOUS
  <1> USE DEF VtsInv, VtsNumbers
  <1>1. CASE VtsTop BY <1>1, VtsStep DEF VtsTop
  <1>2. CASE VtsMail
    <2>1. m' = [m EXCEPT !.pos = FALSE, !.flag = FALSE] /\ v' = [pc |-> "frame", timeout |-> 0]
          /\ sale' = [sale EXCEPT !.oks = @ + 1] /\ m.pos /\ UNCHANGED <<term, p, rx>>
      BY <1>2 DEF VtsMail
    <2>2. m'.flag = FALSE /\ m'.pos = FALSE /\ m' = [flag |-> m'.flag, nowait |-> m'.nowait, zero |-> m'.zero,
                                                     vts |-> m'.vts, pos |-> m'.pos]
      BY <2>1
    <2> QED BY <2>1, <2>2, VtsStep
  <1>3. CASE VtsTimeout
    <2>1. v' = [pc |-> "frame", timeout |-> 0] \/ v' = [v EXCEPT !.pc = "frame"] BY <1>3 DEF VtsTimeout
    <2>2. m' = [m EXCEPT !.flag = FALSE, !.zero = TRUE, !.nowait = TRUE] \/ m' = m BY <1>3 DEF VtsTimeout
    <2>3. (m'.flag = m.flag \/ m'.flag = FALSE) /\ m'.pos = m.pos
          /\ m' = [flag |-> m'.flag, nowait |-> m'.nowait, zero |-> m'.zero, vts |-> m'.vts, pos |-> m'.pos]
      BY <2>2
    <2>4. v' = [pc |-> v'.pc, timeout |-> v'.timeout] /\ v'.pc = "frame" BY <2>1
    <2>5. UNCHANGED <<term, p, rx>> /\ sale' = sale BY <1>3 DEF VtsTimeout
    <2> QED BY <2>3, <2>4, <2>5, VtsStep
  <1>4. CASE VtsNoFrame BY <1>4, VtsStep DEF VtsNoFrame
  <1>5. ASSUME NEW c \in Cmds, VtsCmd(c) PROVE VtsInv' BY <1>5, VtsStep DEF VtsCmd, handle_pro
  <1>6. ASSUME NEW z \in BOOLEAN, VtsCW(z) PROVE VtsInv'
    <2>1. m' = Posted(z) \/ m' = [m EXCEPT !.zero = z] \/ m' = m BY <1>6 DEF VtsCW
    <2>2. m'.flag = m.flag /\ m'.pos = m.pos
          /\ m' = [flag |-> m'.flag, nowait |-> m'.nowait, zero |-> m'.zero, vts |-> m'.vts, pos |-> m'.pos]
      BY <2>1 DEF Posted
    <2> QED BY <1>6, <2>2, VtsStep DEF VtsCW
  <1> QED BY <1>1, <1>2, <1>3, <1>4, <1>5, <1>6 DEF Vts

\* A mail: the request under way is cancelled or goes on, or a new one begins, which nothing was deducted for.
LEMMA PosMailStep ==
  ASSUME VtsInv, PosMail
  PROVE  VtsInv'
  <1> USE DEF VtsInv, VtsNumbers
  <1>0. m.pos => ~m.flag BY DEF PosMail, PosRuns
  <1>1. sale' = sale /\ v' = v /\ rx' = rx BY DEF PosMail
  <1>2. CASE m.zero
    <2>1. m' = [m EXCEPT !.vts = FALSE, !.flag = FALSE] /\ p' = [p EXCEPT !.pc = "rx", !.st = "none", !.rep = 0]
          /\ (term' = [term EXCEPT !.asked = @ \ ({p.cur} \ term.took)] \/ term' = term)
      BY <1>2 DEF PosMail
    <2>2. term'.took = term.took /\ term'.due = term.due /\ term'.asked \subseteq term.asked
          /\ term' = [asked |-> term'.asked, took |-> term'.took, due |-> term'.due]
      BY <2>1 DEF TermInv
    <2>3. TermInv' BY <1>1, <2>2 DEF TermInv
    <2>4. /\ m'.flag = FALSE /\ m'.pos = m.pos
          /\ m' = [flag |-> m'.flag, nowait |-> m'.nowait, zero |-> m'.zero, vts |-> m'.vts, pos |-> m'.pos]
      BY <2>1
    <2>5. /\ p'.pc = "rx" /\ p'.seq = p.seq
          /\ p' = [pc |-> p'.pc, cur |-> p'.cur, seq |-> p'.seq, st |-> p'.st, rep |-> p'.rep]
      BY <2>1
    <2>6. VtsNumbers' BY <1>1, <2>2, <2>4, <2>5
    <2>7. VtsPaid' BY <1>1, <2>2, <2>4, <2>5 DEF VtsPaid, Credit
    <2> QED BY <2>3, <2>6, <2>7
  <1>3. CASE ~m.zero /\ m.flag
    <2>1. m' = [m EXCEPT !.vts = FALSE] /\ p' = [p EXCEPT !.pc = "rx"] /\ term' = term BY <1>3 DEF PosMail
    <2>2. /\ m'.flag = m.flag /\ m'.pos = m.pos
          /\ m' = [flag |-> m'.flag, nowait |-> m'.nowait, zero |-> m'.zero, vts |-> m'.vts, pos |-> m'.pos]
      BY <2>1
    <2>3. /\ p'.pc = "rx" /\ p'.seq = p.seq /\ p'.cur = p.cur
          /\ p' = [pc |-> p'.pc, cur |-> p'.cur, seq |-> p'.seq, st |-> p'.st, rep |-> p'.rep]
      BY <2>1
    <2>4. VtsNumbers' BY <1>1, <2>1, <2>2, <2>3
    <2>5. VtsPaid' BY <1>0, <1>1, <1>3, <2>1, <2>2, <2>3 DEF VtsPaid, Credit, Others
    <2> QED BY <1>1, <2>1, <2>4, <2>5 DEF TermInv
  <1>4. CASE ~m.zero /\ ~m.flag
    <2>1. m' = [m EXCEPT !.vts = FALSE, !.flag = TRUE]
          /\ p' = [pc |-> "rx", cur |-> p.seq, seq |-> p.seq + 1, st |-> "none", rep |-> 0]
          /\ term' = [term EXCEPT !.asked = @ \cup {p.seq}]
      BY <1>4 DEF PosMail
    <2>2. term'.took = term.took /\ term'.due = term.due /\ term'.asked = term.asked \cup {p.seq}
          /\ term' = [asked |-> term'.asked, took |-> term'.took, due |-> term'.due]
      BY <2>1 DEF TermInv
    <2>3. TermInv' BY <1>1, <2>2 DEF TermInv
    <2>4. /\ m'.pos = m.pos
          /\ m' = [flag |-> m'.flag, nowait |-> m'.nowait, zero |-> m'.zero, vts |-> m'.vts, pos |-> m'.pos]
          /\ m'.flag = TRUE
      BY <2>1
    <2>5. p'.pc = "rx" /\ p'.seq = p.seq + 1 /\ p'.cur = p.seq
          /\ p' = [pc |-> p'.pc, cur |-> p'.cur, seq |-> p'.seq, st |-> p'.st, rep |-> p'.rep]
      BY <2>1
    <2>6. \A n \in term'.asked \cup term'.took : n \in Nat /\ n < p'.seq BY <2>2, <2>5
    <2>7. VtsNumbers'
      <3>1. p'.seq \in Nat /\ p'.cur \in Nat /\ p'.cur < p'.seq BY <2>5
      <3>2. p'.pc \in {"pend", "rx", "post", "again"} BY <2>5
      <3>3. rx'.code = "ok" => rx'.seq \in term'.took BY <1>1, <2>2
      <3>4. m'.flag \in BOOLEAN /\ m'.pos \in BOOLEAN BY <2>4
      <3>5. v' = [pc |-> v'.pc, timeout |-> v'.timeout] /\ v'.pc \in {"loop", "pend", "frame"} BY <1>1
      <3> QED BY <2>4, <2>5, <2>6, <3>1, <3>2, <3>3, <3>4, <3>5
    <2>8. p.seq \notin term.took OBVIOUS
    <2>9. Others' = term'.took BY <2>2, <2>5, <2>8 DEF Others
    <2>10. VtsPaid' BY <1>1, <2>2, <2>4, <2>5, <2>9 DEF VtsPaid, Credit
    <2> QED BY <2>3, <2>7, <2>10
  <1> QED BY <1>2, <1>3, <1>4

LEMMA PosRxStep ==
  ASSUME VtsInv, PosRx
  PROVE  VtsInv'
  <1> USE DEF VtsInv, VtsNumbers
  <1>1. UNCHANGED <<fj, term, sale, v, m>> /\ rx' = NoFrame /\ p.pc = "rx" BY DEF PosRx, PosRuns
  <1>2. \E st : p' = [p EXCEPT !.pc = IF Current(rx) /\ rx.code = "ok" /\ m.flag THEN "post" ELSE "again", !.st = st]
    BY DEF PosRx
  <1>3. /\ p'.seq = p.seq /\ p'.cur = p.cur /\ p'.pc \in {"post", "again"}
        /\ p'.pc = "post" => Current(rx) /\ rx.code = "ok" /\ m.flag
        /\ p' = [pc |-> p'.pc, cur |-> p'.cur, seq |-> p'.seq, st |-> p'.st, rep |-> p'.rep]
    BY <1>2
  <1>4. TermInv' BY <1>1 DEF TermInv
  <1>5. VtsNumbers' BY <1>1, <1>3 DEF NoFrame
  <1>6. Credit' = Credit /\ Others' = Others BY <1>1, <1>3 DEF Credit, Others
  <1>7. p'.pc = "post" => p.cur \in term.took BY <1>3 DEF Current
  <1>8. VtsPaid' BY <1>1, <1>3, <1>6, <1>7 DEF VtsPaid
  <1> QED BY <1>4, <1>5, <1>8

LEMMA PosPostStep ==
  ASSUME VtsInv, PosPost
  PROVE  VtsInv'
  <1> USE DEF VtsInv, VtsNumbers
  <1>1. UNCHANGED <<fj, term, sale, v, rx>> /\ p.pc = "post" BY DEF PosPost, PosRuns
  <1>2. m' = [m EXCEPT !.pos = TRUE] /\ p' = [p EXCEPT !.pc = "again"] BY DEF PosPost
  <1>3. /\ p'.seq = p.seq /\ p'.cur = p.cur /\ p'.pc = "again"
        /\ p' = [pc |-> p'.pc, cur |-> p'.cur, seq |-> p'.seq, st |-> p'.st, rep |-> p'.rep]
    BY <1>2
  <1>4. /\ m'.flag = m.flag /\ m'.pos = TRUE
        /\ m' = [flag |-> m'.flag, nowait |-> m'.nowait, zero |-> m'.zero, vts |-> m'.vts, pos |-> m'.pos]
    BY <1>2
  <1>5. TermInv' BY <1>1 DEF TermInv
  <1>6. VtsNumbers' BY <1>1, <1>3, <1>4
  <1>7. Credit' = sale.oks + 1 BY <1>1, <1>4 DEF Credit
  <1>8. p.cur \in term.took /\ Credit <= Cardinality(Others) BY <1>1 DEF VtsPaid
  <1>9. Credit' <= Cardinality(term.took) BY <1>7, <1>8, VtsCounts
  <1>10. VtsPaid' BY <1>1, <1>3, <1>4, <1>9 DEF VtsPaid
  <1> QED BY <1>5, <1>6, <1>10

LEMMA PosAgainStep ==
  ASSUME VtsInv, PosAgain \/ PosNoMail
  PROVE  VtsInv'
  <1> USE DEF VtsInv, VtsNumbers
  <1>1. UNCHANGED <<fj, sale, v, m, rx>> BY DEF PosAgain, PosNoMail
  <1>2. \/ PosNoMail /\ p' = [p EXCEPT !.pc = "rx"] /\ term' = term
        \/ p' = [p EXCEPT !.pc = "pend"] /\ term' = term
        \/ /\ m.flag /\ p' = [p EXCEPT !.pc = "pend", !.rep = @ + 1]
           /\ term' = [term EXCEPT !.asked = @ \cup {p.cur}]
    BY DEF PosAgain, PosNoMail
  <1>3. /\ p'.seq = p.seq /\ p'.cur = p.cur /\ p'.pc \in {"rx", "pend"}
        /\ p' = [pc |-> p'.pc, cur |-> p'.cur, seq |-> p'.seq, st |-> p'.st, rep |-> p'.rep]
    BY <1>2
  <1>4. /\ term'.took = term.took /\ term'.due = term.due
        /\ term' = [asked |-> term'.asked, took |-> term'.took, due |-> term'.due]
        /\ term'.asked = term.asked \/ (m.flag /\ term'.asked = term.asked \cup {p.cur})
    BY <1>2 DEF TermInv
  <1>5. p'.pc = "rx" => (m.pos => ~m.flag)
    <2>1. PosNoMail => (m.pos => ~m.flag) BY DEF PosNoMail, PosRuns
    <2>2. p'.pc = "rx" => PosNoMail BY <1>2
    <2> QED BY <2>1, <2>2
  <1>6. TermInv' BY <1>1, <1>4 DEF TermInv
  <1>7. VtsNumbers' BY <1>1, <1>3, <1>4
  <1>8. Credit' = Credit /\ Others' = Others BY <1>1, <1>3, <1>4 DEF Credit, Others
  <1>9. VtsPaid' BY <1>1, <1>3, <1>4, <1>5, <1>8 DEF VtsPaid
  <1> QED BY <1>6, <1>7, <1>9

\* More deductions give no less to count against.
LEMMA VtsAnswerStep ==
  ASSUME VtsInv, NEW n \in term.asked, Answer(n), UNCHANGED <<fj, sale, v, p, m, rx>>
  PROVE  VtsInv'
  <1> USE DEF VtsInv
  <1>1. TermInv' /\ term'.asked \subseteq term.asked /\ term.took \subseteq term'.took
        /\ term'.took \subseteq term.took \cup {n}
    BY AnswerEffect
  <1>2. VtsNumbers' BY <1>1 DEF VtsNumbers
  <1>3. IsFiniteSet(term'.took) /\ IsFiniteSet(Others')
    <2>1. IsFiniteSet(term'.took) BY <1>1 DEF TermInv
    <2> QED BY <2>1, OneLess DEF Others
  <1>4. Cardinality(term.took) <= Cardinality(term'.took) /\ Cardinality(term'.took) \in Nat
    BY <1>1, <1>3, NotFewer
  <1>5. Cardinality(Others) <= Cardinality(Others') /\ Cardinality(Others') \in Nat
    <2>1. Others \subseteq Others' BY <1>1 DEF Others
    <2> QED BY <1>3, <2>1, NotFewer
  <1>6. Credit' = Credit BY DEF Credit
  <1>7. VtsPaid' BY <1>1, <1>4, <1>5, <1>6, VtsCounts DEF VtsPaid
  <1> QED BY <1>1, <1>2, <1>7

LEMMA VtsInvStep == VtsInv /\ [VtsNext]_vtsVars => VtsInv'
  <1> SUFFICES ASSUME VtsInv, [VtsNext]_vtsVars PROVE VtsInv' OBVIOUS
  <1>1. CASE Vts BY <1>1, VtsTaskStep
  <1>2. CASE PosTask BY <1>2, PosMailStep, PosRxStep, PosPostStep, PosAgainStep DEF PosTask
  <1>3. ASSUME NEW n \in term.asked, Answer(n), UNCHANGED <<fj, sale, v, p, m, rx>> PROVE VtsInv'
    BY <1>3, VtsAnswerStep
  <1>4. ASSUME NEW a \in term.due, PosIrq(a) PROVE VtsInv'
    <2>1. term' = [term EXCEPT !.due = @ \ {a}] /\ rx' \in {a, NoFrame, rx} /\ UNCHANGED <<fj, sale, v, p, m>>
      BY <1>4 DEF PosIrq
    <2>2. term'.asked = term.asked /\ term'.took = term.took /\ term'.due \subseteq term.due
          /\ term' = [asked |-> term'.asked, took |-> term'.took, due |-> term'.due]
      BY <2>1 DEF VtsInv, TermInv
    <2>3. rx'.code = "ok" => rx'.seq \in term.took BY <2>1 DEF VtsInv, VtsNumbers, TermInv, NoFrame
    <2>4. TermInv' BY <2>1, <2>2 DEF VtsInv, TermInv
    <2>5. VtsNumbers' BY <2>1, <2>2, <2>3 DEF VtsInv, VtsNumbers
    <2>6. VtsPaid' BY <2>1, <2>2 DEF VtsInv, VtsPaid, Credit, Others
    <2> QED BY <2>4, <2>5, <2>6 DEF VtsInv
  <1>5. CASE UNCHANGED vtsVars
    BY <1>5 DEF vtsVars, VtsInv, TermInv, VtsNumbers, VtsPaid, Credit, Others
  <1> QED BY <1>1, <1>2, <1>3, <1>4, <1>5 DEF VtsNext

LEMMA VtsInvPays == VtsInv => GoodsPaid
  <1> SUFFICES ASSUME VtsInv PROVE GoodsPaid OBVIOUS
  <1>1. Credit <= Cardinality(term.took) BY DEF VtsInv, VtsPaid
  <1>2. sale.oks <= Credit BY VtsCounts DEF VtsInv, VtsNumbers
  <1> QED BY <1>1, <1>2, VtsCounts DEF GoodsPaid

\* Never more sales than deductions on the uC/OS board, whatever the order in which its tasks run
\* (vts_recv_task, pos_recv_task).
THEOREM VtsSalesPaid == VtsSpec => []GoodsPaid
  BY VtsInvInit, VtsInvStep, VtsInvPays, PTL DEF VtsSpec

-----------------------------------------------------------------------------
(* The serial to TCP bridge: who has taken the device up keeps it, and nothing is   *)
(* written to the wrong end, for any number of tasks, commands and descriptors.     *)

\* The handlers in which the connection is up.
Linked == {"stat", "recv", "cmd", "answer"}
Handle == Fd \cup {0}

Stats == {"IDLE", "TO_LOGIN", "TO_DEVSTATUS", "TO_WORKSTATUS", "TO_RESPSTATUS", "TO_RESP", "TO_HEART"}
Questions == {"id", "name", "ver"}
UartState == [pc : {"open", "top", "read"}, fd : Handle, sock : Handle, asked : Questions \cup {"none"}]
SocketState == [pc : Linked \cup {"wait", "closed"}, fd : Handle, stat : Stats, login : BOOLEAN,
                outinx : Nat, cmds : Nat, tries : Nat, tty : Handle]
Device == [id : BOOLEAN, name : BOOLEAN, ver : BOOLEAN, named : SUBSET {"id", "name"}]
Work == [status : {"INIT", "ONLINE", "TAKEUP"}, taskid : Task \cup {"zeros", "nul"}, holder : Task \cup {NoTask}]

TypeInv ==
  /\ fdt \in [Fd -> Objects]
  /\ u \in UartState /\ s \in SocketState
  /\ g \in [tty : Handle, sock : Handle]
  /\ dev \in Device /\ work \in Work
  /\ owed \subseteq {"login", "heart"} /\ calm \in BOOLEAN

\* The holder is the task the code compares with.
HeldInv == work.holder # NoTask => work.status = "TAKEUP" /\ work.taskid = work.holder

\* handle_uart's descriptor is its port until the socket thread's second close has hit it, and then that
\* thread is between two connections; nothing the reader noted down is a port.
SerialInv ==
  /\ u.pc # "open" => u.fd \in Fd /\ fdt[u.fd] \in {"tty", Free} /\ (fdt[u.fd] = Free => s.pc = "wait")
  /\ g.tty # 0 => u.pc # "open" /\ g.tty = u.fd
  /\ u.pc = "open" => u.sock = 0
  /\ u.pc = "read" /\ u.sock # 0 => fdt[u.sock] # "tty"

\* The connection is the one the socket thread has; the port it noted for a command is no connection.
ServerInv ==
  /\ s.pc \in Linked => s.fd \in Fd /\ fdt[s.fd] = "sock"
  /\ s.pc = "closed" => s.fd \in Fd
  /\ g.sock # 0 => s.pc \in Linked /\ g.sock = s.fd
  /\ s.pc \in {"cmd", "answer"} /\ s.tty # 0 => fdt[s.tty] # "sock"
  /\ s.pc = "answer" => s.cmds # 0

NothingWrong == seen = [crossed |-> FALSE, intruded |-> FALSE]

TtyInv == TypeInv /\ HeldInv /\ SerialInv /\ ServerInv /\ NothingWrong

-----------------------------------------------------------------------------
(* What changes in a record *)

\* A non-empty set of naturals has a least element.
LEMMA LeastNatural ==
  ASSUME NEW T \in SUBSET Nat, T # {}
  PROVE  \E x \in T : \A y \in T : x <= y
  <1> DEFINE Less == OpToRel(<, Nat)
  <1>1. IsWellFoundedOn(Less, Nat) BY NatLessThanWellFounded
  <1>2. \A x \in Nat, y \in Nat : y < x => <<y, x>> \in Less BY DEF OpToRel
  <1> HIDE DEF Less
  <1>3. PICK x \in T : \A y \in T : ~(<<y, x>> \in Less) BY <1>1, WFMin
  <1>4. ASSUME NEW y \in T PROVE x <= y
    <2>1. x \in Nat /\ y \in Nat /\ ~(y < x) BY <1>2, <1>3
    <2> QED BY <2>1
  <1> QED BY <1>4

LEMMA LeastFree ==
  ASSUME ~Full
  PROVE  Lowest \in Fd /\ fdt[Lowest] = Free
  <1> DEFINE T == {n \in Fd : fdt[n] = Free}
  <1>1. T # {} /\ T \subseteq Nat BY FdAssumption DEF Full
  <1>2. PICK n \in T : \A k \in T : n <= k BY <1>1, LeastNatural
  <1>3. Lowest \in T BY <1>2 DEF Lowest, Min
  <1> QED BY <1>3

LEMMA SocketStarts ==
  ASSUME NEW fd \in Handle
  PROVE  /\ LET y == [Idle EXCEPT !.pc = "stat", !.fd = fd] IN y \in SocketState /\ y.pc = "stat" /\ y.fd = fd
         /\ Idle \in SocketState /\ Idle.pc = "wait" /\ Idle.fd = 0 /\ Idle.tty = 0
  BY DEF SocketState, Idle, Handle, Linked, Stats

-----------------------------------------------------------------------------
(* The device and the two ends *)

\* A step of the socket thread within one connection.
LEMMA Talks ==
  ASSUME TypeInv, SerialInv, ServerInv, s.pc \in Linked, UNCHANGED <<fdt, u>>,
         s' \in SocketState, s'.pc \in Linked, s'.fd = s.fd,
         s'.pc \in {"cmd", "answer"} /\ s'.tty # 0 => fdt[s'.tty] # "sock",
         s'.pc = "answer" => s'.cmds # 0,
         g'.tty = g.tty, g'.sock \in {g.sock, s.fd}
  PROVE  SerialInv' /\ ServerInv'
  <1>1. u.pc # "open" => fdt[u.fd] = "tty" BY DEF SerialInv, Linked
  <1>2. SerialInv' BY <1>1 DEF SerialInv, Linked
  <1>3. ServerInv' BY DEF ServerInv, Linked
  <1> QED BY <1>2, <1>3

\* What is written to descriptor n is for what is there, or for nobody.
LEMMA NotCrossed ==
  ASSUME TypeInv, NothingWrong, NEW n, NEW want \in {"tty", "sock"},
         n \in Fd => fdt[n] # (IF want = "tty" THEN "sock" ELSE "tty")
  PROVE  Crossed(n, want) = FALSE
  BY DEF TypeInv, Crossed, Objects

LEMMA Unharmed ==
  ASSUME NothingWrong, NEW X, X = FALSE, seen' = [seen EXCEPT !.crossed = @ \/ X]
  PROVE  NothingWrong'
  BY DEF NothingWrong

LEMMA KeepsRest ==
  ASSUME TtyInv, fdt' \in [Fd -> Objects], u' \in UartState, s' \in SocketState, g' \in [tty : Handle, sock : Handle],
         UNCHANGED <<dev, work>>, owed' \subseteq {"login", "heart"}, calm' \in BOOLEAN,
         SerialInv', ServerInv', NothingWrong'
  PROVE  TtyInv'
  BY DEF TtyInv, TypeInv, HeldInv

-----------------------------------------------------------------------------
(* handle_uart *)

LEMMA OpenStep ==
  ASSUME TtyInv, init_com_dev
  PROVE  TtyInv'
  <1> USE DEF TtyInv
  <1>1. u.pc = "open" /\ UNCHANGED <<s, dev, work, owed, calm, seen>> /\ NothingWrong' BY DEF init_com_dev, NothingWrong
  <1>2. CASE UNCHANGED <<fdt, u>> /\ g' = [g EXCEPT !.tty = 0]
    <2>1. g' \in [tty : Handle, sock : Handle] /\ g'.tty = 0 /\ g'.sock = g.sock BY <1>2 DEF TypeInv, Handle
    <2>2. SerialInv' /\ ServerInv' BY <1>1, <1>2, <2>1 DEF SerialInv, ServerInv
    <2> QED BY <1>1, <1>2, <2>1, <2>2, KeepsRest DEF TypeInv
  <1>3. CASE ~Full /\ setport(Lowest)
    <2> DEFINE n == Lowest
    <2>1. n \in Fd /\ fdt[n] = Free BY <1>3, LeastFree
    <2> HIDE DEF n
    <2>2. CASE fdt' = [fdt EXCEPT ![n] = "tty"] /\ u' = [u EXCEPT !.pc = "top", !.fd = n] /\ g' = [g EXCEPT !.tty = n]
      <3>1. u' \in UartState /\ u'.pc = "top" /\ u'.fd = n BY <2>1, <2>2 DEF TypeInv, UartState, Handle
      <3>2. g' \in [tty : Handle, sock : Handle] /\ g'.tty = n /\ g'.sock = g.sock BY <2>1, <2>2 DEF TypeInv, Handle
      <3>3. fdt' \in [Fd -> Objects] /\ fdt'[n] = "tty" /\ \A k \in Fd \ {n} : fdt'[k] = fdt[k]
        BY <2>1, <2>2 DEF TypeInv, Objects
      <3>4. SerialInv' BY <2>1, <3>1, <3>2, <3>3 DEF SerialInv, Free
      <3>5. ServerInv' BY <1>1, <2>1, <3>2, <3>3 DEF ServerInv, Free, TypeInv, SocketState, Handle
      <3> QED BY <1>1, <3>1, <3>2, <3>3, <3>4, <3>5, KeepsRest DEF TypeInv
    <2>3. CASE fdt' = [fdt EXCEPT ![n] = "lost"] /\ UNCHANGED u /\ g' = [g EXCEPT !.tty = 0]
      <3>1. g' \in [tty : Handle, sock : Handle] /\ g'.tty = 0 /\ g'.sock = g.sock BY <2>3 DEF TypeInv, Handle
      <3>2. fdt' \in [Fd -> Objects] /\ fdt'[n] = "lost" /\ \A k \in Fd \ {n} : fdt'[k] = fdt[k]
        BY <2>1, <2>3 DEF TypeInv, Objects
      <3>3. SerialInv' BY <1>1, <2>1, <2>3, <3>1, <3>2 DEF SerialInv, Free
      <3>4. ServerInv' BY <1>1, <2>1, <3>1, <3>2 DEF ServerInv, Free, TypeInv, SocketState, Handle
      <3> QED BY <1>1, <2>3, <3>1, <3>2, <3>3, <3>4, KeepsRest DEF TypeInv
    <2> QED BY <1>3, <2>2, <2>3 DEF setport, n
  <1> QED BY <1>2, <1>3 DEF init_com_dev

LEMMA TopStep ==
  ASSUME TtyInv, UartTop
  PROVE  TtyInv'
  <1> USE DEF TtyInv
  <1> DEFINE q == IF fdt[u.fd] = "tty" THEN self_dev_send_cmd ELSE "none"
  <1>1. q \in Questions \cup {"none"} BY DEF self_dev_send_cmd, Questions
  <1>2. u.pc = "top" /\ g.sock \in Handle /\ UNCHANGED <<fdt, s, g, dev, work, owed, calm>> BY DEF UartTop, TypeInv
  <1>3. u' \in UartState /\ u'.pc = "read" /\ u'.fd = u.fd /\ u'.sock = g.sock BY <1>1, <1>2 DEF UartTop, TypeInv, UartState
  <1>4. SerialInv' BY <1>2, <1>3 DEF SerialInv, ServerInv
  <1>5. ServerInv' BY <1>2 DEF ServerInv
  <1>6. (self_dev_send_cmd # "none" /\ Crossed(u.fd, "tty")) = FALSE BY <1>2, NotCrossed DEF SerialInv, Free
  <1>7. NothingWrong' BY <1>6, Unharmed DEF UartTop
  <1> QED BY <1>2, <1>3, <1>4, <1>5, <1>7, KeepsRest DEF TypeInv

LEMMA NoPackageStep ==
  ASSUME TtyInv, NoPackage
  PROVE  TtyInv'
  <1> USE DEF TtyInv
  <1>1. u.pc = "read" /\ UNCHANGED <<fdt, s, g, dev, work, owed, calm, seen>> BY DEF NoPackage
  <1>2. u' \in UartState /\ u'.pc = "top" /\ u'.fd = u.fd BY DEF NoPackage, TypeInv, UartState
  <1>3. SerialInv' /\ ServerInv' /\ NothingWrong' BY <1>1, <1>2 DEF SerialInv, ServerInv, NothingWrong
  <1> QED BY <1>1, <1>2, <1>3, KeepsRest DEF TypeInv

LEMMA ComErrorStep ==
  ASSUME TtyInv, ComError
  PROVE  TtyInv'
  <1> USE DEF TtyInv
  <1>1. u.pc = "read" /\ u.fd \in Fd /\ UNCHANGED <<s, dev, work, owed, calm, seen>> BY DEF ComError, SerialInv
  <1>2. u' \in UartState /\ u'.pc = "open" /\ u'.sock = 0 BY DEF ComError, TypeInv, UartState, Handle
  <1>3. g' \in [tty : Handle, sock : Handle] /\ g'.tty = 0 /\ g'.sock = g.sock BY DEF ComError, TypeInv, Handle
  <1>4. fdt' \in [Fd -> Objects] /\ fdt'[u.fd] = Free /\ \A k \in Fd \ {u.fd} : fdt'[k] = fdt[k]
    BY <1>1 DEF ComError, Close, TypeInv, Objects
  <1>5. fdt[u.fd] \in {"tty", Free} BY <1>1 DEF SerialInv
  <1>6. SerialInv' BY <1>2, <1>3 DEF SerialInv
  <1>7. ServerInv' BY <1>1, <1>3, <1>4, <1>5 DEF ServerInv, Free, TypeInv, SocketState, Handle
  <1> QED BY <1>1, <1>2, <1>3, <1>4, <1>6, <1>7, KeepsRest DEF TypeInv, NothingWrong

LEMMA LearnType ==
  ASSUME dev \in Device, NEW what \in Questions, NEW ok \in BOOLEAN
  PROVE  Learn(what, ok) \in Device
  <1>1. CASE what = "id" BY <1>1 DEF Learn, Device
  <1>2. CASE what = "name" BY <1>2 DEF Learn, Device
  <1>3. CASE what = "ver" BY <1>3 DEF Learn, Device
  <1> QED BY <1>1, <1>2, <1>3 DEF Questions

LEMMA PackageStep ==
  ASSUME TtyInv, NEW k \in {"answer", "done", "report"}, Package(k)
  PROVE  TtyInv'
  <1> USE DEF TtyInv
  <1>1. u.pc = "read" /\ UNCHANGED <<fdt, g, work, owed, calm>> BY DEF Package
  <1>2. u' \in UartState /\ u'.pc = "top" /\ u'.fd = u.fd BY DEF Package, TypeInv, UartState
  <1>3. dev' \in Device
    <2>1. CASE UNCHANGED dev BY <2>1 DEF TypeInv
    <2>2. CASE u.asked # "none" /\ \E ok \in BOOLEAN : dev' = Learn(u.asked, ok)
      <3>1. u.asked \in Questions BY <2>2 DEF TypeInv, UartState
      <3> QED BY <2>2, <3>1, LearnType DEF TypeInv
    <2> QED BY <2>1, <2>2 DEF Package
  <1>4. /\ s' \in SocketState /\ s'.fd = s.fd /\ s'.tty = s.tty
        /\ IF s.pc = "answer" THEN s'.pc = "cmd" ELSE s' = s
    <2>1. CASE s.pc = "answer"
      <3>1. s.cmds \in Nat /\ s.cmds # 0 BY <2>1 DEF ServerInv, TypeInv, SocketState
      <3>2. s.cmds - 1 \in Nat BY <3>1
      <3>3. s' = [s EXCEPT !.pc = "cmd", !.tries = 0, !.cmds = s.cmds - 1] BY <2>1 DEF Package
      <3> QED BY <2>1, <3>2, <3>3 DEF TypeInv, SocketState, Linked
    <2>2. CASE s.pc # "answer" BY <2>2 DEF Package, TypeInv
    <2> QED BY <2>1, <2>2
  <1>5. SerialInv' BY <1>1, <1>2, <1>4 DEF SerialInv
  <1>6. ServerInv' BY <1>1, <1>4 DEF ServerInv, Linked
  <1>7. send_task_info(k) = FALSE
    <2>1. Crossed(u.sock, "sock") = FALSE
      BY <1>1, NotCrossed, FdAssumption DEF SerialInv
    <2> QED BY <2>1 DEF send_task_info
  <1>8. NothingWrong' BY <1>7, Unharmed DEF Package
  <1> QED BY <1>1, <1>2, <1>3, <1>4, <1>5, <1>6, <1>8 DEF TypeInv, HeldInv

-----------------------------------------------------------------------------
(* handle_socket_machine *)

LEMMA ConnectStep ==
  ASSUME TtyInv, init_connect
  PROVE  TtyInv'
  <1> USE DEF TtyInv
  <1>1. s.pc = "wait" /\ (u.pc # "open" => fdt[u.fd] = "tty") /\ UNCHANGED <<u, g, dev, work, owed, calm, seen>>
    BY DEF init_connect, Slept
  <1>2. CASE UNCHANGED <<fdt, s>>
    <2>1. SerialInv' /\ ServerInv' BY <1>1, <1>2 DEF SerialInv, ServerInv
    <2> QED BY <1>1, <1>2, <2>1, KeepsRest DEF TypeInv, NothingWrong
  <1>3. CASE ~Full /\ fdt' = [fdt EXCEPT ![Lowest] = "sock"] /\ s' = [Idle EXCEPT !.pc = "stat", !.fd = Lowest]
    <2> DEFINE n == Lowest
    <2>1. n \in Fd /\ fdt[n] = Free BY <1>3, LeastFree
    <2> HIDE DEF n
    <2>2. s' = [Idle EXCEPT !.pc = "stat", !.fd = n] BY <1>3 DEF n
    <2>3. s' \in SocketState /\ s'.pc = "stat" /\ s'.fd = n BY <2>1, <2>2, SocketStarts DEF Handle
    <2>4. fdt' \in [Fd -> Objects] /\ fdt'[n] = "sock" /\ \A k \in Fd \ {n} : fdt'[k] = fdt[k]
      BY <1>3, <2>1 DEF n, TypeInv, Objects
    <2>5. SerialInv' BY <1>1, <2>1, <2>4 DEF SerialInv, Free, TypeInv, UartState, Handle
    <2>6. ServerInv' BY <1>1, <2>1, <2>3, <2>4 DEF ServerInv, Linked
    <2> QED BY <1>1, <2>3, <2>4, <2>5, <2>6, KeepsRest DEF TypeInv, NothingWrong
  <1> QED BY <1>2, <1>3 DEF init_connect

\* Both ways the socket thread closes its descriptor; the second time it may be another's.
LEMMA ExitStep ==
  ASSUME TtyInv, s.pc \in Linked, ExitErr, NothingWrong'
  PROVE  TtyInv'
  <1> USE DEF TtyInv
  <1>1. s.fd \in Fd /\ fdt[s.fd] = "sock" /\ UNCHANGED <<u, dev, work, calm>> /\ owed' = {} BY DEF ExitErr, ServerInv
  <1>2. g' \in [tty : Handle, sock : Handle] /\ g'.tty = g.tty /\ g'.sock = 0 BY DEF ExitErr, TypeInv, Handle
  <1>3. fdt' \in [Fd -> Objects] /\ fdt'[s.fd] = Free /\ \A k \in Fd \ {s.fd} : fdt'[k] = fdt[k]
    BY <1>1 DEF ExitErr, Close, TypeInv, Objects
  <1>4. s' \in SocketState /\ s'.pc = "closed" /\ s'.fd = s.fd BY DEF ExitErr, TypeInv, SocketState
  <1>5. u.pc # "open" => fdt[u.fd] = "tty" BY DEF SerialInv, Linked
  <1>6. SerialInv' BY <1>1, <1>2, <1>3, <1>4, <1>5 DEF SerialInv, Free, TypeInv, UartState, Handle
  <1>7. ServerInv' BY <1>1, <1>2, <1>4 DEF ServerInv, Linked
  <1> QED BY <1>1, <1>2, <1>3, <1>4, <1>6, <1>7, KeepsRest DEF TypeInv

LEMMA CloseAgainStep ==
  ASSUME TtyInv, CloseAgain
  PROVE  TtyInv'
  <1> USE DEF TtyInv
  <1>1. s.pc = "closed" /\ s.fd \in Fd /\ UNCHANGED <<u, g, dev, work, owed, calm, seen>> /\ s' = Idle
    BY DEF CloseAgain, ServerInv
  <1>2. s' \in SocketState /\ s'.pc = "wait" BY <1>1, SocketStarts DEF Handle
  <1>3. fdt' \in [Fd -> Objects] /\ fdt'[s.fd] = Free /\ \A k \in Fd \ {s.fd} : fdt'[k] = fdt[k]
    BY <1>1 DEF CloseAgain, Close, TypeInv, Objects
  <1>4. SerialInv' BY <1>1, <1>2, <1>3 DEF SerialInv, Free, TypeInv, UartState, Handle
  <1>5. ServerInv' BY <1>1, <1>2 DEF ServerInv, Linked
  <1> QED BY <1>1, <1>2, <1>3, <1>4, <1>5, KeepsRest DEF TypeInv, NothingWrong

LEMMA StatStep ==
  ASSUME TtyInv, Stat
  PROVE  TtyInv'
  <1> USE DEF TtyInv
  <1>1. s.pc = "stat" /\ s.pc \in Linked /\ UNCHANGED <<u, dev, work, calm>> BY DEF Stat, Linked
  <1>2. Crossed(s.fd, "sock") = FALSE BY <1>1, NotCrossed DEF ServerInv
  <1>3. NothingWrong'
    <2>1. CASE SendOn BY <1>2, <2>1, Unharmed DEF SendOn
    <2>2. CASE UNCHANGED seen BY <2>2 DEF NothingWrong
    <2> QED BY <2>1, <2>2 DEF Stat
  <1>4. CASE ExitErr BY <1>1, <1>3, <1>4, ExitStep
  <1>5. CASE ~ExitErr
    <2>1. UNCHANGED fdt /\ owed' \subseteq {"login", "heart"} BY <1>5 DEF Stat, TypeInv
    <2>2. g' \in [tty : Handle, sock : Handle] /\ g'.tty = g.tty /\ g'.sock \in {g.sock, s.fd}
      <3>1. UNCHANGED g \/ g' = [g EXCEPT !.sock = s.fd] BY <1>5 DEF Stat
      <3> QED BY <3>1 DEF TypeInv, SocketState
    <2>3. s' \in SocketState /\ s'.pc = "recv" /\ s'.fd = s.fd
      <3>1. (\E stat \in Stats : Go(stat)) \/ s' = [s EXCEPT !.pc = "recv", !.stat = "IDLE", !.outinx = @ + 1]
        BY <1>5 DEF Stat, Stats
      <3>2. CASE \E stat \in Stats : Go(stat) 
        <4>1. PICK stat \in Stats : s' = [s EXCEPT !.pc = "recv", !.stat = stat] BY <3>2 DEF Go
        <4> QED BY <4>1 DEF TypeInv, SocketState, Linked
      <3>3. CASE s' = [s EXCEPT !.pc = "recv", !.stat = "IDLE", !.outinx = @ + 1]
        <4> DEFINE o == s.outinx + 1
        <4>1. o \in Nat BY DEF TypeInv, SocketState
        <4>2. s' = [s EXCEPT !.pc = "recv", !.stat = "IDLE", !.outinx = o] BY <3>3
        <4> HIDE DEF o
        <4> QED BY <4>1, <4>2 DEF TypeInv, SocketState, Linked, Stats
      <3> QED BY <3>1, <3>2, <3>3
    <2>4. SerialInv' /\ ServerInv' BY <1>1, <2>1, <2>2, <2>3, Talks DEF Linked
    <2> QED BY <1>1, <1>3, <2>1, <2>2, <2>3, <2>4, KeepsRest DEF TypeInv
  <1> QED BY <1>4, <1>5

\* What the thread reads, but for the commands: the two ends stay as they are.
LEMMA RecvStep ==
  ASSUME TtyInv, RecvTimeout \/ RecvBad \/ LoginBack \/ HeartBack \/ Ask
  PROVE  TtyInv'
  <1> USE DEF TtyInv
  <1>1. s.pc = "recv" /\ s.pc \in Linked /\ UNCHANGED <<fdt, u, g, dev, calm, seen>> /\ owed' \subseteq owed
    BY DEF RecvTimeout, RecvBad, LoginBack, HeartBack, Ask, Linked
  <1>2. s' \in SocketState /\ s'.pc = "stat" /\ s'.fd = s.fd
    <2>1. CASE RecvTimeout
      <3>1. s' = [s EXCEPT !.pc = "stat", !.stat = "TO_HEART"] \/ s' = [s EXCEPT !.pc = "stat", !.stat = "TO_LOGIN"]
        BY <2>1 DEF RecvTimeout
      <3> QED BY ZenonT(60), <3>1 DEF TypeInv, SocketState, Linked, Stats
    <2>2. CASE RecvBad BY <2>2 DEF RecvBad, TypeInv, SocketState, Linked
    <2>3. CASE LoginBack BY <2>3 DEF LoginBack, TypeInv, SocketState, Linked, Stats
    <2>4. CASE HeartBack BY <2>4 DEF HeartBack, TypeInv, SocketState, Linked
    <2>5. CASE Ask BY <2>5 DEF Ask, TypeInv, SocketState, Linked, Stats
    <2> QED BY <2>1, <2>2, <2>3, <2>4, <2>5
  <1>3. SerialInv' /\ ServerInv' BY <1>1, <1>2, Talks DEF Linked, TypeInv
  <1>4. work' \in Work /\ HeldInv'
    <2>1. CASE UNCHANGED work BY <2>1 DEF TypeInv, HeldInv
    <2>2. CASE Online BY <2>2 DEF Online, TypeInv, Work, HeldInv
    <2> QED BY <2>1, <2>2 DEF RecvTimeout, RecvBad, LoginBack, HeartBack, Ask
  <1> QED BY <1>1, <1>2, <1>3, <1>4 DEF TypeInv, NothingWrong

LEMMA RecvErrorStep ==
  ASSUME TtyInv, RecvError
  PROVE  TtyInv'
  BY ExitStep DEF RecvError, TtyInv, NothingWrong, Linked

\* A command is carried out for the holder, or for anybody when there is none.
LEMMA CommandWork ==
  ASSUME work \in Work, HeldInv, NothingWrong, NEW c \in Commands, NEW t \in Task, NEW n \in Packages(c), Command(c, t, n)
  PROVE  work' \in Work /\ HeldInv' /\ NothingWrong'
  <1>1. CASE t # work.taskid /\ work.status = "TAKEUP"
    <2>1. UNCHANGED <<work, seen>> BY <1>1 DEF Command
    <2> QED BY <2>1 DEF HeldInv, NothingWrong
  <1>2. CASE ~(t # work.taskid /\ work.status = "TAKEUP")
    <2>1. work.holder \in {NoTask, t} BY <1>2 DEF HeldInv
    <2>2. NothingWrong' BY <1>2, <2>1 DEF Command, NothingWrong
    <2>3. work' = [status |-> CASE c = "TAKEUP" -> "TAKEUP" [] c \in {"RELEASE", "RESET"} -> "ONLINE" [] OTHER -> work.status,
                   taskid |-> CASE c = "TAKEUP" -> t [] c = "RELEASE" -> "nul" [] OTHER -> work.taskid,
                   holder |-> Holder(c, t)]
      BY <1>2 DEF Command
    <2>4. CASE c = "TAKEUP"
      <3>1. work' = [status |-> "TAKEUP", taskid |-> t, holder |-> t] BY <2>3, <2>4 DEF Holder
      <3> QED BY <2>2, <3>1 DEF Work, HeldInv
    <2>5. CASE c \in {"RELEASE", "RESET"}
      <3>1. /\ work'.status = "ONLINE" /\ work'.holder = NoTask /\ work'.taskid \in {"nul", work.taskid}
            /\ work' = [status |-> work'.status, taskid |-> work'.taskid, holder |-> work'.holder]
        BY <2>1, <2>3, <2>5 DEF Holder
      <3> QED BY <2>2, <3>1 DEF Work, HeldInv
    <2>6. CASE c \notin {"TAKEUP", "RELEASE", "RESET"}
      <3>1. work' = [status |-> work.status, taskid |-> work.taskid, holder |-> work.holder] BY <2>3, <2>6 DEF Holder
      <3> QED BY <2>2, <3>1 DEF Work, HeldInv
    <2> QED BY <2>2, <2>4, <2>5, <2>6
  <1> QED BY <1>1, <1>2

LEMMA CommandStep ==
  ASSUME TtyInv, NEW c \in Commands, NEW t \in Task, NEW n \in Packages(c), Command(c, t, n)
  PROVE  TtyInv'
  <1> USE DEF TtyInv
  <1>1. s.pc = "recv" /\ s.pc \in Linked /\ UNCHANGED <<fdt, u, g, dev, owed, calm>> BY DEF Command, Linked
  <1>2. work' \in Work /\ HeldInv' /\ NothingWrong' BY CommandWork DEF TypeInv
  <1>3. n \in Nat BY DEF Packages
  <1>4. s' \in SocketState /\ s'.pc \in {"stat", "cmd"} /\ s'.fd = s.fd /\ (s'.pc = "cmd" => s'.tty = 0)
    <2>1. PICK pc \in {"stat", "cmd"}, stat \in Stats :
             \/ s' = [s EXCEPT !.pc = "stat", !.stat = stat]
             \/ s' = [s EXCEPT !.pc = pc, !.tty = 0, !.tries = 0, !.cmds = n, !.stat = stat]
      <3>1. "TO_WORKSTATUS" \in Stats /\ s.stat \in Stats BY DEF Stats, TypeInv, SocketState
      <3>2. CASE t # work.taskid /\ work.status = "TAKEUP" BY <3>1, <3>2 DEF Command
      <3>3. CASE ~(t # work.taskid /\ work.status = "TAKEUP")
        <4> DEFINE pc == IF c \in {"TAKEUP", "RELEASE"} THEN "stat" ELSE "cmd"
                   stat == IF c \in {"TAKEUP", "RELEASE", "RESET"} THEN "TO_WORKSTATUS" ELSE s.stat
        <4>1. s' = [s EXCEPT !.pc = pc, !.tty = 0, !.tries = 0, !.cmds = n, !.stat = stat] BY <3>3 DEF Command
        <4> QED BY <3>1, <4>1
      <3> QED BY ZenonT(60), <3>2, <3>3
    <2>2. CASE s' = [s EXCEPT !.pc = "stat", !.stat = stat] BY <2>2 DEF TypeInv, SocketState, Linked
    <2>3. CASE s' = [s EXCEPT !.pc = pc, !.tty = 0, !.tries = 0, !.cmds = n, !.stat = stat]
      <3>1. pc \in Linked /\ 0 \in Handle /\ 0 \in Nat BY DEF Linked, Handle
      <3> QED BY <1>3, <2>3, <3>1 DEF TypeInv, SocketState
    <2> QED BY <2>1, <2>2, <2>3
  <1>5. SerialInv' /\ ServerInv' BY <1>1, <1>4, Talks DEF Linked, TypeInv
  <1> QED BY <1>1, <1>2, <1>4, <1>5 DEF TypeInv

LEMMA WriteStep ==
  ASSUME TtyInv, leom_handle_sock_cmd
  PROVE  TtyInv'
  <1> USE DEF TtyInv
  <1> DEFINE tty == IF s.tries = 0 THEN g.tty ELSE s.tty
             done == [s EXCEPT !.tries = 0, !.cmds = @ - 1, !.tty = 0]
  <1>1. s.pc = "cmd" /\ s.pc \in Linked /\ UNCHANGED <<fdt, u, g, dev, work, owed, calm>>
    BY DEF leom_handle_sock_cmd, Linked
  <1>2. tty \in Handle /\ (tty # 0 => tty \in Fd /\ fdt[tty] # "sock")
    BY <1>1 DEF TypeInv, SocketState, Handle, SerialInv, ServerInv, Free
  <1>3. s.cmds # 0 => done \in SocketState /\ done.pc = "cmd" /\ done.fd = s.fd /\ done.tty = 0
    <2>1. ASSUME s.cmds # 0 PROVE s.cmds - 1 \in Nat BY <2>1 DEF TypeInv, SocketState
    <2> QED BY <1>1, <2>1 DEF TypeInv, SocketState, Handle
  <1>4. s.tries + 1 \in Nat BY DEF TypeInv, SocketState
  <1> HIDE DEF tty, done
  <1>5. \/ s.cmds = 0 /\ s' = [s EXCEPT !.pc = "stat"] /\ UNCHANGED seen
        \/ s.cmds # 0 /\ s' = done /\ UNCHANGED seen
        \/ /\ s.cmds # 0 /\ tty # 0 /\ seen' = [seen EXCEPT !.crossed = @ \/ Crossed(tty, "tty")]
           /\ s' = done \/ s' = [s EXCEPT !.pc = "answer", !.tty = tty, !.tries = @ + 1]
    BY DEF leom_handle_sock_cmd, tty, done
  <1>6. NothingWrong'
    <2>1. ASSUME tty # 0 PROVE Crossed(tty, "tty") = FALSE BY <1>2, <2>1, NotCrossed
    <2> QED BY <1>5, <2>1, Unharmed DEF NothingWrong
  <1>7. /\ s' \in SocketState /\ s'.fd = s.fd /\ s'.pc \in {"stat", "cmd", "answer"}
        /\ s'.pc # "stat" => s'.tty \in {0, tty}
        /\ s'.pc = "answer" => s'.cmds # 0
    <2>1. CASE s' = [s EXCEPT !.pc = "stat"] BY <2>1 DEF TypeInv, SocketState, Linked
    <2>2. CASE s.cmds # 0 /\ s' = done BY <1>3, <2>2
    <2>3. CASE s.cmds # 0 /\ s' = [s EXCEPT !.pc = "answer", !.tty = tty, !.tries = @ + 1]
      BY <1>2, <1>4, <2>3 DEF TypeInv, SocketState, Linked
    <2> QED BY <1>5, <2>1, <2>2, <2>3
  <1>8. SerialInv' /\ ServerInv' BY <1>1, <1>2, <1>7, Talks DEF Linked, TypeInv
  <1> QED BY <1>1, <1>6, <1>7, <1>8, KeepsRest DEF TypeInv

LEMMA WaitStep ==
  ASSUME TtyInv, pt_cond_wait
  PROVE  TtyInv'
  <1> USE DEF TtyInv
  <1>1. s.pc = "answer" /\ s.pc \in Linked /\ UNCHANGED <<fdt, u, g, dev, work, owed, calm, seen>> BY DEF pt_cond_wait, Linked
  <1>2. s' \in SocketState /\ s'.pc = "cmd" /\ s'.fd = s.fd /\ s'.tty = s.tty
    BY DEF pt_cond_wait, TypeInv, SocketState, Linked
  <1>3. SerialInv' /\ ServerInv'
    <2>1. s'.tty # 0 => fdt[s'.tty] # "sock" BY <1>1, <1>2 DEF ServerInv
    <2> QED BY <1>1, <1>2, <2>1, Talks DEF Linked, TypeInv
  <1> QED BY <1>1, <1>2, <1>3, KeepsRest DEF TypeInv, NothingWrong

-----------------------------------------------------------------------------
(* The whole *)

\* At the start of the process nothing is open and nobody holds the device.
Fresh ==
  /\ fdt = [n \in Fd |-> Free] /\ u = Opening /\ s = Idle /\ g = [tty |-> 0, sock |-> 0]
  /\ dev = Unknown /\ work = NoWork /\ owed = {} /\ calm \in BOOLEAN /\ NothingWrong

LEMMA FreshInv ==
  ASSUME Fresh
  PROVE  TtyInv
  <1>1. u \in UartState /\ u.pc = "open" /\ u.sock = 0 BY DEF Fresh, Opening, UartState, Handle
  <1>2. s \in SocketState /\ s.pc = "wait" BY SocketStarts DEF Fresh, Handle
  <1>3. fdt \in [Fd -> Objects] BY DEF Fresh, Objects
  <1>4. g \in [tty : Handle, sock : Handle] /\ g.tty = 0 /\ g.sock = 0 BY DEF Fresh, Handle
  <1>5. dev \in Device BY DEF Fresh, Unknown, Device
  <1>6. work \in Work /\ work.holder = NoTask BY DEF Fresh, NoWork, Work
  <1>7. SerialInv /\ ServerInv BY <1>1, <1>2, <1>4 DEF SerialInv, ServerInv, Linked
  <1> QED BY <1>1, <1>2, <1>3, <1>4, <1>5, <1>6, <1>7 DEF TtyInv, TypeInv, HeldInv, Fresh

LEMMA TtyStep ==
  ASSUME TtyInv, [Next]_ttyVars
  PROVE  TtyInv'
  <1>1. CASE Uart BY <1>1, OpenStep, TopStep, NoPackageStep, ComErrorStep, PackageStep DEF Uart
  <1>2. CASE Socket
    BY <1>2, ConnectStep, CloseAgainStep, StatStep, RecvStep, RecvErrorStep, CommandStep, WriteStep, WaitStep DEF Socket
  <1>3. CASE Settle
    BY <1>3, KeepsRest DEF Settle, TtyInv, TypeInv, SerialInv, ServerInv, NothingWrong
  <1>4. CASE termination_handler
    <2>1. Fresh' BY <1>4 DEF termination_handler, Fresh, TtyInv, TypeInv, NothingWrong
    <2> QED BY <2>1, FreshInv, PTL
  <1>5. CASE UNCHANGED ttyVars
    BY <1>5 DEF ttyVars, TtyInv, TypeInv, HeldInv, SerialInv, ServerInv, NothingWrong
  <1> QED BY <1>1, <1>2, <1>3, <1>4, <1>5 DEF Next

LEMMA TtyInvariant == Spec => []TtyInv
  <1>1. Init => TtyInv BY FreshInv DEF Init, Fresh, NothingWrong
  <1>2. TtyInv /\ [Next]_ttyVars => TtyInv' BY TtyStep
  <1> QED BY <1>1, <1>2, PTL DEF Spec

\* A task that took the device up keeps it until it gives it up itself: no command of another task is
\* carried out meanwhile, over lost connections and new logins too (leom_net_mch.c).
THEOREM DeviceKept == Spec => []HolderOnly
  <1>1. TtyInv => HolderOnly BY DEF TtyInv, NothingWrong, HolderOnly
  <1> QED BY <1>1, TtyInvariant, PTL

\* What is meant for the device never lands on the server's connection, nor a report on the serial port,
\* although the connection is closed twice and numbers are used again (leoman.c, leom_net_mch.c).
THEOREM EndsNotConfused == Spec => []NoCrossTalk
  <1>1. TtyInv => NoCrossTalk BY DEF TtyInv, NothingWrong, NoCrossTalk
  <1> QED BY <1>1, TtyInvariant, PTL

-----------------------------------------------------------------------------
(* The bed sensor's files: whatever the records, the copies, the reports asked     *)
(* for and the restarts, what beacon is given is one well formed document.  The     *)
(* file in use is always one that objects can be appended to.                       *)

Piece == {"head", "obj", "comma", "tail"}

\* A file that objects can still be appended to: a head, and objects with a comma behind each.
Open(f) ==
  /\ f \in Seq(Piece) /\ Len(f) > 0 /\ Len(f) % 2 = 1 /\ f[1] = "head"
  /\ \A i \in 2..Len(f) : f[i] = IF i % 2 = 0 THEN "obj" ELSE "comma"

WellFormed(h) ==
  LET n == Len(h) IN
  /\ n > 2 /\ n % 2 = 1 /\ h[1] = "head" /\ h[n] = "tail"
  /\ \A i \in 2..n - 1 : h[i] = IF i % 2 = 0 THEN "obj" ELSE "comma"

Files == [day : Seq(Piece), num : Seq(Piece), path : {"day", "num", NoPath}]

InUse(t) == t \in Files /\ t.path # NoPath /\ Open(t[t.path])

FileInv ==
  /\ tmp \in Files /\ (tmp.path # NoPath => InUse(tmp))
  /\ ReportsWellFormed

\* One object more.
LEMMA OpenGrows ==
  ASSUME NEW f, Open(f)
  PROVE  Open(f \o <<"obj", "comma">>)
  <1> DEFINE gs == f \o <<"obj", "comma">>
  <1>1. f \in Seq(Piece) /\ Len(f) \in Nat /\ <<"obj", "comma">> \in Seq(Piece)
    BY DEF Open, Piece
  <1>2. gs \in Seq(Piece) /\ Len(gs) = Len(f) + 2
    BY <1>1
  <1>3. \A i \in 1..Len(f) : gs[i] = f[i]
    BY <1>1
  <1>4. gs[Len(f) + 1] = "obj" /\ gs[Len(f) + 2] = "comma"
    BY <1>1
  <1> HIDE DEF gs
  <1>5. ASSUME NEW i \in 2..Len(gs) PROVE gs[i] = IF i % 2 = 0 THEN "obj" ELSE "comma"
    <2>1. CASE i <= Len(f)
      BY <2>1, <1>1, <1>3, <1>5 DEF Open
    <2>2. CASE i = Len(f) + 1
      BY <2>2, <1>1, <1>4 DEF Open
    <2>3. CASE i = Len(f) + 2
      BY <2>3, <1>1, <1>4 DEF Open
    <2> QED BY <1>1, <1>2, <1>5, <2>1, <2>2, <2>3
  <1>6. Open(gs)
    BY <1>1, <1>2, <1>3, <1>5 DEF Open
  <1> QED BY <1>6 DEF gs

\* The last object and the tail make it a document.
LEMMA ClosingForms ==
  ASSUME NEW f, Open(f)
  PROVE  WellFormed(f \o <<"obj", "tail">>) /\ f \o <<"obj", "tail">> \in Seq(Piece)
  <1> DEFINE gs == f \o <<"obj", "tail">>
  <1>1. f \in Seq(Piece) /\ Len(f) \in Nat /\ <<"obj", "tail">> \in Seq(Piece)
    BY DEF Open, Piece
  <1>2. gs \in Seq(Piece) /\ Len(gs) = Len(f) + 2
    BY <1>1
  <1>3. \A i \in 1..Len(f) : gs[i] = f[i]
    BY <1>1
  <1>4. gs[Len(f) + 1] = "obj" /\ gs[Len(f) + 2] = "tail"
    BY <1>1
  <1> HIDE DEF gs
  <1>5. ASSUME NEW i \in 2..Len(gs) - 1 PROVE gs[i] = IF i % 2 = 0 THEN "obj" ELSE "comma"
    <2>1. CASE i <= Len(f)
      BY <2>1, <1>1, <1>3, <1>5 DEF Open
    <2>2. CASE i = Len(f) + 1
      BY <2>2, <1>1, <1>4 DEF Open
    <2> QED BY <1>1, <1>2, <1>5, <2>1, <2>2
  <1>6. WellFormed(gs)
    BY <1>1, <1>2, <1>3, <1>4, <1>5 DEF Open, WellFormed
  <1> QED BY <1>2, <1>6 DEF gs

\* What is written to the file of the path.
LEMMA WritesToPath ==
  ASSUME NEW t \in Files, t.path # NoPath, NEW x \in Seq(Piece), NEW w, w = _write_file(t, x)
  PROVE  /\ w \in Files /\ w.path = t.path
         /\ w[w.path] = t[t.path] \o x
  <1>1. t.path \in {"day", "num"} /\ t[t.path] \in Seq(Piece)
    BY DEF Files, NoPath
  <1>2. w = [t EXCEPT ![t.path] = t[t.path] \o x]
    BY DEF _write_file
  <1>3. t[t.path] \o x \in Seq(Piece)
    BY <1>1
  <1> QED BY <1>1, <1>2, <1>3 DEF Files, NoPath

\* A new file is in use and has its head only, whichever name it gets.
LEMMA BeginOpens ==
  ASSUME NEW t \in Files
  PROVE  InUse(Begin(t))
  <1>1. PICK b : b = _generate_new_file(t)
    OBVIOUS
  <1>2. b \in Files /\ b.path # NoPath /\ b[b.path] = <<>>
    <2>1. CASE t.day = <<>>
      <3>1. b = [t EXCEPT !.path = "day"]
        BY <1>1, <2>1 DEF _generate_new_file
      <3>2. b \in Files /\ b.path = "day" /\ b.day = <<>>
        BY <2>1, <3>1 DEF Files
      <3> QED BY <3>2 DEF NoPath
    <2>2. CASE t.day # <<>>
      <3>1. b = [t EXCEPT !.path = "num", !.num = <<>>]
        BY <1>1, <2>2 DEF _generate_new_file
      <3>2. <<>> \in Seq(Piece)
        OBVIOUS
      <3>3. b \in Files /\ b.path = "num" /\ b.num = <<>>
        BY <3>1, <3>2 DEF Files
      <3> QED BY <3>3 DEF NoPath
    <2> QED BY <2>1, <2>2
  <1>3. PICK w : w = _write_file(b, <<"head">>)
    OBVIOUS
  <1>4. <<"head">> \in Seq(Piece) /\ <<>> \o <<"head">> = <<"head">>
    BY DEF Piece
  <1>5. w \in Files /\ w.path = b.path /\ w[w.path] = <<"head">>
    <2>1. w \in Files /\ w.path = b.path /\ w[w.path] = b[b.path] \o <<"head">>
      BY <1>2, <1>3, <1>4, WritesToPath
    <2> QED BY <1>2, <1>4, <2>1
  <1>6. Open(<<"head">>)
    <2>1. Len(<<"head">>) = 1 /\ <<"head">>[1] = "head" /\ 1 % 2 = 1
      OBVIOUS
    <2> QED BY <1>4, <2>1 DEF Open
  <1>7. InUse(w)
    BY <1>2, <1>5, <1>6 DEF InUse
  <1>8. Begin(t) = w
    BY <1>1, <1>3 DEF Begin
  <1> QED BY <1>7, <1>8

\* An object is appended to the file in use.
LEMMA ObjectKeeps ==
  ASSUME NEW t, InUse(t)
  PROVE  InUse(_write_file(t, <<"obj", "comma">>))
  <1>1. PICK w : w = _write_file(t, <<"obj", "comma">>)
    OBVIOUS
  <1>2. <<"obj", "comma">> \in Seq(Piece)
    BY DEF Piece
  <1>3. w \in Files /\ w.path = t.path /\ w[w.path] = t[t.path] \o <<"obj", "comma">>
    BY <1>1, <1>2, WritesToPath DEF InUse
  <1>4. Open(t[t.path]) /\ t.path # NoPath
    BY DEF InUse
  <1>5. Open(w[w.path])
    BY <1>3, <1>4, OpenGrows
  <1> QED BY <1>1, <1>3, <1>4, <1>5 DEF InUse

\* A report of the file in use: what is handed over is a document, and the next file is in use.
LEMMA ReportKeeps ==
  ASSUME FileInv, NEW t, InUse(t), NEW more \in {<<>>, <<"obj", "comma">>}, Report(Closed(t), more)
  PROVE  FileInv'
  <1>1. PICK c : c = Closed(t)
    OBVIOUS
  <1>2. <<"obj", "tail">> \in Seq(Piece) /\ Open(t[t.path]) /\ t.path # NoPath
    BY DEF InUse, Piece
  <1>3. c \in Files /\ c.path = t.path /\ c[c.path] = t[t.path] \o <<"obj", "tail">>
    BY <1>1, <1>2, WritesToPath DEF Closed, InUse
  <1>4. WellFormed(c[c.path]) /\ c[c.path] \in Seq(Piece)
    BY <1>2, <1>3, ClosingForms
  <1>5. Beacon(c) /\ tmp' = _write_file(Begin(leom_cp_data(c)), more)
    BY <1>1 DEF Report
  <1>6. ReportsWellFormed'
    <2>1. CASE card.mounted
      <3>1. handed' = c[c.path]
        BY <2>1, <1>5 DEF Beacon
      <3> QED BY <3>1, <1>4 DEF ReportsWellFormed, WellFormed
    <2>2. CASE ~card.mounted
      BY <2>2, <1>5 DEF Beacon, FileInv, ReportsWellFormed
    <2> QED BY <2>1, <2>2
  <1>7. leom_cp_data(c) \in Files
    <2>1. c.path \in {"day", "num"} /\ <<>> \in Seq(Piece)
      BY <1>2, <1>3 DEF Files, NoPath
    <2> QED BY <1>3, <2>1 DEF leom_cp_data, Files
  <1>8. PICK b : b = Begin(leom_cp_data(c)) /\ InUse(b)
    BY <1>7, BeginOpens
  <1>9. InUse(tmp')
    <2>1. CASE more = <<"obj", "comma">>
      BY <2>1, <1>5, <1>8, ObjectKeeps
    <2>2. CASE more = <<>>
      <3>1. <<>> \in Seq(Piece) /\ b[b.path] \in Seq(Piece)
        BY <1>8 DEF InUse, Open
      <3>2. tmp' = _write_file(b, <<>>)
        BY <2>2, <1>5, <1>8
      <3>3. tmp' \in Files /\ tmp'.path = b.path /\ tmp'[tmp'.path] = b[b.path] \o <<>>
        BY ZenonT(60), <1>8, <3>1, <3>2, WritesToPath DEF InUse
      <3>4. b[b.path] \o <<>> = b[b.path]
        BY <3>1
      <3> QED BY <1>8, <3>3, <3>4 DEF InUse
    <2> QED BY <2>1, <2>2
  <1> QED BY <1>6, <1>9 DEF FileInv, InUse

LEMMA FileInitial ==
  ASSUME BedInit
  PROVE  FileInv
  <1>1. <<>> \in Seq(Piece)
    OBVIOUS
  <1> QED BY <1>1 DEF BedInit, FileInv, Files, Start, NoPath, ReportsWellFormed

\* Steps that leave the files alone.
LEMMA FilesStay ==
  ASSUME FileInv, tmp' = tmp, handed' = handed
  PROVE  FileInv'
  BY DEF FileInv, InUse, ReportsWellFormed

\* A window's object is written to the file in use, or to a new one.
LEMMA AppendKeeps ==
  ASSUME FileInv, _append2_tmpfile
  PROVE  FileInv'
  <1>1. PICK t : t = (IF tmp.path = NoPath THEN Begin(tmp) ELSE tmp)
    OBVIOUS
  <1>2. InUse(t)
    BY <1>1, BeginOpens DEF FileInv
  <1>3. CASE flag.gen
    <2>1. Report(Closed(t), <<"obj", "comma">>)
      BY <1>1, <1>3 DEF _append2_tmpfile
    <2> QED BY <1>2, <2>1, ReportKeeps
  <1>4. CASE ~flag.gen
    <2>1. tmp' = _write_file(t, <<"obj", "comma">>) /\ handed' = handed
      BY <1>1, <1>4 DEF _append2_tmpfile
    <2>2. InUse(tmp')
      BY <1>2, <2>1, ObjectKeeps
    <2> QED BY <2>1, <2>2 DEF FileInv, InUse, ReportsWellFormed
  <1> QED BY <1>3, <1>4

LEMMA FileStep ==
  ASSUME FileInv, [BedNext]_bedVars
  PROVE  FileInv'
  <1>1. CASE SensorSilent
    <2>1. CASE tmp.path # NoPath /\ flag.gen
      <3>1. Report(Closed(tmp), <<>>)
        BY <1>1, <2>1 DEF SensorSilent, leom_pre_check_tail_for_report
      <3>2. InUse(tmp)
        BY <2>1 DEF FileInv
      <3> QED BY <3>1, <3>2, ReportKeeps
    <2>2. CASE ~(tmp.path # NoPath /\ flag.gen)
      <3>1. tmp' = tmp /\ handed' = handed
        BY <1>1, <2>2 DEF SensorSilent, leom_pre_check_tail_for_report
      <3> QED BY <3>1, FilesStay
    <2> QED BY <2>1, <2>2
  <1>2. ASSUME NEW b \in BOOLEAN, Sample(b) PROVE FileInv'
    <2>1. _append2_tmpfile \/ (tmp' = tmp /\ handed' = handed)
      <3>1. (\E w : leom_handle_sensor_data(w)) \/ (tmp' = tmp /\ handed' = handed)
        BY <1>2 DEF Sample
      <3>2. ASSUME NEW w, leom_handle_sensor_data(w)
            PROVE  _append2_tmpfile \/ (tmp' = tmp /\ handed' = handed)
        BY <3>2 DEF leom_handle_sensor_data
      <3> QED BY <3>1, <3>2
    <2> QED BY <2>1, AppendKeeps, FilesStay
  <1>3. CASE Restart
    <2>1. tmp' = Start.tmp /\ handed' = handed
      BY <1>3 DEF Restart
    <2>2. <<>> \in Seq(Piece)
      OBVIOUS
    <2>3. tmp' \in Files /\ tmp'.path = NoPath
      BY <2>1, <2>2 DEF Start, Files, NoPath
    <2> QED BY <2>1, <2>3 DEF FileInv, ReportsWellFormed
  <1>4. ASSUME NEW f \in {"cp", "gen"}, Signal(f) PROVE FileInv'
    BY <1>4, FilesStay DEF Signal
  <1>5. CASE SensorReopen \/ Mount \/ SetTime \/ AskCircle \/ AskNothing \/ UNCHANGED bedVars
    <2>1. tmp' = tmp /\ handed' = handed
      BY <1>5 DEF SensorReopen, Mount, SetTime, AskCircle, AskNothing, bedVars
    <2> QED BY <2>1, FilesStay
  <1>6. ASSUME NEW c, NEW h, AskOnce(c, h) PROVE FileInv'
    BY <1>6, FilesStay DEF AskOnce
  <1> QED BY <1>1, <1>2, <1>3, <1>4, <1>5, <1>6 DEF BedNext

\* What beacon is given is one well formed document, over copies, reports and restarts (leom_sensor_handle.c).
THEOREM NightsWellFormed == BedSpec => []ReportsWellFormed
  <1>1. FileInv => ReportsWellFormed
    BY DEF FileInv
  <1> QED BY <1>1, FileInitial, FileStep, PTL DEF BedSpec

-----------------------------------------------------------------------------
(* The bed sensor's panel: a walk through a night, and the readings, show what the *)
(* report has, for any nights and however often the report is replaced meanwhile.   *)
(* WalkInv says how far a walk has come: what it got are the answers to the numbers *)
(* before the one it asks for next.                                                 *)

Reply == [num : Int, item : Int, data : Seq(Int)]

\* The i-th answer of a walk through the night r.
Shows(r, a, i) ==
  /\ i = 1 => a.data = <<Number(r.start), Number(r.end)>>
  /\ i = 2 => a.data = <<UpTo(255, r.score)>>
  /\ i > 2 => a.item = UpTo(255, Stages(r)[i - 2])

Walked(r, got, n) ==
  /\ got \in Seq(Reply) /\ Len(got) = n
  /\ \A i \in 1..n : Shows(r, got[i], i)

WalkInv ==
  LET r == panel.walk IN
  panel.cmd = 3 /\ r # NoReport =>
    /\ panel.num > 0 => r.s1 # <<>> /\ panel.num <= Len(Stages(r)) + 3 /\ Walked(r, panel.got, panel.num - 1)
    /\ panel.num = 0 /\ r.s1 # <<>> => Walked(r, panel.got, Len(Stages(r)) + 2)

PanelInv ==
  /\ card.report \in Night
  /\ panel.walk \in Night /\ (panel.cmd = 3 => panel.num \in Nat)
  /\ WalkInv /\ ReadingsTruthful

\* The least number of a non-empty set of numbers is in it.
LEMMA LeastMember ==
  ASSUME NEW S, S \subseteq Nat, S # {}
  PROVE  Min(S) \in S
  <1>1. PICK n \in S : \A k \in S : n <= k
    BY LeastNatural
  <1> QED BY <1>1 DEF Min

LEMMA NoReportIsNight == NoReport \in Night
  <1>1. <<>> \in Seq(Int) /\ <<>> \in Seq(Word)
    OBVIOUS
  <1>2. NoRates \in Rates
    BY <1>1 DEF NoRates, Rates
  <1> QED BY <1>1, <1>2 DEF NoReport, Night, Null

\* How many stages a night has, and which.
LEMMA StagesAre ==
  ASSUME NEW r \in Night
  PROVE  /\ Stages(r) \in Seq(Int)
         /\ r.s1 = <<Null>> => Len(Stages(r)) = 0
         /\ r.s1 # <<Null>> /\ r.s2 = <<Null>> =>
              /\ Len(Stages(r)) = Len(r.s1)
              /\ \A i \in 1..Len(r.s1) : Stages(r)[i] = r.s1[i]
         /\ r.s1 # <<Null>> /\ r.s2 # <<Null>> =>
              /\ Len(Stages(r)) = Len(r.s1) + Len(r.s2)
              /\ \A i \in 1..Len(r.s1) : Stages(r)[i] = r.s1[i]
              /\ \A i \in 1..Len(r.s2) : Stages(r)[Len(r.s1) + i] = r.s2[i]
  <1>1. r.s1 \in Seq(Int) /\ r.s2 \in Seq(Int) /\ <<>> \in Seq(Int)
    BY DEF Night
  <1>2. CASE r.s1 = <<Null>>
    BY <1>1, <1>2 DEF Stages
  <1>3. CASE r.s1 # <<Null>> /\ r.s2 = <<Null>>
    <2>1. Stages(r) = r.s1 \o <<>>
      BY <1>3 DEF Stages
    <2>2. r.s1 \o <<>> = r.s1
      BY <1>1
    <2> QED BY <1>1, <1>3, <2>1, <2>2
  <1>4. CASE r.s1 # <<Null>> /\ r.s2 # <<Null>>
    <2>1. Stages(r) = r.s1 \o r.s2
      BY <1>4 DEF Stages
    <2>2. /\ r.s1 \o r.s2 \in Seq(Int) /\ Len(r.s1 \o r.s2) = Len(r.s1) + Len(r.s2)
          /\ \A i \in 1..Len(r.s1) : (r.s1 \o r.s2)[i] = r.s1[i]
          /\ \A i \in 1..Len(r.s2) : (r.s1 \o r.s2)[Len(r.s1) + i] = r.s2[i]
      <3>1. PICK x \in Seq(Int), y \in Seq(Int) : x = r.s1 /\ y = r.s2
        BY <1>1
      <3>2. \A i \in 1..Len(x) : (x \o y)[i] = x[i]
        OBVIOUS
      <3>3. \A i \in 1..Len(y) : (x \o y)[Len(x) + i] = y[i]
        OBVIOUS
      <3>4. x \o y \in Seq(Int) /\ Len(x \o y) = Len(x) + Len(y)
        OBVIOUS
      <3> QED BY <3>1, <3>2, <3>3, <3>4
    <2> QED BY <1>4, <2>1, <2>2
  <1> QED BY <1>2, <1>3, <1>4

\* An answer with a number is not the ending.
LEMMA AnswerParts ==
  ASSUME NEW n \in Int, n # 0, NEW item \in Int, NEW data \in Seq(Int), NEW a, a = PanelAnswer(n, item, data)
  PROVE  a \in Reply /\ a \notin {Ending, errzero} /\ a.item = item /\ a.data = data
  BY DEF PanelAnswer, Reply, Ending, errzero

LEMMA UpToType == \A top \in Nat, x \in Int : UpTo(top, x) \in Int /\ Number(x) \in Int
  BY DEF UpTo, Number

\* The answer to number n while there is something to answer, and the ending behind it.
LEMMA CircleAnswers ==
  ASSUME NEW r \in Night, r.s1 # <<>>, NEW n \in Nat \ {0}, n <= Len(Stages(r)) + 3,
         NEW a, a = parse_report_json(r, 3, n)
  PROVE  /\ n <= Len(Stages(r)) + 2 => a \in Reply /\ a \notin {Ending, errzero} /\ Shows(r, a, n)
         /\ n = Len(Stages(r)) + 3 => a = Ending
  <1>1. /\ r.s1 \in Seq(Int) /\ r.s2 \in Seq(Int) /\ r.start \in Int /\ r.end \in Int /\ r.score \in Int
        /\ Len(Stages(r)) \in Nat
    BY StagesAre DEF Night
  <1>2. a = _parse_day_circle(n, r)
    BY DEF parse_report_json
  <1>3. CASE n = 1
    <2>0. PICK e : e = <<Number(r.start), Number(r.end)>>
      OBVIOUS
    <2>1. a = PanelAnswer(1, 1, e)
      BY <1>2, <1>3, <2>0 DEF _parse_day_circle, __parse_day_circle_onbed
    <2>2. Number(r.start) \in Int /\ Number(r.end) \in Int
      BY <1>1 DEF Number
    <2>3. e \in Seq(Int)
      BY <2>0, <2>2
    <2>4. a \in Reply /\ a \notin {Ending, errzero} /\ a.data = e
      BY <2>1, <2>3, AnswerParts
    <2> QED BY <1>1, <1>3, <2>0, <2>4 DEF Shows
  <1>4. CASE n = 2
    <2>0. PICK e : e = <<UpTo(255, r.score)>>
      OBVIOUS
    <2>1. a = PanelAnswer(2, 7, e)
      BY <1>2, <1>4, <2>0 DEF _parse_day_circle, __parse_day_circle_score
    <2>2. UpTo(255, r.score) \in Int
      BY ZenonT(60), <1>1, UpToType
    <2>3. e \in Seq(Int)
      BY <2>0, <2>2
    <2>4. a \in Reply /\ a \notin {Ending, errzero} /\ a.data = e
      BY <2>1, <2>3, AnswerParts
    <2> QED BY <1>1, <1>4, <2>0, <2>4 DEF Shows
  <1>5. CASE n > 2
    <2>1. a = __parse_day_circle_sleepdata(n, r)
      BY <1>2, <1>5 DEF _parse_day_circle
    <2>0. PICK null : null = <<Null>>
      OBVIOUS
    <2>2. PICK x \in Seq(Int), y \in Seq(Int), w \in Seq(Int) :
            /\ x = r.s1 /\ y = r.s2 /\ w = Stages(r)
            /\ x = null => Len(w) = 0
            /\ x # null /\ y = null => Len(w) = Len(x)
            /\ x # null /\ y # null => Len(w) = Len(x) + Len(y)
            /\ x # null => \A i \in 1..Len(x) : w[i] = x[i]
            /\ x # null /\ y # null => \A i \in 1..Len(y) : w[Len(x) + i] = y[i]
      BY <1>1, <2>0, StagesAre
    <2>3. n <= Len(w) + 3 /\ Len(x) \in Nat /\ Len(y) \in Nat /\ Len(w) \in Nat
      BY <2>2
    <2>4. PICK none : none = <<>>
      OBVIOUS
    <2>8. none \in Seq(Int)
      <3>1. <<>> \in Seq(Int)
        OBVIOUS
      <3> QED BY <2>4, <3>1
    <2>5. CASE x = null
      <3>1. a = Ending
        BY <2>1, <2>0, <2>2, <2>5 DEF __parse_day_circle_sleepdata
      <3> QED BY <1>5, <2>2, <2>3, <2>5, <3>1
    <2>6. CASE x # null /\ n - 2 <= Len(x)
      <3>1. n - 2 \in 1..Len(x) /\ x[n - 2] \in Int /\ Len(w) >= Len(x)
        <4>1. n - 2 \in 1..Len(x)
          BY <1>5, <2>3, <2>6
        <4>2. Len(w) = Len(x) \/ Len(w) = Len(x) + Len(y)
          BY <2>2, <2>6
        <4>3. Len(w) >= Len(x)
          BY <2>3, <4>2
        <4> QED BY <4>1, <4>3
      <3>2. PICK e \in Int : e = UpTo(255, x[n - 2])
        BY ZenonT(60), <3>1, UpToType
      <3>3. a = PanelAnswer(n, e, none)
        BY SMTT(30), <2>1, <2>0, <2>2, <2>3, <2>4, <2>6, <3>2 DEF __parse_day_circle_sleepdata
      <3>4. a \in Reply /\ a \notin {Ending, errzero} /\ a.item = e
        <4>1. n \in Int /\ n # 0
          OBVIOUS
        <4> QED BY <2>8, <3>3, <4>1, AnswerParts
      <3>5. w[n - 2] = x[n - 2]
        BY <2>2, <2>6, <3>1
      <3>6. Shows(r, a, n)
        BY <1>5, <2>2, <3>2, <3>4, <3>5 DEF Shows
      <3>7. n # Len(w) + 3
        BY <2>3, <2>6, <3>1
      <3> QED BY <2>2, <3>4, <3>6, <3>7
    <2>7. CASE x # null /\ n - 2 > Len(x)
      <3>1. PICK k : k = n - 2 - Len(x)
        OBVIOUS
      <3>2. k \in Nat /\ k \in Int /\ k # 0 /\ n - 2 = Len(x) + k /\ n = Len(x) + k + 2
        BY <2>3, <2>7, <3>1
      <3>3. a = IF y # null /\ k <= Len(y) THEN PanelAnswer(k, UpTo(255, y[k]), none) ELSE Ending
        <4>1. ~(k <= 0)
          BY <3>2
        <4> QED BY <2>1, <2>0, <2>2, <2>4, <2>7, <3>1, <4>1 DEF __parse_day_circle_sleepdata
      <3>4. CASE y # null /\ k <= Len(y)
        <4>1. k \in 1..Len(y) /\ y[k] \in Int
          BY <2>3, <3>2, <3>4
        <4>2. PICK e \in Int : e = UpTo(255, y[k])
          BY ZenonT(60), <4>1, UpToType
        <4>3. a = PanelAnswer(k, e, none)
          BY <3>3, <3>4, <4>2
        <4>4. a \in Reply /\ a \notin {Ending, errzero} /\ a.item = e
          BY <2>8, <3>2, <4>3, AnswerParts
        <4>5. w[n - 2] = y[k] /\ Len(w) = Len(x) + Len(y)
          BY <2>2, <2>7, <3>2, <3>4, <4>1
        <4>6. Shows(r, a, n)
          BY <1>5, <2>2, <4>2, <4>4, <4>5 DEF Shows
        <4>7. n # Len(w) + 3
          BY <2>3, <3>2, <4>1, <4>5
        <4> QED BY <2>2, <4>4, <4>6, <4>7
      <3>5. CASE ~(y # null /\ k <= Len(y))
        <4>1. a = Ending
          BY <3>3, <3>5
        <4>2. n > Len(w) + 2
          <5>1. CASE y = null
            BY <2>2, <2>3, <2>7, <3>2, <5>1
          <5>2. CASE y # null
            <6>1. Len(w) = Len(x) + Len(y)
              BY <2>2, <2>7, <5>2
            <6>2. ~(k <= Len(y))
              BY <3>5, <5>2
            <6> QED BY <2>3, <3>2, <6>1, <6>2
          <5> QED BY <5>1, <5>2
        <4> QED BY <2>2, <2>3, <4>1, <4>2
      <3> QED BY <3>4, <3>5
    <2> QED BY <2>3, <2>5, <2>6, <2>7
  <1> QED BY <1>3, <1>4, <1>5

\* One answer more.
LEMMA WalkGoesOn ==
  ASSUME NEW r \in Night, NEW gs, NEW n \in Nat \ {0}, Walked(r, gs, n - 1), NEW a \in Reply, Shows(r, a, n)
  PROVE  Walked(r, Append(gs, a), n)
  <1>1. gs \in Seq(Reply) /\ Len(gs) = n - 1
    BY DEF Walked
  <1>2. Append(gs, a) \in Seq(Reply) /\ Len(Append(gs, a)) = n /\ Append(gs, a)[n] = a
    BY <1>1
  <1>3. ASSUME NEW i \in 1..n PROVE Shows(r, Append(gs, a)[i], i)
    <2>1. CASE i = n
      BY <1>2, <2>1
    <2>2. CASE i # n
      <3>1. i \in 1..n - 1 /\ i \in 1..Len(gs)
        BY <1>1, <2>2
      <3>2. Append(gs, a)[i] = gs[i]
        BY <1>1, <3>1
      <3> QED BY <3>1, <3>2 DEF Walked
    <2> QED BY <2>1, <2>2
  <1> QED BY <1>2, <1>3 DEF Walked

\* The panel asks for the next number of its walk, or begins one.
LEMMA AskCircleKeeps ==
  ASSUME PanelInv, AskCircle
  PROVE  PanelInv'
  <1>1. PICK r : r = card.report /\ r \in Night /\ r # NoReport
    BY DEF AskCircle, PanelInv
  <1>2. PICK on \in BOOLEAN : on = (panel.cmd = 3 /\ panel.num > 0)
    OBVIOUS
  <1>3. PICK n : n = (IF on THEN panel.num ELSE 1)
    OBVIOUS
  <1>4. PICK a : a = parse_report_json(r, 3, n)
    OBVIOUS
  <1>5. PICK w : w = (IF on /\ panel.walk # r THEN NoReport ELSE r)
    OBVIOUS
  <1>6. PICK gs : gs = (IF on THEN panel.got ELSE <<>>)
    OBVIOUS
  <1>7. /\ panel' = IF a \in {Ending, errzero} THEN [cmd |-> 3, num |-> 0, got |-> gs, walk |-> w]
                    ELSE [cmd |-> 3, num |-> n + 1, got |-> Append(gs, a), walk |-> w]
        /\ card' = card
    BY <1>1, <1>2, <1>3, <1>4, <1>5, <1>6 DEF AskCircle
  <1>8. n \in Nat \ {0} /\ w \in Night
    <2>1. CASE on
      <3>1. n = panel.num /\ n > 0 /\ n \in Nat
        BY <1>2, <1>3, <2>1 DEF PanelInv
      <3> QED BY <1>1, <1>5, <3>1, NoReportIsNight
    <2>2. CASE ~on
      BY <1>1, <1>3, <1>5, <2>2
    <2> QED BY <2>1, <2>2
  <1>9. w # NoReport /\ r.s1 # <<>> => n <= Len(Stages(r)) + 3 /\ Walked(r, gs, n - 1) /\ w = r
    <2>1. SUFFICES ASSUME w # NoReport, r.s1 # <<>> PROVE n <= Len(Stages(r)) + 3 /\ Walked(r, gs, n - 1) /\ w = r
      OBVIOUS
    <2>2. w = r
      BY <1>5, <2>1
    <2>3. CASE on
      <3>1. panel.walk = r
        BY <1>5, <2>1, <2>3
      <3> QED BY <1>1, <1>2, <1>3, <1>6, <2>2, <2>3, <3>1 DEF PanelInv, WalkInv
    <2>4. CASE ~on
      <3>1. n = 1 /\ gs = <<>> /\ n - 1 = 0
        BY <1>3, <1>6, <2>4
      <3>2. <<>> \in Seq(Reply) /\ Len(<<>>) = 0 /\ Len(Stages(r)) \in Nat
        BY <1>1, StagesAre
      <3>3. Walked(r, <<>>, 0)
        BY <3>2 DEF Walked
      <3> QED BY <2>2, <3>1, <3>2, <3>3
    <2> QED BY <2>3, <2>4
  <1>10. r.s1 = <<>> => a = errzero
    <2>1. a = _parse_day_circle(n, r)
      BY <1>4 DEF parse_report_json
    <2> QED BY <2>1 DEF _parse_day_circle
  <1>11. Len(Stages(r)) \in Nat
    BY <1>1, StagesAre
  <1>12. CASE a \in {Ending, errzero}
    <2>1. panel'.cmd = 3 /\ panel'.num = 0 /\ panel'.got = gs /\ panel'.walk = w
      BY <1>7, <1>12
    <2>2. w # NoReport /\ r.s1 # <<>> => n = Len(Stages(r)) + 3
      BY <1>1, <1>4, <1>8, <1>9, <1>11, <1>12, CircleAnswers
    <2>3. w # NoReport /\ r.s1 # <<>> => n - 1 = Len(Stages(r)) + 2
      BY <2>2, <1>11
    <2>4. w # NoReport /\ w.s1 # <<>> => Walked(w, gs, Len(Stages(w)) + 2)
      BY <1>5, <1>9, <2>3
    <2>5. WalkInv'
      BY <2>1, <2>4 DEF WalkInv
    <2>6. ReadingsTruthful'
      BY <2>1 DEF ReadingsTruthful
    <2> QED BY <1>1, <1>7, <1>8, <2>1, <2>5, <2>6 DEF PanelInv
  <1>13. CASE a \notin {Ending, errzero}
    <2>1. panel'.cmd = 3 /\ panel'.num = n + 1 /\ panel'.got = Append(gs, a) /\ panel'.walk = w
      BY <1>7, <1>13
    <2>2. r.s1 # <<>>
      BY <1>10, <1>13
    <2>3. w # NoReport => w = r /\ n <= Len(Stages(r)) + 2 /\ a \in Reply /\ Shows(r, a, n)
      BY <1>1, <1>4, <1>8, <1>9, <1>11, <1>13, <2>2, CircleAnswers
    <2>4. w # NoReport => Walked(w, Append(gs, a), n)
      BY <1>1, <1>8, <1>9, <2>2, <2>3, WalkGoesOn
    <2>5. n + 1 > 0 /\ n + 1 # 0 /\ (n + 1) - 1 = n /\ n + 1 \in Nat
      BY <1>8
    <2>6. WalkInv'
      <3>1. w # NoReport => w.s1 # <<>> /\ n + 1 <= Len(Stages(w)) + 3
        BY <1>8, <1>11, <2>2, <2>3
      <3> QED BY <2>1, <2>4, <2>5, <3>1 DEF WalkInv
    <2>7. ReadingsTruthful'
      BY <2>1 DEF ReadingsTruthful
    <2> QED BY <1>1, <1>7, <1>8, <2>1, <2>5, <2>6, <2>7 DEF PanelInv
  <1> QED BY <1>12, <1>13

\* Numbers of two bytes.
LEMMA WordIsInt == ASSUME NEW x \in Word PROVE x \in Int
  <1>1. MaxWord \in Nat
    BY DEF MaxWord
  <1> QED BY <1>1 DEF Word

LEMMA WordIsSent == ASSUME NEW x \in Word PROVE UpTo(MaxWord, x) = x
  BY DEF Word, UpTo

\* A number's two bytes are the number.
LEMMA TwoBytes ==
  ASSUME NEW x \in Int, NEW b, b = get_single_char_from_int2(x)
  PROVE  256 * b[1] + b[2] = x
  <1>1. b[1] = x \div 256 /\ b[2] = x % 256
    BY DEF get_single_char_from_int2
  <1>2. 256 * (x \div 256) + (x % 256) = x
    OBVIOUS
  <1> QED BY <1>1, <1>2

\* The sums of a day.
LEMMA SumsTold ==
  ASSUME NEW r \in Night, NEW b, b = parse_report_json(r, 2, 0).data
  PROVE  /\ r.deep \in Word => 256 * b[1] + b[2] = r.deep
         /\ r.light \in Word => 256 * b[3] + b[4] = r.light
  <1>1. PICK x : x = UpTo(MaxWord, r.deep)
    OBVIOUS
  <1>2. PICK y : y = UpTo(MaxWord, r.light)
    OBVIOUS
  <1>3. x \in Int /\ y \in Int
    <2>1. MaxWord \in Nat
      BY DEF MaxWord
    <2> QED BY <1>1, <1>2, <2>1, UpToType DEF Night
  <1>4. b = get_single_char_from_int2(x) \o get_single_char_from_int2(y)
    <2>1. parse_report_json(r, 2, 0) = _parse_month_report(r)
      BY DEF parse_report_json
    <2> QED BY <1>1, <1>2, <2>1 DEF _parse_month_report, PanelAnswer
  <1>5. b = <<x \div 256, x % 256, y \div 256, y % 256>>
    BY <1>4 DEF get_single_char_from_int2
  <1>6. 256 * (x \div 256) + (x % 256) = x /\ 256 * (y \div 256) + (y % 256) = y
    BY <1>3
  <1>7. 256 * b[1] + b[2] = x /\ 256 * b[3] + b[4] = y
    BY <1>5, <1>6
  <1> QED BY <1>1, <1>2, <1>7, WordIsSent

\* The rate at an hour.
LEMMA RateTold ==
  ASSUME NEW a \in Rates, NEW hour, NEW b, b = get_single_char_from_int2(_parse_day_common(a, hour))
  PROVE  IF hour \in Range(a.time) /\ Len(a.num) = Len(a.time)
           THEN \E i \in DOMAIN a.time : a.time[i] = hour /\ 256 * b[1] + b[2] = a.num[i]
           ELSE 256 * b[1] + b[2] = 0
  <1>1. PICK x \in Seq(Word), y \in Seq(Int) : x = a.num /\ y = a.time
    BY DEF Rates
  <1>2. PICK at : at = {i \in DOMAIN y : y[i] = hour}
    OBVIOUS
  <1>3. hour \in Range(y) <=> at # {}
    BY <1>2 DEF Range
  <1>4. CASE Len(x) = Len(y) /\ at # {}
    <2>1. at \subseteq Nat /\ at # {}
      BY <1>2, <1>4
    <2>2. Min(at) \in at
      BY <2>1, LeastMember
    <2>3. PICK i : i = Min(at) /\ i \in DOMAIN y /\ y[i] = hour
      BY <1>2, <2>2
    <2>4. x[i] \in Int
      <3>1. i \in 1..Len(x) /\ x[i] \in Word
        BY <1>4, <2>3
      <3> QED BY <3>1, WordIsInt
    <2>5. _parse_day_common(a, hour) = x[i]
      BY <1>1, <1>2, <1>4, <2>3 DEF _parse_day_common
    <2>6. 256 * b[1] + b[2] = x[i]
      BY <2>4, <2>5, TwoBytes
    <2> QED BY <1>1, <1>3, <1>4, <2>3, <2>6
  <1>5. CASE ~(Len(x) = Len(y) /\ at # {})
    <2>1. _parse_day_common(a, hour) = 0
      BY <1>1, <1>2, <1>5 DEF _parse_day_common
    <2>2. 256 * b[1] + b[2] = 0
      BY <2>1, TwoBytes
    <2> QED BY <1>1, <1>3, <1>5, <2>2
  <1> QED BY <1>4, <1>5

\* One reading.
LEMMA AskOnceKeeps ==
  ASSUME PanelInv, NEW cmd, NEW hour, (cmd = 2 /\ hour = 0) \/ cmd \in 4..6, AskOnce(cmd, hour)
  PROVE  PanelInv'
  <1>1. PICK r : r = card.report /\ r \in Night
    BY DEF PanelInv
  <1>2. PICK a : a = parse_report_json(r, cmd, hour)
    OBVIOUS
  <1>3. /\ panel'.cmd = cmd /\ panel'.num = hour /\ panel'.got = <<a>> /\ panel'.walk = r
        /\ card' = card
    BY <1>1, <1>2 DEF AskOnce
  <1>4. panel'.got[1].data = a.data
    BY <1>3
  <1>5. cmd # 3
    OBVIOUS
  <1>6. WalkInv'
    BY <1>3, <1>5 DEF WalkInv
  <1>7. ReadingsTruthful'
    <2>1. CASE cmd = 2
      BY <1>1, <1>2, <1>3, <1>4, <2>1, SumsTold DEF ReadingsTruthful
    <2>2. CASE cmd \in 4..6
      <3>1. PICK t : t = IF cmd = 4 THEN r.heart_beat ELSE IF cmd = 5 THEN r.breath ELSE r.move
        OBVIOUS
      <3>2. t \in Rates
        BY <1>1, <3>1 DEF Night
      <3>3. a = PanelAnswer(hour, 0, get_single_char_from_int2(_parse_day_common(t, hour)))
        BY <1>2, <2>2, <3>1 DEF parse_report_json, _parse_day_heart, _parse_day_breath, _parse_day_movement
      <3>4. a.data = get_single_char_from_int2(_parse_day_common(t, hour))
        BY <3>3 DEF PanelAnswer
      <3>5. PICK b : b = a.data
        OBVIOUS
      <3>6. IF hour \in Range(t.time) /\ Len(t.num) = Len(t.time)
              THEN \E i \in DOMAIN t.time : t.time[i] = hour /\ 256 * b[1] + b[2] = t.num[i]
              ELSE 256 * b[1] + b[2] = 0
        BY <3>2, <3>4, <3>5, RateTold
      <3>7. panel'.cmd # 2 /\ panel'.got[1].data = b
        BY <1>3, <1>4, <2>2, <3>5
      <3> QED BY <1>3, <2>2, <3>1, <3>6, <3>7 DEF ReadingsTruthful
    <2> QED BY <2>1, <2>2
  <1> QED BY <1>1, <1>3, <1>5, <1>6, <1>7 DEF PanelInv

\* What the panel has stays right when the report on the card is replaced.
LEMMA PanelIdle ==
  ASSUME PanelInv, panel' = panel, card'.report \in Night
  PROVE  PanelInv'
  BY DEF PanelInv, WalkInv, ReadingsTruthful

LEMMA PanelInitial ==
  ASSUME BedInit
  PROVE  PanelInv
  <1>1. card.report = NoReport /\ panel.walk = NoReport /\ panel.cmd = 0
    BY DEF BedInit, NoWalk
  <1> QED BY <1>1, NoReportIsNight DEF PanelInv, WalkInv, ReadingsTruthful

\* What is on the card stays, but for the report of a night.
LEMMA CardStep ==
  ASSUME PanelInv, NEW t, NEW more, Report(t, more)
  PROVE  card'.report \in Night
  <1>1. card' = card \/ \E n \in Nights : card' = [card EXCEPT !.report = n]
    BY DEF Report, Beacon
  <1>2. CASE card' = card
    BY <1>2 DEF PanelInv
  <1>3. ASSUME NEW n \in Nights, card' = [card EXCEPT !.report = n] PROVE card'.report \in Night
    BY <1>3, NightsAssumption DEF PanelInv
  <1> QED BY <1>1, <1>2, <1>3

LEMMA PanelStep ==
  ASSUME PanelInv, [BedNext]_bedVars
  PROVE  PanelInv'
  <1>1. ASSUME NEW t, NEW more, Report(t, more), panel' = panel PROVE PanelInv'
    BY <1>1, CardStep, PanelIdle
  <1>2. ASSUME panel' = panel, card' = card PROVE PanelInv'
    BY <1>2, PanelIdle DEF PanelInv
  <1>3. CASE SensorSilent
    <2>1. panel' = panel /\ (card' = card \/ \E t, more : Report(t, more))
      BY <1>3 DEF SensorSilent, leom_pre_check_tail_for_report
    <2> QED BY <2>1, <1>1, <1>2
  <1>4. ASSUME NEW b \in BOOLEAN, Sample(b) PROVE PanelInv'
    <2>1. panel' = panel /\ ((\E w : leom_handle_sensor_data(w)) \/ card' = card)
      BY <1>4 DEF Sample
    <2>2. ASSUME NEW w, leom_handle_sensor_data(w) PROVE card' = card \/ _append2_tmpfile
      BY <2>2 DEF leom_handle_sensor_data
    <2>3. ASSUME _append2_tmpfile PROVE card' = card \/ \E t, more : Report(t, more)
      BY <2>3 DEF _append2_tmpfile
    <2> QED BY <2>1, <2>2, <2>3, <1>1, <1>2
  <1>5. ASSUME NEW f \in {"cp", "gen"}, Signal(f) PROVE PanelInv'
    BY <1>2, <1>5 DEF Signal
  <1>6. CASE SensorReopen \/ Restart \/ SetTime \/ UNCHANGED bedVars
    <2>1. panel' = panel /\ card' = card
      BY <1>6 DEF SensorReopen, Restart, SetTime, bedVars
    <2> QED BY <2>1, <1>2
  <1>7. CASE Mount
    <2>1. panel' = panel /\ card'.report = card.report
      BY <1>7 DEF Mount
    <2> QED BY <2>1, PanelIdle DEF PanelInv
  <1>8. CASE AskCircle
    BY <1>8, AskCircleKeeps
  <1>9. CASE AskNothing
    <2>1. card' = card /\ panel'.walk = NoReport /\ panel'.cmd = 0
      BY <1>9 DEF AskNothing, NoWalk
    <2> QED BY <2>1, NoReportIsNight DEF PanelInv, WalkInv, ReadingsTruthful
  <1>10. CASE AskOnce(2, 0)
    BY <1>10, AskOnceKeeps
  <1>11. ASSUME NEW cmd \in 4..6, NEW hour \in Hours, AskOnce(cmd, hour) PROVE PanelInv'
    BY <1>11, AskOnceKeeps
  <1> QED BY <1>3, <1>4, <1>5, <1>6, <1>7, <1>8, <1>9, <1>10, <1>11 DEF BedNext

LEMMA WalksComplete == PanelInv => WalkComplete
  <1> SUFFICES ASSUME PanelInv, panel.cmd = 3, panel.num = 0, panel.walk # NoReport, panel.walk.s1 # <<>>
               PROVE  WalkComplete
    BY DEF WalkComplete
  <1>1. PICK r \in Night : r = panel.walk
    BY DEF PanelInv
  <1>2. PICK gs : gs = panel.got
    OBVIOUS
  <1>3. Walked(r, gs, Len(Stages(r)) + 2)
    BY <1>1, <1>2 DEF PanelInv, WalkInv
  <1>4. PICK w \in Seq(Int) : w = Stages(r)
    BY StagesAre
  <1>5. Len(gs) = Len(w) + 2 /\ \A i \in 1..Len(w) + 2 : Shows(r, gs[i], i)
    BY <1>3, <1>4 DEF Walked
  <1>6. gs[1].data = <<Number(r.start), Number(r.end)>> /\ gs[2].data = <<UpTo(255, r.score)>>
    BY <1>5 DEF Shows
  <1>7. ASSUME NEW i \in DOMAIN w PROVE gs[i + 2].item = UpTo(255, w[i])
    <2>1. i + 2 \in 1..Len(w) + 2 /\ i + 2 > 2 /\ (i + 2) - 2 = i
      OBVIOUS
    <2> QED BY <1>4, <1>5, <2>1 DEF Shows
  <1> QED BY ZenonT(60), <1>1, <1>2, <1>4, <1>5, <1>6, <1>7 DEF WalkComplete, Number, UpTo

\* A panel that walks through a night gets its times, its score and all its stages in their order, and its
\* readings are the report's (parse_report.lua).
THEOREM PanelToldAll == BedSpec => []NightComplete
  <1>1. PanelInv => NightComplete
    BY WalksComplete DEF PanelInv, NightComplete
  <1> QED BY <1>1, PanelInitial, PanelStep, PTL DEF BedSpec
=============================================================================
