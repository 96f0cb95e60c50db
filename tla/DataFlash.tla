------------------------------- MODULE DataFlash -------------------------------
(* The AT45 driver of the uC/OS board (spi_flash.c): a request is cut into pages, each *)
(* taken into the chip's buffer, changed there and programmed with an erase.  Every      *)
(* command first waits for the chip.  The power may go between the pages, or while one    *)
(* is programmed.  Addresses run round a ring of MAXCAP pages.                             *)
EXTENDS Integers, Sequences, FiniteSetsExt

CONSTANTS AtPageSize,  \* 512
          MAXCAP,    \* 4095
          AtRequests   \* what a caller asks for: [op, at, data], data standing for a length when op is read

VARIABLES at45,      \* [mem, buf, busy, req, k, dat]: the chip, the page it programs, and the call under way
          kept,      \* for the properties: the ring as the calls that returned have left it
          unsure     \* for the properties: cells that no longer say anything

NoCall == [op |-> "none", at |-> 0, data |-> <<>>]
Junk == 2
InAtPage == 0..AtPageSize - 1
Pages == 0..MAXCAP
RingSize == MAXCAP * AtPageSize

atVars == <<at45, kept, unsure>>

\* A request is shorter than the ring: the callers' records are of some hundred bytes.
ASSUME AtAssumption ==
  /\ AtPageSize \in Nat \ {0} /\ MAXCAP \in Nat \ {0}
  /\ AtRequests \subseteq [op : {"write", "read"}, at : 0..RingSize - 1, data : Seq({0, 1})]
  /\ \A r \in AtRequests : Len(r.data) < RingSize

AtInit ==
  /\ at45 = [mem |-> [p \in Pages |-> [i \in InAtPage |-> 1]], buf |-> [i \in InAtPage |-> Junk], busy |-> {},
             req |-> NoCall, k |-> 0, dat |-> <<>>]
  /\ kept = [x \in 0..RingSize - 1 |-> 1] /\ unsure = {}

-----------------------------------------------------------------------------
(* How SPIReadFlash and SPIWriteFlash cut a request: step 0 is its first page. *)

AddrofPage(r) == r.at % AtPageSize
OnePage(r) == Len(r.data) <= AtPageSize - 1 - AddrofPage(r)
NumPage(r) == IF OnePage(r) THEN 0 ELSE (Len(r.data) - (AtPageSize - 1 - AddrofPage(r))) \div AtPageSize
AddrofLastPage(r) == ((Len(r.data) % AtPageSize) + AddrofPage(r)) % AtPageSize
Steps(r) == IF OnePage(r) THEN 0..0 ELSE 0..NumPage(r) + 1

\* After the first page the ring goes on with page 0, after another one with page 1.
Page(r, k) ==
  LET straight == r.at \div AtPageSize + k
  IN IF straight < MAXCAP THEN straight
     ELSE IF r.at \div AtPageSize + 1 >= MAXCAP THEN k - 1 ELSE (straight - MAXCAP) + 1

From(r, k) == IF k = 0 THEN 0 ELSE (AtPageSize - AddrofPage(r)) + (k - 1) * AtPageSize
Count(r, k) ==
  CASE k = 0 -> IF OnePage(r) THEN Len(r.data) ELSE AtPageSize - AddrofPage(r)
    [] k > 0 /\ k <= NumPage(r) -> AtPageSize
    [] OTHER -> AddrofLastPage(r)
Offset(r, k) == IF k = 0 THEN AddrofPage(r) ELSE 0

\* One whole page too many when all but one byte of a page is left, and a page skipped by the ring:
\* neither is what the caller asked for.
Exact(r) ==
  /\ OnePage(r) \/ (Len(r.data) - (AtPageSize - AddrofPage(r))) % AtPageSize # AtPageSize - 1
  /\ \A k \in Steps(r) : Count(r, k) > 0 => Page(r, k) = (r.at \div AtPageSize + k) % MAXCAP

-----------------------------------------------------------------------------
(* The chip's commands; status is waited for before each. *)

\* Bit 7 is read until the chip has programmed its page.
AT45DBXX_STATUS(c) == [c EXCEPT !.busy = {}]

MainToBuffer1AT45(c, p) == [AT45DBXX_STATUS(c) EXCEPT !.buf = c.mem[p]]

\* What lies behind the caller's data is written too if it comes to that.
AT45Buffer1Write(c, a, r, from, n) ==
  [AT45DBXX_STATUS(c) EXCEPT !.buf = [i \in InAtPage |->
     IF i < a \/ i >= a + n THEN c.buf[i] ELSE IF from + (i - a) < Len(r.data) THEN r.data[from + (i - a) + 1] ELSE Junk]]

AT45Buffer1Read(c, a, n) == [AT45DBXX_STATUS(c) EXCEPT !.dat = @ \o [i \in 1..n |-> c.buf[a + i - 1]]]

Buffer1ToMainWithErase(c, p) == [AT45DBXX_STATUS(c) EXCEPT !.mem[p] = c.buf, !.busy = {p}]

-----------------------------------------------------------------------------
Call(r) ==
  /\ at45.req = NoCall
  /\ at45' = [at45 EXCEPT !.req = r, !.k = 0, !.dat = <<>>]
  /\ UNCHANGED <<kept, unsure>>

Cells(p) == {p * AtPageSize + i : i \in InAtPage} \cap (0..RingSize - 1)
Touched(r) == {(r.at + i) % RingSize : i \in 0..Len(r.data) - 1} \cup UNION {Cells(Page(r, k)) : k \in Steps(r)}

\* Mutant: the last page is not read before it is changed.
LoadsFirst(r, k) == k = 0

\* Whole pages need not be read first.
Loads(r, k) == k = 0 \/ k = NumPage(r) + 1

\* WritePage, for one page of the request.
SPIWriteFlash ==
  LET r == at45.req
      k == at45.k
      c == IF Loads(r, k) THEN MainToBuffer1AT45(at45, Page(r, k)) ELSE at45
  IN /\ r.op = "write" /\ k \in Steps(r)
     /\ at45' = [Buffer1ToMainWithErase(AT45Buffer1Write(c, Offset(r, k), r, From(r, k), Count(r, k)), Page(r, k)) EXCEPT !.k = k + 1]
     /\ unsure' = IF Exact(r) THEN unsure ELSE unsure \cup Touched(r)
     /\ UNCHANGED kept

SPIReadFlash ==
  LET r == at45.req
      k == at45.k
  IN /\ r.op = "read" /\ k \in Steps(r)
     /\ at45' = [AT45Buffer1Read(MainToBuffer1AT45(at45, Page(r, k)), Offset(r, k), Count(r, k)) EXCEPT !.k = k + 1]
     /\ UNCHANGED <<kept, unsure>>

\* Cells that a call changes as it should are sure again.
Return ==
  LET r == at45.req
      at(x) == {i \in 1..Len(r.data) : (r.at + i - 1) % RingSize = x}
  IN /\ r # NoCall /\ at45.k \notin Steps(r)
     /\ kept' = IF r.op = "write" THEN [x \in 0..RingSize - 1 |-> IF at(x) = {} THEN kept[x] ELSE r.data[Max(at(x))]] ELSE kept
     /\ unsure' = IF r.op = "write" /\ Exact(r) THEN {x \in unsure : at(x) = {}} ELSE unsure
     /\ at45' = [at45 EXCEPT !.req = NoCall, !.k = 0, !.dat = <<>>]

AtPending == (UNION {Cells(p) : p \in at45.busy}) \cup (IF at45.req.op = "write" THEN Touched(at45.req) ELSE {})

\* The page that is being programmed is lost, all of it, and the call with it; the buffer is not kept.
AtPowerLoss ==
  /\ at45' = [at45 EXCEPT !.mem = [p \in Pages |-> IF p \in at45.busy THEN [i \in InAtPage |-> Junk] ELSE at45.mem[p]],
                          !.buf = [i \in InAtPage |-> Junk], !.busy = {}, !.req = NoCall, !.k = 0, !.dat = <<>>]
  /\ unsure' = unsure \cup AtPending
  /\ UNCHANGED kept

AtNext == SPIWriteFlash \/ SPIReadFlash \/ Return \/ AtPowerLoss \/ \E r \in AtRequests : Call(r)

AtSpec == AtInit /\ [][AtNext]_atVars

-----------------------------------------------------------------------------
\* Between two calls the ring holds what was written to it, up to what a loss of power or a request that
\* is cut wrongly has spoilt; and a read returns that.
AtAsTold ==
  /\ at45.req = NoCall => \A x \in 0..RingSize - 1 : x \in unsure \/ at45.mem[x \div AtPageSize][x % AtPageSize] = kept[x]
  /\ LET r == at45.req IN
     r.op = "read" /\ at45.k \notin Steps(r) /\ Exact(r) =>
       /\ Len(at45.dat) = Len(r.data)
       /\ \A i \in 1..Len(r.data) : LET x == (r.at + i - 1) % RingSize IN x \in unsure \/ at45.dat[i] = kept[x]
=============================================================================
