-------------------------------- MODULE NorChip --------------------------------
(* A serial NOR flash as its two drivers use it (nor-spi-driver: SpiNor and RaSpi).  *)
(* The chip is external: a program or erase command needs the write enable latch,     *)
(* which it uses up, and keeps the chip busy; a busy chip ignores every command but    *)
(* the reading of its status.  Programming clears bits and wraps in its page.           *)
EXTENDS Integers, Sequences

CONSTANTS Size, PageSize, EraseSize   \* cells of the chip, of a page and of an erase block

\* Pages are whole words (sst_write).
ASSUME ChipAssumption ==
  /\ Size \in Nat \ {0} /\ EraseSize \in Nat \ {0}
  /\ PageSize \in Nat \ {0} /\ PageSize % 2 = 0

VARIABLES chip,    \* [mem, hot, wel, wip, four, bp, quad, astray]; hot: the cells that it is changing while it is busy;
                   \* astray: a command came with the wrong number of address bytes
          stored,  \* for the properties: what the chip must hold, going by the requests that were answered with success
          vague    \* for the properties: cells that a request which failed, or was cut off, left undetermined

Cell == 0..Size - 1
Fresh(m) == [mem |-> m, hot |-> {}, wel |-> FALSE, wip |-> FALSE, four |-> FALSE, bp |-> 0, quad |-> FALSE, astray |-> FALSE]
Blank == [a \in Cell |-> 1]
Span(a, n) == {x \in Cell : x >= a /\ x < a + n}
NoReq == [op |-> "none", at |-> 0, data |-> <<>>]

\* Block protection: none, or the last Size / 64 ... Size / 2 cells, or all.
Open(bp) == Size - Size \div <<64, 32, 16, 8, 4, 2, 1>>[bp]
Protected(c, a) == c.bp > 0 /\ a >= Open(c.bp)

Accept(c, d) == IF c.wip THEN c ELSE d

WREN(c) == Accept(c, [c EXCEPT !.wel = TRUE])
WRDI(c) == Accept(c, [c EXCEPT !.wel = FALSE])
EN4B(c, on) == Accept(c, [c EXCEPT !.four = on])

\* The status register: protection and quad bit.
WRSR(c, bp, quad) == Accept(c, IF c.wel THEN [c EXCEPT !.bp = bp, !.quad = quad, !.wip = TRUE] ELSE c)

\* A command with an address of four bytes, or three, that the chip must expect so.
Addressed(c, four, d) == Accept(c, IF c.four # four THEN [c EXCEPT !.astray = TRUE] ELSE d)

\* The cell that byte i of the data goes to, and the bytes that go to cell x.
InPage(a, i) == (a \div PageSize) * PageSize + ((a + i) % PageSize)
Meant(a, data, x) == {i \in 1..Len(data) : InPage(a, i - 1) = x}

PP(c, four, a, data) ==
  LET cells == {x \in Cell : Meant(a, data, x) # {} /\ ~Protected(c, x)}
      mem == [x \in Cell |-> IF x \in cells /\ \E i \in Meant(a, data, x) : data[i] = 0 THEN 0 ELSE c.mem[x]]
  IN Addressed(c, four, IF c.wel /\ ~Protected(c, a) THEN [c EXCEPT !.wip = TRUE, !.hot = cells, !.mem = mem] ELSE c)

Wiped(m, cells) == [x \in Cell |-> IF x \in cells THEN 1 ELSE m[x]]

Block(a) == {x \in Cell : x \div EraseSize = a \div EraseSize}

SE(c, four, a) ==
  Addressed(c, four, IF c.wel /\ \A x \in Block(a) : ~Protected(c, x)
                     THEN [c EXCEPT !.wip = TRUE, !.hot = Block(a), !.mem = Wiped(@, Block(a))] ELSE c)

\* The whole chip, if nothing is protected.
CE(c) == Accept(c, IF c.wel /\ c.bp = 0 THEN [c EXCEPT !.wip = TRUE, !.hot = Cell, !.mem = Blank] ELSE c)

READ(c, four) == Addressed(c, four, c)

\* What the chip is when a driver has waited for it: the latch is used up.
Done(c) == IF c.wip THEN [c EXCEPT !.wip = FALSE, !.wel = FALSE, !.hot = {}] ELSE c

\* Power goes: the bits of the status register stay; the cells that were hot say nothing any more.
PowerLoss(c) == [Fresh(c.mem) EXCEPT !.bp = c.bp, !.quad = c.quad]

\* What the first n bytes of a request must have done: cleared bits where nothing is protected.
Programmed(m, c, r, n) ==
  [x \in Cell |-> IF x \in Span(r.at, n) /\ ~Protected(c, x) /\ r.data[x - r.at + 1] = 0 THEN 0 ELSE m[x]]

\* Both drivers fill a page up to its end, or as far as the data go.
page_size(to, left) == LET rest == PageSize - (to % PageSize) IN IF left < rest THEN left ELSE rest

-----------------------------------------------------------------------------
\* Outside the cells of failed requests the chip holds what the requests that succeeded have put there:
\* no byte in a wrong place, none lost, and no command with an address the chip misreads.
AsTold == ~chip.astray /\ \A x \in Cell \ vague : chip.mem[x] = stored[x]
=============================================================================
