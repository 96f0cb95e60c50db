-------------------------------- MODULE SpiNor --------------------------------
(* The generic driver (spi-nor.c over m25p80.c): probe, erase, write, read, lock and   *)
(* unlock under nor->lock, one step for each page, word or sector, between which the    *)
(* board may be reset.  SST chips are programmed word by word; chips of more than        *)
(* 16 MiB stay in 4-byte mode, or have commands of their own.  A chip that is erased      *)
(* whole may be busy for longer than the driver waits.                                     *)
EXTENDS NorChip

CONSTANTS NorRequests,  \* what the callers ask for: [op, at, data], data standing for a length but in a write
          Chips,        \* the kinds of chips of spi_nor_ids: [mfr, large, sst, quad]
          Chunks        \* m25p,chunked-io: 0 for none

\* The MTD core answers a request for nothing itself.  A piece of one byte has no room for the fourth
\* address byte.
ASSUME NorAssumption ==
  /\ NorRequests \subseteq [op : {"write", "erase", "read", "lock", "unlock"}, at : Nat, data : Seq({0, 1})]
  /\ \A r \in NorRequests : r.data # <<>>
  /\ Chunks \subseteq Nat \ {1}

VARIABLE nor         \* [pc, four, info, chunk, req, pos, was, slow]; was: the protection before the request; slow: a chip erase is under way

norVars == <<chip, stored, vague, nor>>

\* The table of chips, as far as the driver treats them differently: the manufacturer, more than 16 MiB,
\* word programming, and quad reading where the board is wired for it.  (Without the memories that need
\* no erasing.)
spi_nor_ids ==
  [mfr : {"atmel", "intel", "macronix", "st", "winbond", "amd", "sst"}, large : {FALSE}, sst : {FALSE}, quad : {FALSE}]
  \cup [mfr : {"macronix", "st", "winbond", "amd"}, large : {TRUE}, sst : {FALSE}, quad : {FALSE}]
  \cup [mfr : {"sst"}, large : {FALSE}, sst : {TRUE}, quad : {FALSE}]
  \cup [mfr : {"amd"}, large : BOOLEAN, sst : {FALSE}, quad : {TRUE}]
  \cup [mfr : {"macronix"}, large : {TRUE}, sst : {FALSE}, quad : {TRUE}]

NorInit ==
  /\ chip = Fresh(Blank) /\ stored = Blank /\ vague = {}
  /\ nor \in [pc : {"down"}, four : {FALSE}, info : Chips \cap spi_nor_ids, chunk : Chunks, req : {NoReq}, pos : {0}, was : {0}, slow : {FALSE}]

-----------------------------------------------------------------------------
(* spi_nor_scan *)

\* Atmel, Intel, Macronix and SST chips are unprotected first; nothing waits for that.
Unprotect(c) == IF nor.info.mfr \in {"atmel", "intel", "macronix", "sst"} THEN WRSR(WREN(c), 0, FALSE) ELSE c

\* The quad bit, read back: Macronix waits for it, the others do not.
set_quad_mode(c) ==
  IF ~nor.info.quad THEN c
  ELSE IF nor.info.mfr = "macronix" THEN Done(WRSR(WREN(c), c.bp, TRUE)) ELSE WRSR(WREN(c), 0, TRUE)

\* Mutant: the chip is not told.
StaysIn3Byte(c) == c

\* Micron needs the latch around it; AMD's own 4-byte commands need no mode.
set_4byte(c) ==
  CASE ~nor.info.large \/ nor.info.mfr = "amd" -> c
    [] nor.info.large /\ nor.info.mfr = "st" -> WRDI(EN4B(WREN(c), TRUE))
    [] OTHER -> EN4B(c, TRUE)

\* spi_nor_match_id and spi_nor_read_id find the chip; without its quad bit the probe fails.
spi_nor_scan ==
  /\ nor.pc = "down"
  /\ LET c == set_quad_mode(Unprotect(chip)) IN
     /\ chip' = IF nor.info.quad /\ ~c.quad THEN c ELSE set_4byte(c)
     /\ nor' = [nor EXCEPT !.pc = IF nor.info.quad /\ ~c.quad THEN "failed" ELSE "idle",
                           !.four = nor.info.large, !.slow = FALSE]
  /\ UNCHANGED <<stored, vague>>

\* The width the chip takes from a command: AMD's 4-byte commands say it themselves.
Wide(c) == IF nor.info.mfr = "amd" THEN c.four ELSE nor.four

m25p80_write(c, a, data) == PP(c, Wide(c), a, data)

m25p80_erase(c, a) == SE(c, Wide(c), a)

\* In chunks too.
m25p80_read(c) == READ(c, Wide(c))

-----------------------------------------------------------------------------
(* Requests *)

To == nor.req.at + nor.pos
Left == Len(nor.req.data) - nor.pos
Pending == IF nor.pc \in {"write", "erase"} THEN Span(nor.req.at, Len(nor.req.data)) ELSE {}

\* spi_nor_lock_and_prep and the first wait_till_ready; the MTD core has checked the bounds.
Begin(r) ==
  /\ nor.pc = "idle" /\ r.at + Len(r.data) <= Size
  /\ nor' = [nor EXCEPT !.pc = r.op, !.req = r, !.pos = 0, !.was = chip.bp, !.slow = FALSE]
  /\ chip' = Done(chip)
  /\ UNCHANGED <<stored, vague>>

\* The chip stays busy for longer than MAX_READY_WAIT_JIFFIES: nothing is done.
wait_till_ready(r) == nor.pc = "idle" /\ nor.slow /\ UNCHANGED norVars

End == nor' = [nor EXCEPT !.pc = "idle", !.req = NoReq, !.pos = 0, !.was = 0]

\* m25p80_chunked_write: a page in pieces, the fourth address byte taken off the size of a piece.
Piece ==
  LET page == page_size(To, Left)
      n == IF nor.four THEN nor.chunk - 1 ELSE nor.chunk
  IN IF nor.chunk = 0 \/ page < n THEN page ELSE n

\* Each page, and each piece of one, is waited for and enabled; nobody looks at how the wait ended.
spi_nor_write ==
  /\ nor.pc = "write" /\ ~nor.info.sst /\ Left > 0
  /\ LET c == WREN(Done(chip)) IN chip' = m25p80_write(c, To, SubSeq(nor.req.data, nor.pos + 1, nor.pos + Piece))
  /\ nor' = [nor EXCEPT !.pos = @ + Piece]
  /\ UNCHANGED <<stored, vague>>

\* sst_write: one byte up to an even address, words, one byte behind them.  The single byte uses up the
\* latch, so the words after it are lost: those cells are vague.
sst_write ==
  /\ nor.pc = "write" /\ nor.info.sst /\ Left > 0
  /\ LET n == IF To % 2 = 1 \/ Left = 1 THEN 1 ELSE 2
         enabled == nor.pos = 0 \/ Left = 1 \/ (nor.pos > 0 /\ nor.req.at % 2 = 0)
         c == IF enabled THEN WREN(Done(chip)) ELSE Done(chip)
     IN /\ chip' = m25p80_write(c, To, SubSeq(nor.req.data, nor.pos + 1, nor.pos + n))
        /\ nor' = [nor EXCEPT !.pos = @ + n]
        /\ vague' = IF enabled THEN vague ELSE vague \cup Span(To, n)
  /\ UNCHANGED stored

WriteEnd ==
  /\ nor.pc = "write" /\ Left = 0
  /\ stored' = Programmed(stored, chip, nor.req, Len(nor.req.data)) /\ End
  /\ chip' = IF nor.info.sst THEN WRDI(Done(chip)) ELSE chip
  /\ UNCHANGED vague

\* A length that is not a multiple of the block size is refused.
BadLength == nor.pc = "erase" /\ Len(nor.req.data) % EraseSize # 0 /\ End /\ UNCHANGED <<chip, stored, vague>>

\* The whole chip with one command, which the driver does not wait for.
erase_chip ==
  /\ nor.pc = "erase" /\ Len(nor.req.data) = Size
  /\ chip' = CE(WREN(Done(chip)))
  /\ stored' = IF chip.bp = 0 THEN Blank ELSE stored
  /\ vague' = IF chip.bp = 0 THEN {} ELSE vague
  /\ nor' = [nor EXCEPT !.pc = "idle", !.req = NoReq, !.pos = 0, !.was = 0, !.slow = chip.bp = 0]

\* One block.
spi_nor_erase ==
  /\ nor.pc = "erase" /\ Len(nor.req.data) % EraseSize = 0 /\ Len(nor.req.data) # Size /\ Left > 0
  /\ LET c == WREN(Done(chip))
         free == \A x \in Block(To) : ~Protected(c, x)
     IN /\ chip' = m25p80_erase(c, To)
        /\ stored' = IF free THEN Wiped(stored, Block(To)) ELSE stored
        /\ vague' = IF free THEN vague \ Block(To) ELSE vague
  /\ nor' = [nor EXCEPT !.pos = @ + EraseSize]

EraseEnd == nor.pc = "erase" /\ Len(nor.req.data) # Size /\ Len(nor.req.data) % EraseSize = 0 /\ Left = 0 /\ End /\ UNCHANGED <<chip, stored, vague>>

spi_nor_read == nor.pc = "read" /\ End /\ chip' = m25p80_read(Done(chip)) /\ UNCHANGED <<stored, vague>>

-----------------------------------------------------------------------------
(* Protection *)

\* The bits that protect all from address a on, the smallest of the chip's regions that does.
LockBp(a) ==
  CASE a < Size - Size \div 2 -> 7
    [] a >= Size - Size \div 2 /\ a < Size - Size \div 4 -> 6
    [] a >= Size - Size \div 4 /\ a < Size - Size \div 8 -> 5
    [] a >= Size - Size \div 8 /\ a < Size - Size \div 16 -> 4
    [] a >= Size - Size \div 16 /\ a < Size - Size \div 32 -> 3
    [] a >= Size - Size \div 32 /\ a < Size - Size \div 64 -> 2
    [] OTHER -> 1

\* The bits of the largest region that leaves all below address e open.
UnlockBp(e) ==
  CASE e > Size - Size \div 64 -> 0
    [] e <= Size - Size \div 64 /\ e > Size - Size \div 32 -> 1
    [] e <= Size - Size \div 32 /\ e > Size - Size \div 16 -> 2
    [] e <= Size - Size \div 16 /\ e > Size - Size \div 8 -> 3
    [] e <= Size - Size \div 8 /\ e > Size - Size \div 4 -> 4
    [] e <= Size - Size \div 4 /\ e > Size - Size \div 2 -> 5
    [] OTHER -> 6

\* The status is only written when that does not open, or close, other cells.
spi_nor_lock ==
  /\ nor.pc = "lock" /\ nor.info.mfr = "st"
  /\ chip' = IF LockBp(nor.req.at) > chip.bp THEN WRSR(WREN(chip), LockBp(nor.req.at), chip.quad) ELSE chip
  /\ nor' = [nor EXCEPT !.pc = "locked"]
  /\ UNCHANGED <<stored, vague>>

spi_nor_unlock ==
  /\ nor.pc = "unlock" /\ nor.info.mfr = "st"
  /\ LET bp == UnlockBp(nor.req.at + Len(nor.req.data)) IN
     chip' = IF bp < chip.bp THEN WRSR(WREN(chip), bp, chip.quad) ELSE chip
  /\ nor' = [nor EXCEPT !.pc = "unlocked"]
  /\ UNCHANGED <<stored, vague>>

\* spi_nor_unlock_and_unprep; the other chips have no such operation.
LockEnd == (nor.pc \in {"locked", "unlocked"} \/ (nor.pc \in {"lock", "unlock"} /\ nor.info.mfr # "st")) /\ End /\ UNCHANGED <<chip, stored, vague>>

\* The processor is reset, which leaves the chip as it is, in 4-byte mode too, or the power goes.
NorReset ==
  /\ \/ chip' = chip /\ vague' = vague \cup Pending
     \/ chip' = PowerLoss(chip) /\ vague' = vague \cup Pending \cup chip.hot
  /\ nor' = [nor EXCEPT !.pc = "down", !.req = NoReq, !.pos = 0, !.was = 0, !.slow = FALSE]
  /\ UNCHANGED stored

NorNext ==
  \/ spi_nor_scan \/ spi_nor_write \/ sst_write \/ WriteEnd \/ BadLength \/ erase_chip \/ spi_nor_erase \/ EraseEnd
  \/ spi_nor_read \/ spi_nor_lock \/ spi_nor_unlock \/ LockEnd \/ NorReset
  \/ \E r \in NorRequests : Begin(r) \/ wait_till_ready(r)

NorSpec == NorInit /\ [][NorNext]_norVars

-----------------------------------------------------------------------------
\* A large Macronix chip is sent EN4B while it is still busy with write_sr, and stays in 3-byte mode.
Deaf == nor.info.mfr = "macronix" /\ nor.info.large /\ ~nor.info.quad

\* Between two operations the chip holds what the requests that succeeded have put there (AsTold).
NorAsTold == nor.pc \in {"idle", "down"} /\ ~Deaf => AsTold

Covers(bp) == {x \in Cell : Protected([chip EXCEPT !.bp = bp], x)}

\* A lock protects its range and what was protected, and as little else as the chip's regions allow; an
\* unlock opens its range and protects nothing new, and opens as little else.
LockExact ==
  LET range == Span(nor.req.at, Len(nor.req.data)) IN
  /\ nor.pc = "locked" =>
       /\ range \cup Covers(nor.was) \subseteq Covers(chip.bp)
       /\ \A b \in 0..7 : range \cup Covers(nor.was) \subseteq Covers(b) => Covers(chip.bp) \subseteq Covers(b)
  /\ nor.pc = "unlocked" =>
       /\ Covers(chip.bp) \subseteq Covers(nor.was) \ range
       /\ \A b \in 0..7 : Covers(b) \subseteq Covers(nor.was) \ range => Covers(b) \subseteq Covers(chip.bp)
=============================================================================
