--------------------------------- MODULE RaSpi ---------------------------------
(* The Ralink driver (ralink_spi.c, for the MT7620 and for the older boards): erase,   *)
(* write and read under flash->lock, one step for each page or sector, between which    *)
(* the board may be reset.  A chip of more than 16 MiB is in 4-byte mode for the time     *)
(* of an operation only, since the boot loader reads it with three bytes; the bus          *)
(* controller has to be told too.  The chip gets ready within the time the driver waits.      *)
EXTENDS NorChip

CONSTANT RaRequests   \* what the callers ask for: [op, at, data], data standing for a length when op is erase

\* The callers erase whole sectors: the driver's own test is compiled for older kernels only.
ASSUME RaAssumption ==
  /\ RaRequests \subseteq [op : {"write", "erase"}, at : Nat, data : Seq({0, 1})]
  /\ \A r \in RaRequests : r.op = "erase" => Len(r.data) % EraseSize = 0

VARIABLE ra         \* [pc, addr4b, spansion, legacy, wide, req, pos]: the chip of raspi_probe, whether the build shifts
                    \* the bytes out itself, the controller's SPICFG_ADDRMODE, and the request that holds the lock

raVars == <<chip, stored, vague, ra>>

RaInit ==
  /\ \E bp \in {0, 7} : chip = [Fresh(Blank) EXCEPT !.bp = bp]
  /\ stored = Blank /\ vague = {}
  /\ ra \in [pc : {"down"}, addr4b : BOOLEAN, spansion : BOOLEAN, legacy : BOOLEAN, wide : BOOLEAN, req : {NoReq}, pos : {0}]

\* The controller is reset: whatever it was set to, it sends three bytes.
spic_init == [ra EXCEPT !.wide = FALSE]

\* chip_prob finds the chip, for which a table says whether it needs four bytes.
raspi_probe ==
  /\ ra.pc = "down" /\ ~chip.four /\ ra' = [spic_init EXCEPT !.pc = "idle"]
  /\ UNCHANGED <<chip, stored, vague>>

raspi_wait_ready(c) == Done(c)

raspi_write_enable(c) == WREN(c)

raspi_write_disable(c) == WRDI(c)

raspi_write_sr(c, bp) == WRSR(c, bp, FALSE)

\* While the chip is selected it is sent a command, an address of four bytes or three, and data.
spic_transfer(c, four, op, a, data) ==
  CASE op = "PP" -> PP(c, four, a, data) [] op = "SE" -> SE(c, four, a) [] op = "READ" -> READ(c, four)

\* In command mode the controller makes the transfer with the width it is set to; the older boards have the
\* driver shift out as many bytes as the chip needs.
raspi_cmd(c, wide, op, a, data) == spic_transfer(c, IF ra.legacy THEN ra.addr4b ELSE wide, op, a, data)

\* The bank register, which takes no write enable.
raspi_write_rg(c, on) == EN4B(c, on)

\* EN4B and EX4B, or the bank register of a Spansion chip.
raspi_4byte_mode(c, on) ==
  IF ra.spansion THEN raspi_write_rg(raspi_wait_ready(c), on) ELSE EN4B(raspi_write_enable(raspi_wait_ready(c)), on)

Mode(c, on) == IF ra.addr4b THEN raspi_4byte_mode(c, on) ELSE c
AddrMode(on) == IF ra.addr4b THEN on ELSE ra.wide

\* Writing the status register uses up the latch: a chip that comes up protected loses what follows.
raspi_unprotect(c) == IF c.bp # 0 THEN raspi_write_sr(c, 0) ELSE c

Start(r) == ra.pc = "idle" /\ r.at + Len(r.data) <= Size

\* down(flash->lock) and the preparations of a write.
WriteBegin(r) ==
  /\ r.op = "write" /\ Start(r)
  /\ chip' = Mode(raspi_write_enable(raspi_wait_ready(chip)), TRUE)
  /\ ra' = [ra EXCEPT !.pc = "write", !.req = r, !.pos = 0, !.wide = AddrMode(TRUE)]
  /\ UNCHANGED <<stored, vague>>

RaTo == ra.req.at + ra.pos
RaLeft == Len(ra.req.data) - ra.pos

\* raspi_cmd fills the chip's page; nothing waits for it here.
ramtd_write ==
  /\ ra.pc = "write" /\ RaLeft > 0
  /\ LET c == raspi_unprotect(raspi_write_enable(raspi_wait_ready(chip)))
     IN chip' = raspi_cmd(c, ra.wide, "PP", RaTo, SubSeq(ra.req.data, ra.pos + 1, ra.pos + page_size(RaTo, RaLeft)))
  /\ ra' = [ra EXCEPT !.pos = @ + page_size(RaTo, RaLeft)]
  /\ vague' = IF chip.bp = 0 THEN vague ELSE vague \cup Span(RaTo, page_size(RaTo, RaLeft))
  /\ UNCHANGED stored

\* Mutant: the chip is left in the mode the next write needs.
EndIn4Byte ==
  /\ ra.pc = "write" /\ RaLeft = 0
  /\ chip' = raspi_write_disable(chip)
  /\ stored' = Programmed(stored, chip, ra.req, Len(ra.req.data))
  /\ ra' = [ra EXCEPT !.pc = "idle", !.req = NoReq, !.pos = 0]
  /\ UNCHANGED vague

WriteDone ==
  /\ ra.pc = "write" /\ RaLeft = 0
  /\ chip' = raspi_write_disable(Mode(chip, FALSE))
  /\ stored' = Programmed(stored, chip, ra.req, Len(ra.req.data))
  /\ ra' = [ra EXCEPT !.pc = "idle", !.req = NoReq, !.pos = 0, !.wide = AddrMode(FALSE)]
  /\ UNCHANGED vague

EraseBegin(r) ==
  /\ r.op = "erase" /\ Start(r)
  /\ ra' = [ra EXCEPT !.pc = "erase", !.req = r, !.pos = 0]
  /\ UNCHANGED <<chip, stored, vague>>

\* One sector, waited for; a chip with three bytes loses the command when the protection is lifted first.
\* On the older boards a chip with four bytes is left without the write disable.
raspi_erase_sector ==
  /\ ra.pc = "erase" /\ RaLeft > 0
  /\ LET c == raspi_unprotect(raspi_write_enable(raspi_wait_ready(chip)))
         d == IF ra.addr4b THEN raspi_write_enable(raspi_4byte_mode(c, TRUE)) ELSE c
         e == Mode(raspi_wait_ready(raspi_cmd(d, AddrMode(TRUE), "SE", RaTo, <<>>)), FALSE)
     IN chip' = IF ra.legacy /\ ra.addr4b THEN e ELSE raspi_write_disable(e)
  /\ ra' = [ra EXCEPT !.pos = @ + EraseSize, !.wide = AddrMode(FALSE)]
  /\ vague' = IF chip.bp # 0 /\ ~ra.addr4b THEN vague \cup Block(RaTo) ELSE vague \ Block(RaTo)
  /\ stored' = Wiped(stored, Block(RaTo))

\* ramtd_erase: the last sector is done.
EraseDone ==
  /\ ra.pc = "erase" /\ RaLeft = 0
  /\ ra' = [ra EXCEPT !.pc = "idle", !.req = NoReq, !.pos = 0]
  /\ UNCHANGED <<chip, stored, vague>>

ramtd_read ==
  /\ ra.pc = "idle"
  /\ chip' = Mode(raspi_cmd(Mode(raspi_wait_ready(chip), TRUE), AddrMode(TRUE), "READ", 0, <<>>), FALSE)
  /\ ra' = [ra EXCEPT !.wide = AddrMode(FALSE)]
  /\ UNCHANGED <<stored, vague>>

\* Locking and unlocking claim success and do nothing, since not every vendor's chip has the commands.
ramtd_lock == ra.pc = "idle" /\ UNCHANGED raVars

\* A request past the end of the chip is refused with -EINVAL and changes nothing.
Refused(r) == ra.pc = "idle" /\ r.at + Len(r.data) > Size /\ UNCHANGED raVars

RaPending == IF ra.pc \in {"write", "erase"} THEN Span(ra.req.at, Len(ra.req.data)) ELSE {}

\* The processor is reset, or the power goes.
RaReset ==
  /\ \/ chip' = chip /\ vague' = vague \cup RaPending
     \/ chip' = PowerLoss(chip) /\ vague' = vague \cup RaPending \cup chip.hot
  /\ ra' = [ra EXCEPT !.pc = "down", !.req = NoReq, !.pos = 0]
  /\ UNCHANGED stored

RaNext ==
  \/ raspi_probe \/ ramtd_write \/ WriteDone \/ raspi_erase_sector \/ EraseDone \/ ramtd_read \/ ramtd_lock \/ RaReset
  \/ \E r \in RaRequests : WriteBegin(r) \/ EraseBegin(r) \/ Refused(r)

RaSpec == RaInit /\ [][RaNext]_raVars

-----------------------------------------------------------------------------
\* Between two operations the chip holds what the requests that succeeded have put there (AsTold), and
\* is in the mode that the boot loader reads it in.
RaAsTold == (ra.pc \in {"idle", "down"} => AsTold) /\ (ra.pc = "idle" => ~chip.four)
=============================================================================
