------------------------------- MODULE MCStorage -------------------------------
(* What keeps bytes: the receive buffers of the proxy core and the settings in config.ini *)
(* (with the constants of the configuration), the two NOR flash drivers and the AT45      *)
(* driver, each a scenario of its own.                                                    *)
EXTENDS XGRecvBuffer, XlinkConfig, SpiNor, RaSpi, DataFlash

VARIABLE scenario

W(at, data) == [op |-> "write", at |-> at, data |-> data]
Over(op, at, n) == [op |-> op, at |-> at, data |-> [i \in 1..n |-> 0]]

\* Writes over page ends, behind an odd address, and the erasing of blocks, of all and of too little.
MCNorRequests ==
  {W(1, <<0, 1, 0>>), W(3, <<1, 0, 0>>), Over("erase", 0, 4), Over("erase", 0, 8), Over("erase", 4, 2),
   Over("read", 0, 2), Over("lock", 4, 2), Over("lock", 6, 2), Over("unlock", 4, 2), Over("unlock", 0, 8)}

Chip(mfr, large, sst, quad) == [mfr |-> mfr, large |-> large, sst |-> sst, quad |-> quad]

\* A chip of each way through spi_nor_scan.
MCChips ==
  {Chip("st", FALSE, FALSE, FALSE), Chip("st", TRUE, FALSE, FALSE), Chip("macronix", FALSE, FALSE, FALSE),
   Chip("winbond", TRUE, FALSE, FALSE), Chip("sst", FALSE, TRUE, FALSE), Chip("amd", TRUE, FALSE, TRUE)}

\* The last one runs past the end of the chip.
MCRaRequests == {W(1, <<0, 1, 0>>), W(3, <<1, 0, 0, 0>>), W(6, <<0, 0, 0>>), Over("erase", 0, 4), Over("erase", 0, 8)}

\* In one page, over several, over the end of the ring; the last two are cut wrongly.
MCAtRequests ==
  {W(1, <<0>>), W(2, <<0, 1, 1, 0, 0>>), W(7, <<0, 0, 1>>), Over("read", 0, 4), Over("read", 7, 3),
   W(0, <<1, 1, 1, 0, 0>>), W(3, <<0, 0, 1, 0, 1, 0, 1>>)}

allVars == <<scenario, vars, norVars, ra, atVars, cvars>>

NoFrames == q = 0 /\ wire = 0 /\ open = 0 /\ stage = 0 /\ sent = <<>> /\ got = <<>>
NoChip == chip = 0 /\ stored = 0 /\ vague = 0
NoAt45 == at45 = 0 /\ kept = 0 /\ unsure = 0
\* In another scenario the settings are not judged: excused.
NoIni == /\ ini = 0 /\ flash = 0 /\ info = 0 /\ gid = 0 /\ th = 0 /\ boot = 0
         /\ told = 0 /\ excused = TRUE /\ ops = 0 /\ starts = 0 /\ fails = 0

MCInit ==
  \/ scenario = "frames" /\ Init /\ NoChip /\ nor = 0 /\ ra = 0 /\ NoAt45 /\ NoIni
  \/ scenario = "nor" /\ NorInit /\ NoFrames /\ ra = 0 /\ NoAt45 /\ NoIni
  \/ scenario = "ra" /\ RaInit /\ NoFrames /\ nor = 0 /\ NoAt45 /\ NoIni
  \/ scenario = "at45" /\ AtInit /\ NoFrames /\ NoChip /\ nor = 0 /\ ra = 0 /\ NoIni
  \/ scenario = "settings" /\ ConfigInit /\ NoFrames /\ NoChip /\ nor = 0 /\ ra = 0 /\ NoAt45

MCNext ==
  /\ \/ scenario = "frames" /\ Next /\ UNCHANGED <<norVars, ra, atVars, cvars>>
     \/ scenario = "nor" /\ NorNext /\ UNCHANGED <<vars, ra, atVars, cvars>>
     \/ scenario = "ra" /\ RaNext /\ UNCHANGED <<vars, nor, atVars, cvars>>
     \/ scenario = "at45" /\ AtNext /\ UNCHANGED <<vars, norVars, ra, cvars>>
     \/ scenario = "settings" /\ ConfigNext /\ UNCHANGED <<vars, norVars, ra, atVars>>
  /\ UNCHANGED scenario

\* The fairness of XGRecvBuffer!FairSpec.
MCSpec ==
  /\ MCInit /\ [][MCNext]_allVars
  /\ WF_vars(scenario = "frames" /\ Protocol)
  /\ WF_vars(scenario = "frames" /\ NotReadable)
  /\ SF_vars(scenario = "frames" /\ XGRecvConnect)

-----------------------------------------------------------------------------
\* Between two operations a flash holds what the requests that succeeded have put there, whichever driver
\* wrote it, however its pages were cut and wherever it was reset (spi_nor_write, ramtd_write, SPIWriteFlash);
\* one that the boot loader reads is in the mode it expects (raspi_4byte_mode); and what a lock was told to
\* protect is protected, with as little else as the chip's regions allow (spi_nor_lock, spi_nor_unlock).
FlashAsTold ==
  /\ scenario = "nor" => NorAsTold /\ LockExact
  /\ scenario = "ra" => RaAsTold
  /\ scenario = "at45" => AtAsTold
=============================================================================
