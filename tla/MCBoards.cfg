SPECIFICATION MCSpec
CONSTANTS
  Cmds = {"PD", "CR", "CP", "CE", "LR", "NS", "SL"}
  Refusals = {"wait", "nocard", "err"}
  MaxSeq = 3
  Task = {"A", "B"}
  Commands = {"TAKEUP", "RELEASE", "RESET", "SETPARS", "DO"}
  Fd = {1, 2, 3}
  HeartExit = 1
  MaxLeak = 1
  MaxNum = 1
  MaxTok = 3
  Hours = {0, 22}
  Nights <- PanelNights
INVARIANTS HolderOnly NoCrossTalk ReportsWellFormed NightComplete GoodsPaid
PROPERTIES BridgeStaysUp RequestsServed WaitEnds
