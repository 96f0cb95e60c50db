CONSTANTS
  Cmds = {"gpiotiming", "gpiotype", "readtiming", "ota", "checktime", "reboot", "reset", "readlog", "runcmd", "setplatform", "getplatform", "setdialparameters", "getdialparameters", "tc232", "set232parameters", "invalid"}
  MaxCmd = 3
  MaxConn = 2
  FailLimit = 2
  IdleLimit = 2
  MaxUpset = 1
  MaxChunk = 1
  Cycle <- MCCycle
  Bucket <- MCBucket
  Limit = 1
  MaxLine = 4
  MaxAgUpset = 1
SPECIFICATION MCSpec
INVARIANTS OnlineTruthful AnsweredOnce 
PROPERTIES DeafLinkGivenUp GpioFollows
CHECK_DEADLOCK FALSE
