SPECIFICATION Spec
CONSTANTS
  Conn = {c1, c2}
  Device = {d1}
  NoDevice = NoDevice
  Transient = {}
  MaxFd = 4
  MaxTasks = 2
  MaxSend = 0
  MaxQueue = 1
  MaxRx = 1
  ClientFrames = {"CONNECT"}
  ServerFrames = {"CONNECT"}
SYMMETRY Symmetry
INVARIANTS
  TypeOK
  OneActivePerDevice
  HandlesExclusive
