SPECIFICATION Spec
CONSTANTS
  Conn = {c1, c2}
  Device = {d1, d2}
  NoDevice = NoDevice
  Transient = {}
  MaxFd = 3
  MaxTasks = 1
  MaxSend = 1
  MaxQueue = 1
  MaxRx = 1
  ClientFrames = {"CONNECT", "PIPE"}
  ServerFrames = {"CONNECT", "PIPE"}
SYMMETRY Symmetry
INVARIANT DataStaysWithDevice
