SPECIFICATION FairSpec
CONSTANTS
  Conn = {c1, c2}
  Device = {d1}
  NoDevice = NoDevice
  Transient = {}
  MaxFd = 4
  MaxTasks = 1
  MaxSend = 0
  MaxQueue = 1
  MaxRx = 1
  ClientFrames = {"CONNECT"}
  ServerFrames = {"CONNECT"}
PROPERTY ConnectingResolves
