SPECIFICATION MCSpec
CONSTANTS
  Conn = {c1, c2}
  Device = {d1, d2}
  NoDevice = NoDevice
  Other = c2
  OtherDevice = d2
  Transient = {d1}
  MaxFd = 3
  MaxTasks = 0
  MaxSend = 0
  MaxQueue = 1
  MaxRx = 1
  ClientFrames = {"CONNECT", "CONNECT_SHORT", "IGNORED"}
  ServerFrames = {}
INVARIANTS
  OnlineNotShownOffline
  ShownOnlineJustified
PROPERTY ConnectingResolves
