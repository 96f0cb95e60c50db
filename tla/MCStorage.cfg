SPECIFICATION MCSpec
CONSTANTS
  BQ_BUFFER_SIZE = 4
  IndexMod = 8
  HeaderSize = 2
  MaxBody = 2
  Content = {0, 1}
  MaxFrames = 3
  Names = {2}
  Keys = {7}
  MaxOps = 3
  MaxStarts = 2
  MaxFail = 1
  Size = 8
  PageSize = 4
  EraseSize = 4
  NorRequests <- MCNorRequests
  Chips <- MCChips
  Chunks = {0, 2}
  RaRequests <- MCRaRequests
  AtPageSize = 3
  MAXCAP = 3
  AtRequests <- MCAtRequests
INVARIANTS
  
  SettingsSurvive
PROPERTIES
  ImplementsFrameChannel
  EveryFrameDelivered
CHECK_DEADLOCK FALSE
