CONSTANTS
  Fd = {3}
  MaxDomainTry = 3
  MaxPing = 1
  MaxUpsets = 3
  Redirects = {"good", "bad"}
  App = {"a", "b"}
  XLINK_CLIENT_SIZE = 1
  Check = {7}
  Keys = {}
  Cmds = {"pipe"}
  MaxResend = 1
  MaxPipe = 1
  MaxPipes = 2
  MaxPush = 1
  MaxHello = 2
  MaxNet = 1
SPECIFICATION MCSpec
INVARIANTS  SessionsSound PipeExactlyOnce ReplyReachesAsker
PROPERTIES BufferDrains CloudReconnects
CHECK_DEADLOCK FALSE
