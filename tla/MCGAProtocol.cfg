SPECIFICATION MCSpec
CONSTANTS
  Device = {d1}
  Addr = {a1, a2}
  Key = {k1}
  Members = {d1}
  Chatty = {}
  Commands = {"delete"}
  MaxTimeout = 0
  DefaultTimeout = 0
  ConsoleTimeout = 0
  MaxReq = 2
  MaxMoves = 1
  MaxQueue = 1
  MaxUp = 1
  MaxAnswers = 1
INVARIANT AckTruthful
PROPERTIES RemovalLearned AddressFollows
