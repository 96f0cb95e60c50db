SPECIFICATION FairSpec
CONSTANTS
  Dev = {"d1"}
  Cloud = {"c1"}
  Fd = {"f1"}
  Minute = 1
  MaxLogins = 1
  MaxUp = 2
  MaxDown = 0
  MaxNative = 1
  MaxAnswers = 1
PROPERTIES
  RelaysUp
  SilentGoesOffline
CHECK_DEADLOCK FALSE
