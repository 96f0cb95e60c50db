SPECIFICATION Spec
CONSTANTS
  Dev = {"d1"}
  Cloud = {"c1"}
  Fd = {f1, f2}
  Minute = 1
  MaxLogins = 2
  MaxUp = 0
  MaxDown = 2
  MaxNative = 0
  MaxAnswers = 1
SYMMETRY FdSymmetry
PROPERTIES
  DeliveredInOrder
CHECK_DEADLOCK FALSE
