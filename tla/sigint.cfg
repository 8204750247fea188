CONSTANTS
  c1 = c1
  c2 = c2
  Conns = {c1}
  Requests <- MCOneSized
  BufSize = 6
  Stops = FALSE
  Signals = TRUE
SPECIFICATION Spec
PROPERTY SignalStops
CHECK_DEADLOCK FALSE
