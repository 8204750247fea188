CONSTANTS
  c1 = c1
  c2 = c2
  Conns = {c1, c2}
  Requests <- MCRequests
  BufSize = 5
  Stops = TRUE
  Signals = TRUE
SPECIFICATION Spec
INVARIANTS TypeOK TwoReadsSuffice RpcOutlivesThreads
PROPERTIES ConnectionsAreClosed StopIsHeard
CHECK_DEADLOCK FALSE
