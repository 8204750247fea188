CONSTANTS
  alice = alice
  bob = bob
  h1 = h1
  h2 = h2
  h3 = h3
  h4 = h4
  h5 = h5
  h6 = h6
  h7 = h7
  None = None
  t1 = t1
  t2 = t2
  Threads = {t1, t2}
  Addr <- MCAddr
  Keys = {1}
  Values = {0, 5}
  Hashes = {h1, h3, h4}
  Faults = {}
  Tx <- Txs
  CreateAddress <- MCCreateAddress
  ChainId = 1
  CallTargets <- MCCallTargets
  Serial = {alice, bob}
  MaxHostOps = 2
  MaxRequests = 2
  MaxCrashes = 0
SPECIFICATION Spec
INVARIANT EachTxOneBlock
