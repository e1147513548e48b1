SPECIFICATION Spec
CONSTANTS
  Client = {c1, c2}
  Fd = {f1, f2, f3}
  NoFd = NoFd
  BufSize = 2
  MaxRetry = 2
  MaxIn = 3
  MaxOut = 2
  MaxBacklog = 1
INVARIANTS EverySocketOwned StreamIntact NeverOverclaims
SYMMETRY Symmetry
