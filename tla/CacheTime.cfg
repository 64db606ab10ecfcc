SPECIFICATION FairSpec
CONSTANTS
  k1 = k1
  k2 = k2
  k3 = k3
  short = short
  long = long
  huge = huge
  Size = 100
  Keys = {k1, k2}
  KeyLen <- MCKeyLen
  KeyHash <- MCKeyHash
  Data = {short, huge}
  DataLen <- MCDataLen
  TTLs = {0, 1, 3}
  Clock = {0, 1, 2}
  MaxKeyLen = 1000
  MaxDataLen = 1000000
  MaxTTL = 2
  MaxLoop = 1
  UseFile = FALSE
PROPERTIES CallReturns
INVARIANTS GetsLatest
