SPECIFICATION CrashSpec
CONSTANTS
  k1 = k1
  k2 = k2
  k3 = k3
  short = short
  long = long
  huge = huge
  Size = 128
  Keys = {k1, k2, k3}
  KeyLen <- MCKeyLen
  KeyHash <- MCKeyHash
  Data = {short, long}
  DataLen <- MCDataLen
  TTLs = {1}
  Clock = {0}
  MaxKeyLen = 1000
  MaxDataLen = 1000000
  MaxTTL = 2
  MaxLoop = 6
  UseFile = TRUE

INVARIANTS BucketLists
