SPECIFICATION FairSpec
CONSTANTS
  Fds = {3, 4, 5, 6, 7}
  Wrap = 16
  Fanout = 16
  PerPage = 73
  Room = 1
  MaxRead = 2
  MaxConns = 4
  MaxUnits <- MCUnits
  Leavers <- MCLeavers
CHECK_DEADLOCK FALSE
INVARIANTS Knows Listens InOrder OneOwner
PROPERTIES TakenDown
