SPECIFICATION FairSpec
CONSTANTS
  MAXUDP = 1
  MAXTCP = 1
  Idle = 1
  MaxWait = 2
  Base = 2
  Lengths = {0}
  Times = {1}
  Fds = {3, 4, 5}
  MaxPackets = 0
  MaxCalls = 2
  MaxBytes = 6
INVARIANTS SlotsOwnSockets BufferStates
PROPERTY SlotsFree
