SPECIFICATION Spec
CONSTANTS
  MAXUDP = 2
  MAXTCP = 1
  Idle = 1
  MaxWait = 2
  Base = 2
  Lengths = {0}
  Times = {1, 2}
  Fds = {3, 4, 5}
  MaxPackets = 4
  MaxCalls = 1
  MaxBytes = 0
INVARIANTS EndsOnce RightReply PollsOwn
