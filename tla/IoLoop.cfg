SPECIFICATION Spec
CONSTANTS
  Fds = {0, 2}
  Wrap = 8
  Fanout = 16
  PerPage = 73
  Blocking = {2}
  MaxRash = 1
  Uses <- MCUses
INVARIANTS WantedCount NoStranger AssertsHold
PROPERTIES Fresh AllQueued
