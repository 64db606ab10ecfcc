SPECIFICATION Spec
CONSTANTS
  Names = {".", "c", "a", "b", "localhost", "o"}
  NoName = NoName
  Path <- MCPath
  Localhost = {"localhost"}
  LocalIp = 7
  Loopback = {"o"}
  Roots = {"a", "c"}
  RootServers <- MCRootServers
  Types = {"A"}
  Packets <- MCPackets
  Foreign <- MCForeignForward
  ForwardOnly = TRUE
  MAXLEVEL = 2
  MAXALIAS = 1
  MAXNS = 2
  MAXLOOP = 5
  MaxStarts = 2
INVARIANTS Bailiwick
CHECK_DEADLOCK FALSE
