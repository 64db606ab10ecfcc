SPECIFICATION FairSpec
CONSTANTS
  Names = {".", "c", "a", "b", "localhost", "o"}
  NoName = NoName
  Path <- MCPath
  Localhost = {"localhost"}
  LocalIp = 7
  Loopback = {"o"}
  Roots = {"."}
  RootServers <- MCRootServers
  Types = {"A", "ANY"}
  Packets <- MCPackets
  Foreign <- MCForeign
  ForwardOnly = FALSE
  MAXLEVEL = 3
  MAXALIAS = 2
  MAXNS = 2
  MAXLOOP = 7
  MaxStarts = 1
INVARIANTS TypeOK AliasChain ZoneServers Bailiwick WorkBound
PROPERTY ReferralDescends Ends
CHECK_DEADLOCK FALSE
