\* Three configurations, with and without what an earlier process left; one
\* command of the undo may fail; one packet each way.  A client that has
\* dropped its adapter takes no further step.
CONSTANTS
  Confs <- MCConfs
  Table <- MCTable
  V6Rows <- MCV6Rows
  Server = "srv"
  Subnets = {"lan", "lan2", "corp"}
  V4 = {"dns"}
  Rank <- MCRank
  Within <- MCWithin
  MaxFails = 1
  MaxPackets = 1
SPECIFICATION Spec
INVARIANTS
  ServerStaysOutside
  DropRestores
  NoRuleLeft
  TunnelHolds
  UpMeansPumping
PROPERTY EngineEnds
CHECK_DEADLOCK FALSE
