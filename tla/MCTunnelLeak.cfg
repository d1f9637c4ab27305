\* The instance of MCEngine.cfg.  A client that has dropped its adapter takes no
\* further step.
CONSTANTS
  Confs <- MCConfs
  Table <- MCTable
  V6Rows <- MCV6Rows
  Server = "srv"
  Subnets = {"lan", "lan2", "corp"}
  V4 = {"dns"}
  Rank <- MCRank
  Within <- MCWithin
  MaxFails = 1
  MaxPackets = 1
SPECIFICATION Spec
INVARIANT NothingElseLeaves
CHECK_DEADLOCK FALSE
