SPECIFICATION FairSpec
CONSTANTS
  Clients = {"c", "d"}
  Nodes = {"n", "m"}
  Ids = {"x", "y"}
  Dirs = {"A", "B", "L", "home"}
  Home = "home"
  Packets = 1
  Restarts = 1
  Inputs <- MCInputs
INVARIANTS
  TypeOK
  Complete
  Drained
PROPERTIES
  SentWhole
  Terminates
