SPECIFICATION Spec
CONSTANTS
  Apps <- MCApps
  Projects <- MCProjects
  RootLists <- Upto2
  DepArgs <- MCDepArgs
  SelfDeps = FALSE
INVARIANTS
  TypeOK
  AllBuilt
  SelectionConnected
  AllMeansAll
PROPERTIES
  DepsFirst
