SPECIFICATION Spec
CONSTANTS
  Apps <- MCApps
  Projects <- MCProjects
  RootLists <- One
  DepArgs <- Levels
  SelfDeps = FALSE
INVARIANT LevelIsDepth
