SPECIFICATION Spec
CONSTANTS
  Apps <- MCApps
  Projects <- MCProjects
  RootLists <- Upto2
  DepArgs <- NoLevel
  SelfDeps = TRUE
INVARIANT DependencyIsLibrary
