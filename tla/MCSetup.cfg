SPECIFICATION FairSpec
CONSTANTS
  Projects <- MCProjects
  Profiles <- MCProfiles
  Yamls <- MCYamls
INVARIANTS
  TypeOK
  NoFalseAlarm
  CyclesStop
  SetUpOnce
  IncludesComplete
  InheritsAll
PROPERTIES
  Terminates
