SPECIFICATION Spec
CONSTANTS
  Projects <- MCProjects
  Profiles <- MCProfiles
  Yamls <- MCYamls
INVARIANT CyclesDetected
