SPECIFICATION Spec
CONSTANTS
  Files <- MCFiles
  Dirs <- MCDirs
  Keys <- MCKeys
  Inputs <- MCInputs
INVARIANTS
  TypeOK
  Scoping
  EndsForCause
