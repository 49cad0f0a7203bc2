SPECIFICATION Spec
CONSTANTS
  Sources = {f1}
  Incs = {d1}
  MaxEdits = 3
  KillPoints = {}
INVARIANT EditsUnderBuildAreSeen
