SPECIFICATION Spec
CONSTANTS
  Sources = {f1, f2}
  Incs = {d1}
  MaxEdits = 3
  KillPoints = {"clean", "loaded", "compile", "stamp", "link"}
SYMMETRY Symmetry
INVARIANTS
  TypeOK
  LinksFresh
  NothingTwice
  StampSound
