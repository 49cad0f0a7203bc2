SPECIFICATION Spec
CONSTANTS
  Apps <- MCApps
  Tests <- MCTests
  Inputs <- MCInputs
INVARIANTS
  TypeOK
  DoneMeans
PROPERTIES
  HooksBeforeWork
  InUseStays
