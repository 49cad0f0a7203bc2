SPECIFICATION FairSpec
CONSTANTS
  Names <- MCNames
  Root = "R"
  Profiles = {0, 1}
  Worlds <- MCWorlds
  Troubles = 2
INVARIANTS
  TypeOK
  DirectoryThere
  OneVersion
  FreshYaml
PROPERTIES
  Recovers
