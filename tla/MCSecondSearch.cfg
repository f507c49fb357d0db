SPECIFICATION Spec
CONSTANTS
  s1 = s1
  s2 = s2
  Shells <- MCShells
  Dirs = {"outer", "inner", "src"}
  None = "none"
  Path <- MCPath
  Repos = {"outer"}
  Projects = {"outer", "inner"}
  Base <- MCBase
  CachesOf <- MCNoCaches
  Cwds <- MCCwds
  Verbs <- MCNestedVerbs
  MaxEdits = 0
  Faults = {"docker", "disk"}
PROPERTIES
  NoneOfAnother
