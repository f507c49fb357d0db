SPECIFICATION Spec
CONSTANTS
  s1 = s1
  s2 = s2
  Shells <- MCShells
  Dirs = {"outer", "inner", "src"}
  None = "none"
  Path <- MCPath
  Repos = {"outer", "inner"}
  Projects = {"outer", "inner"}
  Base <- MCBase
  CachesOf <- MCCachesOf
  Cwds <- MCCwds
  Verbs <- MCVerbs
  MaxEdits = 1
  Faults = {"docker", "disk"}
INVARIANTS
  TypeOK
  MountedKept
PROPERTIES
  RunReports
  EditApplied
