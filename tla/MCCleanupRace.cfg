SPECIFICATION SafetySpec
CONSTANTS
  MaxVersion = 0
  NoLayers = {}
  Faults = {}
  CleanupRaces = TRUE
  Shells = {s1}
  Commands = {"up", "restart"}
INVARIANT
  HealthyMeansLoaded
CHECK_DEADLOCK FALSE
