SPECIFICATION SafetySpec
CONSTANTS
  MaxVersion = 0
  NoLayers = {}
  Faults = {}
  CleanupRaces = FALSE
  Shells = {s1}
  Commands = {"up", "restart"}
INVARIANT
  HealthyMeansInitDone
CHECK_DEADLOCK FALSE
