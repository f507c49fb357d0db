SPECIFICATION SafetySpec
CONSTANTS
  MaxVersion = 1
  NoLayers = {}
  Faults = {"load", "disk", "abort", "agent"}
  CleanupRaces = FALSE
  Shells = {s1}
  Commands = {"up", "restart", "down"}
INVARIANTS
  TypeOK
  HealthyMeansLoaded
  PromisedDns
  PromisedEnv
  AgentRelinked
  AgentConfined
  CaGuaranteed
PROPERTIES
  RestartHonoured
CHECK_DEADLOCK FALSE
