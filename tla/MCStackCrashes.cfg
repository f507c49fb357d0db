SPECIFICATION Spec
CONSTANTS
  MaxVersion = 0
  NoLayers = {0}
  Faults = {"proxy", "wg", "dnsmasq"}
  CleanupRaces = FALSE
  Shells = {s1}
  Commands = {"up", "restart"}
INVARIANTS
  HealthyMeansLoaded
  ConfinedBeforeUse
  AgentUsesDnsmasq
  CaGuaranteed
PROPERTIES
  RestartEnds
  DnsmasqRecovers
CHECK_DEADLOCK FALSE
