SPECIFICATION Spec
CONSTANTS
  Hosts <- MCHosts
  Methods = {"GET", "POST"}
  Presets <- MCPresets
  UserTemplate <- MCUserTemplate
  ProjectTemplate <- MCProjectTemplate
  Projects <- CutProjects
  Invocations <- ReseedInvocations
  UserEdits = {}
  GoodBundles <- MCGoodBundles
  Glob <- MCGlob
  Interrupts = {"block"}
PROPERTY RulesPreserved
