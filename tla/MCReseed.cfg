SPECIFICATION Spec
CONSTANTS
  Hosts <- MCHosts
  Methods = {"GET", "POST"}
  Presets <- MCPresets
  UserTemplate <- MCUserTemplate
  ProjectTemplate <- MCProjectTemplate
  Projects <- ReseedProjects
  Invocations <- ReseedInvocations
  UserEdits = {}
  GoodBundles <- MCGoodBundles
  Glob <- MCGlob
  Interrupts = {}
PROPERTY ChoicesKept
CHECK_DEADLOCK FALSE
