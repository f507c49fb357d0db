SPECIFICATION Spec
CONSTANTS
  Hosts <- MCHosts
  Methods = {"GET", "POST"}
  Presets <- MCPresets
  UserTemplate <- MCUserTemplate
  ProjectTemplate <- MCProjectTemplate
  Projects <- MCProjects
  Invocations <- MCInvocations
  UserEdits <- MCUserEdits
  GoodBundles <- MCGoodBundles
  Glob <- MCGlob
  Interrupts <- MCInterrupts
INVARIANTS
  TypeOK
  Regenerated
  ComposeConsistent
  BundlesTrusted
  StrictPolicy
  ProviderWired
  MountsPrepared
  IgnoreConverges
PROPERTIES
  OwnFilesKept
  SettingsKept
  ChoicesKept
