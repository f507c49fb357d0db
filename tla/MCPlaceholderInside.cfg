SPECIFICATION Spec
CONSTANTS
  api = api
  web = web
  tok = tok
  tok2 = tok2
  key = key
  Hosts = {api, web}
  Methods = {"GET", "POST"}
  Presets <- MCPresets
  Secrets = {tok, tok2, key}
  Inside <- MCInside
  Cursor = TRUE
  LayerStacks <- MCLayerStacks
  MaxCarried = 2
INVARIANT
  HonouredAlways
CHECK_DEADLOCK FALSE
