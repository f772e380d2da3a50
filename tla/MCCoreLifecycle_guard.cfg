SPECIFICATION Spec
CONSTANTS
  Split = TRUE
  TRIES = 2
  MayRefuse = FALSE
PROPERTIES
  StartScriptsRefuseRestarts
