CONSTANTS
  MaxTimer = 2
  MaxElapsed = 1
  MaxSystems = 3
  f1 = f1
  f2 = f2
  Files = {f1, f2}
  NoFile = NoFile
  Cores <- MCCoreSet
  Images <- MCImages
  NoImage <- MCNoImage
  MaxDrops = 2
SPECIFICATION FrontendSpec
INVARIANTS
  FlagsMatch LateFrames DialogIsOfItsFile DialogOffersCores
PROPERTIES
  StoppedMachineRests ResetIsFresh ResetHonoured ExitCompletes
  HostKeepsOrder
CHECK_DEADLOCK FALSE
