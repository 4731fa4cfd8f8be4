SPECIFICATION Spec
CONSTANTS
  MaxRuns = 1
  Faults = {}
  Mvcas = {"whatsapp"}
  Configs <- ScreencaptureCall
  DiskRuns = 1
PROPERTIES
  RunFailuresAreJustLogged
