\* No session is lost; three runs on a disk for two captures.
SPECIFICATION ClockSpec
CONSTANTS
  MaxRuns = 3
  Faults = {"command", "interrupt", "crash"}
  Mvcas = {"whatsapp"}
  Configs <- ScreencaptureOrTcp
  DiskRuns = 2
INVARIANTS
  Accounted
  NoLeftovers
  CallIsOurs
  NoMonitorLeftBehind
  OneScriptPerPhone
  WorkloadCleansUp
  RouterHasRoom
PROPERTIES
  GuidsDiffer
