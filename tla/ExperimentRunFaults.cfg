\* Every fault, one run of any scenario, under the fairness of the specification.
SPECIFICATION FairSpec
CONSTANTS
  MaxRuns = 1
  Faults = {"command", "drop", "interrupt", "crash"}
  Mvcas = {"whatsapp"}
  Configs <- AllScenarios
  DiskRuns = 1
INVARIANTS
  TypeOK
  CaptureCoversPayload
PROPERTIES
  ImplementsStudy
  StudyEnds
