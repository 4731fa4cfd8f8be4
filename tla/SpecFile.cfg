\* monitor.sh quick or slow, dying anywhere; tc works.
SPECIFICATION Spec
CONSTANTS
  Guid = "guid"
  Delay = 10
  Rates <- ProfileRates
  TcMayFail = FALSE
CHECK_DEADLOCK FALSE
INVARIANTS
  TypeOK
  ParsedIsRecorded
  SavedIsWellFormed
  ProfileStartsAfterRampUp
PROPERTIES
  EventTellsSetting
