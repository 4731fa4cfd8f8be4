\* tc refuses a setting.
SPECIFICATION Spec
CONSTANTS
  Guid = "guid"
  Delay = 10
  Rates <- ProfileRates
  TcMayFail = TRUE
CHECK_DEADLOCK FALSE
PROPERTIES
  EventTellsSetting
