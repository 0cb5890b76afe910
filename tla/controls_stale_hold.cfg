SPECIFICATION Spec
CONSTANTS
  Debounce = 1
  MaxRecord = 3
  ClickLimit = 3
  HoldTime = 3
  PortalTime = 3
  PollEvery = 2
  SleepAfter = 3
  MaxStep = 2
PROPERTIES StaleHoldNeverRecords
