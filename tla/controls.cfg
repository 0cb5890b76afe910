SPECIFICATION Spec
CONSTANTS
  Debounce = 1
  MaxRecord = 2
  ClickLimit = 3
  HoldTime = 3
  PortalTime = 2
  PollEvery = 2
  SleepAfter = 2
  MaxStep = 1
INVARIANTS NeverSleepsBusy CableWakes
PROPERTIES CancelIsDeliberate OneMeaningPerHold
