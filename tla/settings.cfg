SPECIFICATION Spec
CONSTANTS
  Slots = 2
  Legacy <- McLegacy
  Factory = "one"
  Requests = {"r1"}
  Stored <- McStored
  Forms <- McForms
  MaxEvents = 2
INVARIANTS
  ResetSticks
  NothingLost
  SecretsStayPaired
CHECK_DEADLOCK FALSE
