SPECIFICATION FairSpec
CONSTANTS
  Requests = {r1, r2}
  Uploads = {h1, h2}
  Audio = {a1, a2}
  MaxQueue = 1
  NoRequest = NoRequest
  NoAudio = NoAudio
INVARIANTS
  TypeOK
  AckedIsDurable
  AtMostOneRun
  RestartFits
PROPERTIES
  ImplementsLifecycle
  SettledIsFinal
  ScheduledSettles
