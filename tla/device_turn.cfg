SPECIFICATION LocalSpec
CONSTANTS
  Requests = {q1, q2}
  RingSize = 2
  StreamSize = 1
  MaxRecord = 4
  ReplySize = 3
  NoRequest = NoRequest
  NoAudio = NoAudio
INVARIANTS
  WholeOrNothing
  RecordingHasTask
  PlaysOwnReply
  OpenTurnIsSaved
PROPERTIES
  ErrorClears
  UncancelledTurnEnds
