SPECIFICATION OnlineSpec
CONSTANTS
  Requests = {q1}
  RingSize = 1
  StreamSize = 1
  MaxRecord = 3
  ReplySize = 2
  NoRequest = NoRequest
  NoAudio = NoAudio
PROPERTY
  CancelLeavesProcessing
