SPECIFICATION FairSpec
CONSTANTS
  Capacity = 4
  Byte <- MCByte
  Unset = 0
  HeaderSize = 2
  FmtSize = 2
  TailSize = 1
  StreamSize = 3
  ReadSize = 3
  CaptureSize = 3
  Files <- MCFiles
  MaxRecord = 8
  MaxTurns = 2
INVARIANTS
  RingWellFormed
  WholeBodyIsRecording
  NextUploadCanBegin
  PlayedInOrder
  ReadyIsSound
PROPERTIES
  HeardToTheEnd
  SoundReplyAccepted
CHECK_DEADLOCK FALSE
