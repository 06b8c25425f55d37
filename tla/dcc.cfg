SPECIFICATION FairSpec
CHECK_DEADLOCK FALSE
CONSTANTS
  MaxChunk = 4
  BufSize = 2
  MinFrame = 1
  Word = 32
  Files <- MCFiles
  Resumes = {0, 1, 3, 4}
  Frames = {0, 1, 2}
  MaxFrames = 2
  Garbage = {0, 2}
INVARIANTS
  TypeOK
  InStep
  FileIntact
  DoneIsWhole
  VoiceIntact
PROPERTIES TransferEnds KeepsContract
