SPECIFICATION FairSpec
CONSTANTS
  Frames <- FrameTimes
  Chunks <- ChunkTimes
  Duration = 1
  ChannelCap = 2
  NaN = NaN
INVARIANT
  ThreadsTypeOK
PROPERTIES
  StartsOnce
  AudioTimeNeverBack
  AllPlayed
CHECK_DEADLOCK FALSE
