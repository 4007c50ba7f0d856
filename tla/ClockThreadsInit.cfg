SPECIFICATION FairSpec
CONSTANTS
  Frames <- FrameTimes
  Chunks <- ChunkTimes
  Duration = 1
  ChannelCap = 2
  NaN = NaN
INVARIANT
  ClocksInitialised
CHECK_DEADLOCK FALSE
