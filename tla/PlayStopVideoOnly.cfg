SPECIFICATION FairSpec
CONSTANTS
  Streams <- BothStreams
  File <- VideoFile
  FrameCap <- SmallQueues
  VideoOpens = {"open"}
  AudioOpens = {"absent", "noSDL"}
  Null = Null
  NaN = NaN
  PacketCap = 2
  ChannelCap = 2
  FrameSamples = 3
  ChunkSamples = 4
  CodecDelay = 1
  VideoDuration = 1
  MaxNow = 5
  IsLoop = TRUE
  CanStop = TRUE
  CanPause = FALSE
  CanFail = FALSE
PROPERTY
  StopTerminates
