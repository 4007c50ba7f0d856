SPECIFICATION FairSpec
CONSTANTS
  Streams <- BothStreams
  File <- AudioFile
  FrameCap <- SmallQueues
  VideoOpens = {"absent"}
  AudioOpens = {"open"}
  Null = Null
  NaN = NaN
  PacketCap = 2
  ChannelCap = 2
  FrameSamples = 3
  ChunkSamples = 4
  CodecDelay = 1
  VideoDuration = 1
  MaxNow = 5
  IsLoop = TRUE
  CanStop = FALSE
  CanPause = FALSE
  CanFail = FALSE
PROPERTY
  PlaysOn
