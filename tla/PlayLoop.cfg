SPECIFICATION Spec
CONSTANTS
  Streams <- BothStreams
  File <- ShortFile
  FrameCap <- SmallQueues
  VideoOpens = {"open"}
  AudioOpens = {"open", "noDevice"}
  Null = Null
  NaN = NaN
  PacketCap = 2
  ChannelCap = 2
  FrameSamples = 3
  ChunkSamples = 4
  CodecDelay = 1
  VideoDuration = 1
  MaxNow = 5
  IsLoop = TRUE
  CanStop = TRUE
  CanPause = TRUE
  CanFail = TRUE
INVARIANTS
  PlayTypeOK
  
  
  
  NothingOutlivesReader
  

  
