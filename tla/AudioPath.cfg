SPECIFICATION AudioSpec
CONSTANTS
  StandardDatagram = 32
  JumboDatagram = 40
  MaxVideoFrame = 4
  CaptureQueue = 1
  PacketQueue = 1
  Channels = 2
  FrameLen = 2
  StartLen = 2
  MaxSamples = 6
  RatioNum = 3
  RatioDen = 2
  SequenceModulus = 4
  OtherTraffic <- MCOtherTraffic
  MaxChunk = 1
  MaxFrame <- MCMaxFrame
  NetworkLimit = 2
INVARIANTS
  PlayedInOrder
  SkippedIsLate
  ReceivedAsSent
CHECK_DEADLOCK FALSE
