CONSTANTS
  Frame = 2
  MicFrame = 2
  MaxSamples = 4
  MaxClears = 2
  MaxMic = 3
CHECK_DEADLOCK FALSE
SPECIFICATION FairSpec
INVARIANTS
  TypeOK
  ReplyInOrder
  CutIsSharp
  PipelineInOrder
  MicInOrder
PROPERTIES
  QuietAfterClose
  EitherEndEndsTheCall
  FullFramesGoOut
