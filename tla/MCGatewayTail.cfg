CONSTANTS
  Frame = 2
  MicFrame = 2
  MaxSamples = 3
  MaxClears = 1
  MaxMic = 2
CHECK_DEADLOCK FALSE
SPECIFICATION FairSpec
PROPERTY
  QueuedAudioIsSent
