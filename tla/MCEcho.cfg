SPECIFICATION Spec
CONSTANTS
  Quantum = 2
  Grace = 6
  Latency = 1
  Chunks <- MCChunks
  Reply <- MCReply
  WordLen = 2
  UserWord = "stop"
  MaxSaid = 3
  MinWords = 2
  Window = 3
  Reaction = 1
INVARIANTS TypeOK HorizonTracksPlayout
PROPERTIES PlaysAsSent RememberedEchoLeavesReplyAlone UserIsHeard
CHECK_DEADLOCK FALSE
