SPECIFICATION Spec
CONSTANTS
  t1 = t1
  t2 = t2
  Texts = {t1, t2}
  NoText = none
  none = none
  MaxTurns = 2
  MaxItems = 2
SYMMETRY Symmetry
INVARIANTS
  TypeOK
  DeliveredInOrder
  HistoryInOrder
  PromptIsComplete
  DuckedOnlyWhileHeld
  BargeInStopsReply
  FishSocketsReleased
  StrayLlmOnlyAfterFishFailure
  AnswersFinalTranscript
  EveryReplyIsClosed
  TurnBookkeeping
CHECK_DEADLOCK FALSE
