SPECIFICATION FairSpec
CONSTANTS
  t1 = t1
  t2 = t2
  none = none
  Texts = {t1}
  NoText = none
  MaxTurns = 2
  MaxItems = 2
PROPERTIES
  DeadTurnsAreSilent
  KeepsPromise
  ReplyEnds
CHECK_DEADLOCK FALSE
