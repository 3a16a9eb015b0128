SPECIFICATION Spec
CONSTANTS
  t1 = t1
  t2 = t2
  none = none
  Texts = {t1, t2}
  NoText = none
  MaxTurns = 2
  MaxItems = 2
INVARIANT EndOfTurnSettlesDuck
CHECK_DEADLOCK FALSE
