CONSTANTS
  Tokens = {t1}
  NoToken = none
  FileCap = 2
  RingCap = 2
  MaxListens = 4
  MaxFaults = 0
  Refusable <- MCRefusable
SPECIFICATION Spec
CHECK_DEADLOCK FALSE
PROPERTY RemovesOnlySent
