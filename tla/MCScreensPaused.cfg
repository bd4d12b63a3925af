CONSTANTS
  StackMax = 4
  MaxExtras = 3
  MaxScreenDeeds = 0
SPECIFICATION ScreensSpec
CHECK_DEADLOCK FALSE
INVARIANT LeftPaused
