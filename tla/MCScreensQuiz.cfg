CONSTANTS
  StackMax = 5
  MaxExtras = 3
  MaxScreenDeeds = 1
SPECIFICATION ScreensSpec
CHECK_DEADLOCK FALSE
INVARIANT QuizUnheard
