CONSTANTS
  Wired = wired
  Headsets = {buds}
  Buds = buds
  Speakers = {spk}
  Nobody = nobody
  MaxDevices = 2
  NewMax = 5
  FadeStart = 20
  FadeStep = 40
  TalkPercents = {20}
  Levels = {5, 10}
  MaxFaults = 0
SPECIFICATION Spec
CHECK_DEADLOCK FALSE
INVARIANTS LoweredNotRemembered
