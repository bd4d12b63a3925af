CONSTANTS
  Speakers = {spk}
  Headset = headset
  Feed = feed
  Nowhere = nowhere
  Levels = {1, 2}
  MaxAsks = 3
  MaxTrouble = 1
  Slots = {1, 2}
  Frames = 3
  Keyframes = {0, 1}
  Late = 1
  MaxSeeks = 2
  SeekTimes = {3}  \* just before the last frame, which is not the keyframe
SPECIFICATION Spec
CHECK_DEADLOCK FALSE
INVARIANTS SinksRight FramesRight
PROPERTIES SinksAnswer SeekServed
