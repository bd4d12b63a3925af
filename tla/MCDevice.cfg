CONSTANTS
  Wired = wired
  Headsets = {buds}
  Buds = buds
  Speakers = {spk}
  Nobody = nobody
  MaxDevices = 2
  NewMax = 5
  FadeStart = 20
  FadeStep = 40
  TalkPercents = {20}
  Levels = {5, 10}
  MaxFaults = 2
  Songs = {"long", "short"}
  Video = "video"
  Silence = "silence"
  MinDuration = 3
  MaxThreshold = 2
  Grace = 1
  Duration <- LengthOf
  MaxPlays = 2
  MaxDeeds = 2
  Center = center
  Menu = menu
  PlayPause = playpause
  Prev = prev
  NextButton = next
  Buttons = {center, playpause, next}
  WheelClients = 1
  SocketBuffer = 2
  Packets <- WheelSends
  MaxPackets = 3
  MaxRestarts = 1
  MaxTimers = 1
  Entities = {lamp}
  Servers = {sa, sb}
  None = none
  JobsMax = 2
  MaxActs = 2
  MaxChanges = 1
  MaxTrouble = 1
  StackMax = 4
  MaxExtras = 3
  MaxScreenDeeds = 1
  BtDevices = {cans}
  Pods = {cans}
  MaxEvents = 2
  MaxMoves = 3
  MaxTouches = 2
  MaxLosses = 1
  MinuteLen = 2
  DayLen = 3
  SnoozeLen = 3
  LastCheck = 13
  MaxClicks = 2
  MaxMishaps = 1
SPECIFICATION DeviceSpec
VIEW PartView
CONSTRAINT UntilSlip
CHECK_DEADLOCK FALSE
INVARIANTS LevelsKept ListensRight PressesRight StaysQuiet HaRight ScreensRight
  CallsAnswered EarsRight
PROPERTIES PlaybackLent RaisesOnlyItsOwn LiveClientKept AlarmRight
