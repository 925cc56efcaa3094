SPECIFICATION Spec
CONSTANTS
  Services = {"api"}
  Words = {"retry"}
  NoTime = NoTime
  Second = 2
  MinuteLen = 2
  Hour = 1
  DefaultLimit = 1
  MaxLimit = 2
  TopN = 1
  Logs <- SomeLogs
  URLs <- SomeURLs
  DefaultFrom <- LastTick
  Presets <- SomePresets
  Buttons = {"error"}
  Searches = {""}
  StaleTime = 1
  NoKey = NoKey
  MaxNow = 1
  MaxFailures = 2
  MaxClicks = 2
INVARIANTS TypeOK HonestTable NoGap WayBack
PROPERTY Settles
CHECK_DEADLOCK FALSE
