SPECIFICATION Spec
CONSTANTS
  Services = {"api", "db"}
  Words = {"retry", "timeout"}
  NoTime = NoTime
  Second = 2
  MinuteLen = 4
  Hour = 1
  DefaultLimit = 2
  MaxLimit = 3
  TopN = 1
  Requests <- SomeRequests
  Params <- SomeParams
  Settings <- SomeSettings
  Month = 2
  MaxNow = 4
  MaxAge = 0
  MaxEntries = 2
  MaxCalls = 1
INVARIANT StoresAgree
CHECK_DEADLOCK FALSE
