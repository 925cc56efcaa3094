SPECIFICATION HubSpec
CONSTANTS
  Workers = {w1, w2}
  Tails = {t1, t2}
  Services = {api}
  Levels = {info, error}
  Wanted = error
  Empty = Empty
  Nobody = Nobody
  Filters <- OneLevel
  Capacity = 1
  MaxBatch = 2
  MaxLogs = 2
INVARIANTS TypeOK NoSendOnClosed InOrder NothingSkipped
PROPERTIES BroadcastReturns Unsubscribed
