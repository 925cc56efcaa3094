SPECIFICATION FairSpec
CONSTANTS
  Workers = {w1, w2}
  Clients = {c1}
  NoOne = NoOne
  MaxEntries = 1
  MaxPush = 1
  BatchSize = 2
  MaxLen = 1
  ScanFactor = 10
  MaxStops = 2
  MaxCount = 1
  Faults = {"retry", "insert", "ack", "crash"}
INVARIANT OneHolder
PROPERTIES EventuallyStored EventuallySettled
