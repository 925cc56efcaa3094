SPECIFICATION Spec
CONSTANTS
  Workers = {w1}
  Clients = {c1}
  NoOne = NoOne
  MaxEntries = 2
  MaxPush = 2
  BatchSize = 2
  MaxLen = 2
  ScanFactor = 10
  MaxStops = 1
  MaxCount = 2
  Faults = {}
INVARIANTS CountedOnce
