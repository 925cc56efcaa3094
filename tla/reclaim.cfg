SPECIFICATION Spec
CONSTANTS
  Workers = {w1, w2}
  Clients = {c1}
  NoOne = NoOne
  MaxEntries = 2
  MaxPush = 1
  BatchSize = 2
  MaxLen = 2
  ScanFactor = 10
  MaxStops = 1
  MaxCount = 1
  Faults = {"slow", "insert", "ack"}
SYMMETRY Symmetry
INVARIANTS TypeOK SettledIsStored TailedIsSettled
