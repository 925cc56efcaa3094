SPECIFICATION Spec
CONSTANTS
  Workers = {w1}
  Clients = {c1}
  NoOne = NoOne
  MaxEntries = 3
  MaxPush = 2
  BatchSize = 2
  MaxLen = 2
  ScanFactor = 10
  MaxStops = 1
  MaxCount = 1
  Faults = {"retry", "claim", "reply", "insert", "ack", "crash"}
INVARIANTS NoSilentLoss BatchBounded
PROPERTIES ImplementsDelivery NoBatchDropped
