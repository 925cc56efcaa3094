SPECIFICATION Spec
CONSTANTS
  Sockets = {s1, s2, s3}
  Queries = {all, errors}
  None = None
  EnabledAtMount = {TRUE, FALSE}
  MaxLines = 2
  MaxChanges = 3
CHECK_DEADLOCK FALSE
INVARIANTS TypeOK OneConnection HonestState
PROPERTIES Reconnects
