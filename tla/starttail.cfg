SPECIFICATION Spec
CONSTANTS
  Sockets = {s1, s2, s3}
  Queries = {all, errors}
  None = None
  EnabledAtMount = {FALSE}
  MaxLines = 2
  MaxChanges = 3
CHECK_DEADLOCK FALSE
PROPERTIES StartConnects
