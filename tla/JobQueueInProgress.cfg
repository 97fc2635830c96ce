SPECIFICATION Spec
CONSTANTS
  Items = {a, b, c, x}
  Known = {a, b, c}
  Workers = {w1}
  Nothing = Nothing
  MaxQueued = 2
  MaxRetries = 1
PROPERTIES InProgressFinishes
CHECK_DEADLOCK FALSE
