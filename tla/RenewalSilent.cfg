CONSTANTS
  Free = Free
  Requests = {put, get, list}
  Unbounded = {list}
SPECIFICATION RenewalSpec

PROPERTY FailsOnlyExpired
CHECK_DEADLOCK FALSE
