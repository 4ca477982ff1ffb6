SPECIFICATION Spec
CONSTANTS
  Modules = {a, b}
  MaxPolls = 2
INVARIANT FailsClosed
CHECK_DEADLOCK FALSE
