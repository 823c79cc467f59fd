SPECIFICATION Spec
CONSTANTS
  Versions = {v1}
  Base = Base
  Greenfield = FALSE
  Abortable = {1, 2}
  MaxGen = 2
INVARIANT ImplementationResumable
CHECK_DEADLOCK FALSE
