SPECIFICATION Spec
CONSTANTS
  Versions = {v1}
  Base = Base
  Greenfield = FALSE
  Abortable = {1}
  MaxGen = 2
INVARIANTS OnePublisherUnlessOutdated RepublishHasCause ShippedChecked ImplementedOnceUnlessOutdated
CHECK_DEADLOCK FALSE
