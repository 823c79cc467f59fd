SPECIFICATION Spec
CONSTANTS
  p1 = p1
  p2 = p2
  Procs <- TwoProcs
  MaxReq = 3
  Events <- EventsOf
  MaxNet = 2
INVARIANTS RowTruth OneWinner
PROPERTIES ResumeKeepsArtifact RowNeverGoesBack
SYMMETRY Symmetry
CHECK_DEADLOCK FALSE
