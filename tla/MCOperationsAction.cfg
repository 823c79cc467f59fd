SPECIFICATION Spec
CONSTANTS
  acknowledge = acknowledge
  resolve = resolve
  resume = resume
  refresh = refresh
  benchmark = benchmark
  target = target
  requester = requester
  manager = manager
  operator = operator
  p1 = p1
  p2 = p2
  Actions <- Kinds
  Definition <- Defined
  People <- Staff
  Requester = requester
  Procs <- TwoProcs
  MaxActions = 1
  MaxVersion = 2
INVARIANTS RecordIsTrue OutcomeOfLastAttempt
PROPERTY ChangeIsApproved
SYMMETRY Symmetric
CHECK_DEADLOCK FALSE
