SPECIFICATION FairSpec
CONSTANTS
  N = 3
  Deps <- PlanDeps
  Mutation = {2}
  External = {3}
  Checkpointed = {2}
  NoHandler <- MissingHandlers
  MaxAttempts <- PlanAttempts
  MaxGen = 2
INVARIANTS ExternalOnceUnlessOutdated AttemptsWithinBudget HandlersIsolated
PROPERTIES OutcomesStick NoCompletionAfterAbort RunEnds
CHECK_DEADLOCK FALSE
