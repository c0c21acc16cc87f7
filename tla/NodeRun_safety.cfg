\* All three harness modes, one retry, one background refresh, arbitrary scheduling.
CONSTANTS
  Modes = {"simulated", "opencode", "langchain"}
  MaxRetries = 1
  SharedCache = TRUE
  Timeout = 1
  MaxRefreshes = 1
  Prompt = FALSE
  Cancellable = TRUE
SPECIFICATION Spec
INVARIANTS
  BackgroundOnlyInAttempt
  FinalStatusAgrees
  NoSuccessOnFiredAttempt
  Inductive
