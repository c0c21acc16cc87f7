\* Liveness and the refinement of NodeContract; the caller never cancels (qsm run passes context.Background).
CONSTANTS
  Modes = {"simulated", "opencode", "langchain"}
  MaxRetries = 1
  SharedCache = TRUE
  Timeout = 1
  MaxRefreshes = 1
  Prompt = FALSE
  Cancellable = FALSE
SPECIFICATION Spec
PROPERTIES
  ContractHolds
  FiringIsAnswered
