\* A prompt scheduler, no cache supervisor: the watchdog is on time.
CONSTANTS
  Modes = {"simulated", "langchain"}
  MaxRetries = 1
  SharedCache = TRUE
  Timeout = 4
  MaxRefreshes = 1
  Prompt = TRUE
  Cancellable = TRUE
SPECIFICATION Spec
INVARIANTS
  ArmedWatchdogIsTimely
