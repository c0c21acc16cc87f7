\* OpenCode with the shared cache: the supervisor keeps a silent room fresh.
CONSTANTS
  Modes = {"opencode"}
  MaxRetries = 0
  SharedCache = TRUE
  Timeout = 4
  MaxRefreshes = 3
  Prompt = TRUE
  Cancellable = FALSE
SPECIFICATION Spec
INVARIANTS
  NoSilentOverrun
