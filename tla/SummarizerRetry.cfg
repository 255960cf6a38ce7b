\* digestd gives the call and the context the same time.
SPECIFICATION Spec
CONSTANTS
  CallTimeout = 3
  Budget = 3
  MaxRunes = 2
  MaxLength = 3
  Fallback = Fallback
INVARIANT
  RetryHasTime
\* Summarize returns.
CHECK_DEADLOCK FALSE
