\* The deadline falls into the second call when the first one times out.
SPECIFICATION FairSpec
CONSTANTS
  CallTimeout = 3
  Budget = 5
  MaxRunes = 2
  MaxLength = 3
  Fallback = Fallback
INVARIANTS
  TypeOK
  SummaryPersistable
  WithinBudget
PROPERTY
  SummarizeReturns
\* Summarize returns.
CHECK_DEADLOCK FALSE
