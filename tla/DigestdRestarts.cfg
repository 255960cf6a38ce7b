\* Firings of each schedule and the startup poll, through restarts.
SPECIFICATION Spec
CONSTANTS
  p1 = p1
  d1 = d1
  d2 = d2
  StartupRun = StartupRun
  NoRun = NoRun
  PollRuns = {p1}
  DigestRuns = {d1, d2}
  NoID = NoID
  Never = Never
  Week = 2
  MaxTime = 3
  MaxEmails = 2
INVARIANT
  DigestHoldsLock
PROPERTIES
  ImplementsWeeklyDigest
  QuietDatabase
