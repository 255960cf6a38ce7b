\* Two firings of each schedule and the startup poll; Stop may time out.
SPECIFICATION FairSpec
CONSTANTS
  p1 = p1
  p2 = p2
  d1 = d1
  d2 = d2
  StartupRun = StartupRun
  NoRun = NoRun
  PollRuns = {p1, p2}
  DigestRuns = {d1, d2}
INVARIANTS
  GateInv
  MutualExclusion
  QuietAfterStop
PROPERTIES
  ImplementsJobGate
  StopReturns
  FiringsReturn
\* The daemon stops.
CHECK_DEADLOCK FALSE
