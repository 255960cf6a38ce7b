\* A message with an earlier date reaches the database after the digest.
SPECIFICATION Spec
CONSTANTS
  NoID = NoID
  Never = Never
  Week = 2
  MaxTime = 4
  MaxEmails = 1
INVARIANT
  EmptyDigestTruthful
CHECK_DEADLOCK FALSE
