\* Rows anywhere in six seconds, three windows long.
SPECIFICATION Spec
CONSTANTS
  NoID = NoID
  Never = Never
  Week = 2
  MaxTime = 5
  MaxEmails = 2
INVARIANTS
  TypeOK
  DigestedWasMailed
  RecordsMatchMails
  NothingMailedAfterCompletion
  OwedRowsComeBack
PROPERTY
  NoRowLeftBehind
\* The clock stops.
CHECK_DEADLOCK FALSE
